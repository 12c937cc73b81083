---------------------- MODULE SnapshotControllerProofs ----------------------
(***************************************************************************)
(* Proofs about SnapshotController, for any batches, runs, workers and     *)
(* scenarios: the types, that what was ever projected is projected again   *)
(* when all is quiet (FactsKept), and that a captured snapshot covers its  *)
(* batch (CapturedIsWhole).                                                *)
(***************************************************************************)
EXTENDS SnapshotController, FiniteSetTheorems, FunctionTheorems, TLAPS

Serving == {"run", "graduate", "load"}
Applying == {"find", "count", "upsert"}
Aggregating == {"overview", "write overview", "views", "write views"}
Capturing == {"outstanding", "unprojected", "tally", "promote"}
Calling == Applying \cup Aggregating \cup Capturing
Clearing == {"clear state", "clear facts", "clear snapshots", "cleared"}

-----------------------------------------------------------------------------
(* Where a process may be and what it then holds.                          *)

\* What a place needs of the locals, whatever the process.
NeedsOf(v) ==
    /\ v.pc \in Calling \cup {"rewrite", "purge"} => v.batch \in Batches
    /\ v.pc \in {"upsert", "rewrite", "purge"} \cup Aggregating \cup Capturing => v.snap \in Row
    /\ v.pc \in Clearing \cup {"project", "stamp", "set pending", "list", "projecting",
                               "apply", "capture", "rebuilt", "catchup", "caught", "patch"}
         => v.cohort \in Cohort

WorkerAt(v) ==
    /\ v.pc \in {"idle", "project", "stamp"} \cup Serving \cup Applying \cup Aggregating
    /\ v.task \in {"none", "worker"}
    /\ v.pc # "idle" => /\ v.task = "worker" /\ v.then = "stamp"
                        /\ v.run \in Runs /\ v.batch = BatchOf[v.run]
    /\ v.pc \notin {"idle"} \cup Serving => v.cohort \in Cohort
    /\ v.pc \in Aggregating => v.after = "return"

LoopAt(v) ==
    /\ v.pc \in {"idle", "next"} \cup Capturing \cup Aggregating
    /\ v.task \in {"none", "loop"}
    /\ v.pc # "idle" => v.task = "loop" /\ v.then = "next"
    /\ v.todo \subseteq Item
    /\ v.pc \in Aggregating => v.after = "promote"

\* RebuildCohort and ClearCohort.
RebuildAt(v) ==
    \/ v.pc = "lookup" /\ v.task \in {"rebuild", "clear"}
    \/ v.pc \in Clearing /\ v.task \in {"rebuild", "clear"}
    \/ v.pc \in {"set pending", "list", "rebuilt"} /\ v.task = "rebuild"
    \/ v.pc = "projecting" /\ v.task = "rebuild" /\ v.todo \subseteq Runs
    \/ v.pc \in {"apply", "capture"} /\ v.task = "rebuild" /\ v.todo \subseteq Batches
    \/ /\ v.pc \in Calling /\ v.task = "rebuild"
       /\ v.cohort \in Cohort /\ v.todo \subseteq Batches
       /\ \/ v.pc \in Applying /\ v.then = "apply"
          \/ v.pc \in Capturing /\ v.then = "capture"
          \/ v.pc \in Aggregating /\ v.then = "apply" /\ v.after = "return"
          \/ v.pc \in Aggregating /\ v.then = "capture" /\ v.after = "promote"

RepairAt(v) ==
    \/ v.pc \in {"idle", "boot"} /\ v.task = "none"
    \/ RebuildAt(v)
    \/ /\ v.pc \in {"catchup", "caught"} \cup Applying \cup Aggregating
       /\ v.task = "catchup" /\ v.then = "caught"
       /\ v.cohort \in Cohort /\ v.todo \subseteq Runs
       /\ v.pc # "catchup" => v.run \in Runs /\ v.batch = BatchOf[v.run]
       /\ v.pc \in Aggregating => v.after = "return"

AdminAt(v) ==
    \/ v.pc = "idle" /\ v.task = "none"
    \/ RebuildAt(v)
    \/ v.pc = "patch" /\ v.task \in {"rebuild", "clear"}
    \/ v.pc \in Aggregating /\ v.task = "rematerialize" /\ v.after = "rewrite"
    \/ v.pc = "rewrite" /\ v.task \in {"rematerialize", "retire"}
    \/ v.pc = "purge" /\ v.task = "purge"

Placed(p, v) ==
    /\ NeedsOf(v)
    /\ p \in Workers => WorkerAt(v)
    /\ p = Loop => LoopAt(v)
    /\ p = Repair => RepairAt(v)
    /\ p = Admin => AdminAt(v)

PlaceInv == \A p \in Procs : Placed(p, l[p])

-----------------------------------------------------------------------------
(* Jobs and runs.                                                          *)

JobInv ==
    /\ \A r \in Runs : run[r] # "none" <=> job[r] = "done"
    /\ \A b \in Batches : sub[b] = "done" => \A r \in RunsOf(b) : job[r] # "none"
    /\ \A w \in Workers : l[w].pc \in {"run", "graduate"} => job[l[w].run] = "running"
    /\ \A v, w \in Workers : l[v].pc \in {"run", "graduate"} /\ l[w].pc \in {"run", "graduate"}
                             /\ l[v].run = l[w].run => v = w

\* Only a failing graduation parks a job.
ParkInv == \A r \in Runs : job[r] = "parked" => "fault" \in used

-----------------------------------------------------------------------------
(* FactsKept.                                                              *)

Kept == Untouched({"clear", "disable"})

\* The catalogue row a process will write back, or has read at least.
HasCopy(v) == v.cohort # NoSnap /\ v.pc \notin {"patch", "lookup"}

\* Who runs, and whether the cohort is enabled: every copy of the catalogue
\* row agrees with the row on it.
CopiesAgree ==
    \A p \in Procs : HasCopy(l[p]) =>
        /\ l[p].cohort.enabled = cohort.enabled
        /\ cohort.enabled \/ l[p].task = "clear"

CastInv ==
    /\ "crash" \notin used => l[Repair].pc = "idle"
    /\ used \cap {"rebuild", "enable"} = {} =>
          l[Admin].task \in {"none", "rematerialize", "retire", "purge"}
    /\ l[Admin].pc \in {"patch", "lookup"} => l[Admin].task = "rebuild"
    /\ l[Admin].pc = "patch" => ~cohort.enabled /\ ~l[Admin].cohort.enabled
    /\ \A p \in {Admin, Repair} : l[p].task = "clear" => ~cohort.enabled
    /\ l[Repair].task = "rebuild" => ~cohort.enabled /\ l[Repair].pc = "lookup"
    /\ used \cap {"fault", "rebuild", "enable"} = {} /\ cohort.enabled => cohort.mat = "ready"
    /\ "intent" \notin used => \A b \in Batches : wanted[b]

\* The runs that were projected.
SeenInv ==
    /\ facts \subseteq seen /\ state \subseteq seen
    /\ ~cohort.enabled => seen = {}
    /\ \A r \in seen : /\ run[r] # "none" /\ HasBatch(BatchOf[r])
                       /\ "crash" \notin used => run[r] = "succeeded"
    /\ \A w \in Workers : l[w].pc = "project" =>
          run[l[w].run] = "succeeded" /\ HasBatch(l[w].batch)
    /\ l[Repair].task = "catchup" => \A r \in l[Repair].todo : run[r] # "none"

\* What is missing of them is what the rebuild of the administrator deleted
\* and is going to list, or has listed and not reached yet.
MissingInv ==
    \/ seen \subseteq facts \cap state
    \/ l[Admin].task = "rebuild" /\ l[Admin].pc \in {"clear facts", "clear snapshots", "list"}
    \/ l[Admin].pc = "projecting" /\ seen \ (facts \cap state) \subseteq l[Admin].todo

KeptInv == CopiesAgree /\ CastInv /\ SeenInv /\ MissingInv

-----------------------------------------------------------------------------
(* CapturedIsWhole.                                                        *)

Mild == Untouched({"clear", "disable", "enable", "rebuild", "rematerialize", "purge"})

\* No job of the batch is on its way, and what graduated is projected.
Done(b) == \A r \in RunsOf(b) : job[r] \in {"done", "parked"}
Full(b) == Done(b) /\ Graduated(b) \subseteq seen

\* The row a process has a copy of is still there, under the id of the copy.
Same(b, row) == snaps[b] # NoSnap /\ row.id = snaps[b].id

OverviewWhole(b) ==
    /\ Done(b) /\ snaps[b] # NoSnap
    /\ snaps[b].id \in DOMAIN overview /\ overview[snaps[b].id] = Graduated(b)
ViewsWhole(b) ==
    /\ Done(b) /\ snaps[b] # NoSnap
    /\ snaps[b].id \in DOMAIN views /\ views[snaps[b].id] = Graduated(b)
Aggregated(b) == OverviewWhole(b) /\ ViewsWhole(b)

\* Rows have ids of their own, and belong to batches of which a run was
\* projected.
RowsInv ==
    /\ \A b \in Batches : snaps[b] # NoSnap => snaps[b].id < nextId /\ HasBatch(b)
    /\ \A b, c \in Batches : snaps[b] # NoSnap /\ snaps[c] # NoSnap
                             /\ snaps[b].id = snaps[c].id => b = c
    /\ seen = {} => \A b \in Batches : snaps[b] = NoSnap

\* The administrator at most retires a snapshot.
RetireInv ==
    \/ l[Admin].pc = "idle"
    \/ /\ l[Admin].pc = "rewrite" /\ l[Admin].snap.status = "retired"
       /\ snaps[l[Admin].batch] # NoSnap

CapturedInv ==
    \A b \in Batches : Captured(b) => Full(b) /\ Aggregated(b) /\ snaps[b].runs = Graduated(b)

\* What a process in applySnapshotState, materializeSnapshot or captureSnapshot
\* has established of its batch.
CallOK(v) ==
    LET b == v.batch IN
    /\ v.pc \in Calling => HasBatch(b) /\ seen # {}
    /\ v.pc = "count" /\ v.snap # NoSnap =>
          Same(b, v.snap) /\ (v.snap.status = "captured" => Full(b) /\ Aggregated(b))
    /\ v.pc = "upsert" /\ v.snap.status = "captured" =>
          Same(b, v.snap) /\ Full(b) /\ Aggregated(b) /\ v.snap.runs = Graduated(b)
    /\ v.pc \in Aggregating \cup Capturing => Same(b, v.snap)
    /\ v.pc \in Aggregating \cup {"tally", "promote"} => Full(b)
    /\ v.pc = "unprojected" => Done(b)
    /\ v.pc \in {"write overview", "write views"} => v.held = Graduated(b)
    /\ v.pc \in {"views", "write views"} => OverviewWhole(b)
    /\ v.pc = "promote" => Aggregated(b)
    /\ v.pc = "promote" \/ (v.pc \in Aggregating /\ v.after = "promote") =>
          v.snap.runs = Graduated(b)

CallInv ==
    /\ \A p \in Procs : CallOK(l[p])
    /\ \A i \in l[Loop].todo : Same(i.batch, i.snap)

WholeInv == RowsInv /\ RetireInv /\ CapturedInv /\ CallInv

-----------------------------------------------------------------------------
(* Types and places.                                                       *)

TypeInv == SnapshotTypeOK /\ PlaceInv

LEMMA WhoIsWho ==
    /\ Loop \in Procs /\ Admin \in Procs /\ Repair \in Procs
    /\ Loop # Admin /\ Loop # Repair /\ Admin # Repair
    /\ \A w \in Workers : w \in Procs /\ w # Loop /\ w # Admin /\ w # Repair
  BY SnapshotAssumption DEF Procs, Loop, Admin, Repair

\* A process and what it holds.
LEMMA Holds ==
    ASSUME TypeInv, NEW p \in Procs
    PROVE  /\ l \in [Procs -> Local] /\ l[p] \in Local /\ Placed(p, l[p])
           /\ l[p].pc \in Places /\ l[p].then \in Places
           /\ l[p].run \in Runs \cup {NoSnap} /\ l[p].batch \in Batches \cup {NoSnap}
           /\ l[p].cohort \in Cohort \cup {NoSnap} /\ l[p].snap \in Row \cup {NoSnap}
           /\ l[p].held \subseteq Runs /\ l[p].done \subseteq Batches /\ l[p].latest \in Nat
  BY DEF TypeInv, SnapshotTypeOK, PlaceInv, Local

\* One process moves, all others stay where they are.
LEMMA Moves ==
    ASSUME TypeInv, NEW p \in Procs, l' = [l EXCEPT ![p] = l'[p]],
           l'[p] \in Local, Placed(p, l'[p])
    PROVE  l' \in [Procs -> Local] /\ PlaceInv'
<1>1. l \in [Procs -> Local] /\ \A q \in Procs : Placed(q, l[q])
  BY DEF TypeInv, SnapshotTypeOK, PlaceInv
<1>2. l' \in [Procs -> Local] /\ \A q \in Procs : q # p => l'[q] = l[q]
  BY <1>1
<1>3. \A q \in Procs : Placed(q, l'[q])
  BY <1>1, <1>2
<1>. QED
  BY <1>2, <1>3 DEF PlaceInv, Placed, NeedsOf, WorkerAt, LoopAt, RepairAt, AdminAt, RebuildAt

LEMMA IdlePlaced == Idle \in Local /\ \A p : Placed(p, Idle)
<1>1. Idle \in Local
  BY DEF Idle, Local, Places
<1>. QED
  BY <1>1 DEF Idle, Placed, NeedsOf, WorkerAt, LoopAt, RepairAt, AdminAt, RebuildAt,
     Serving, Applying, Aggregating, Capturing, Calling, Clearing

\* A process goes idle.
LEMMA Finishes ==
    ASSUME TypeInv, NEW p \in Procs, Finish(p)
    PROVE  l' \in [Procs -> Local] /\ PlaceInv'
<1>1. l' = [l EXCEPT ![p] = l'[p]] /\ l'[p] = Idle
  BY Holds DEF Finish
<1>. QED
  BY <1>1, IdlePlaced, Moves

\* applySnapshotState, materializeSnapshot or captureSnapshot returns.
LEMMA Returns ==
    ASSUME TypeInv, NEW p \in Procs, l[p].pc = "upsert" \/ l[p].pc \in Capturing,
           Return(p)
    PROVE  l' \in [Procs -> Local] /\ PlaceInv'
<1>1. l[p] \in Local /\ Placed(p, l[p])
  BY Holds
<1>2. l' = [l EXCEPT ![p] = l'[p]] /\ l'[p] = [l[p] EXCEPT !.pc = l[p].then, !.snap = NoSnap]
  BY Holds DEF Return
<1>3. l'[p] \in Local
  BY <1>1, <1>2 DEF Local
<1>. USE DEF Serving, Applying, Aggregating, Capturing, Calling, Clearing
<1>4. Placed(p, l'[p])
  BY <1>1, <1>2, WhoIsWho DEF Local, Placed, NeedsOf, WorkerAt, LoopAt, RepairAt, AdminAt, RebuildAt, Procs
<1>. QED
  BY <1>2, <1>3, <1>4, Moves

\* A process goes on in the same call.
LEMMA GoesOn ==
    ASSUME TypeInv, NEW p \in Procs, NEW pc \in Places, Goto(p, pc),
           \/ l[p].pc = "outstanding" /\ pc = "unprojected"
           \/ l[p].pc = "unprojected" /\ pc = "tally"
           \/ l[p].pc = "run" /\ pc = "graduate"
           \/ l[p].pc = "graduate" /\ pc = "load"
           \/ l[p].pc = "set pending" /\ pc = "clear state"
           \/ l[p].pc = "clear state" /\ pc = "clear facts"
           \/ l[p].pc = "clear facts" /\ pc = "clear snapshots"
           \/ l[p].pc = "clear snapshots" /\ pc = IF l[p].task = "rebuild" THEN "list" ELSE "cleared"
           \/ l[p].pc = "capture" /\ pc = "rebuilt"
           \/ l[p].pc = "project" /\ pc = "find"
           \/ l[p].pc = "patch" /\ pc = "lookup"
    PROVE  l' \in [Procs -> Local] /\ PlaceInv'
<1>1. l[p] \in Local /\ Placed(p, l[p])
  BY Holds
<1>2. l' = [l EXCEPT ![p] = l'[p]] /\ l'[p] = [l[p] EXCEPT !.pc = pc]
  BY Holds DEF Goto
<1>3. l'[p] \in Local
  BY <1>1, <1>2 DEF Local
<1>. USE DEF Serving, Applying, Aggregating, Capturing, Calling, Clearing
<1>9. l[p].pc = "project" => l[p].batch \in Batches
  BY <1>1, WhoIsWho, SnapshotAssumption
     DEF Placed, WorkerAt, LoopAt, RepairAt, AdminAt, RebuildAt, Procs
<1>4. NeedsOf(l'[p])
  BY <1>1, <1>2, <1>9 DEF Local, Placed, NeedsOf
<1>5. p \in Workers => WorkerAt(l'[p])
  BY <1>1, <1>2 DEF Local, Placed, WorkerAt, NeedsOf
<1>6. p = Loop => LoopAt(l'[p])
  BY <1>1, <1>2 DEF Local, Placed, LoopAt
<1>7. p = Repair => RepairAt(l'[p])
  BY <1>1, <1>2 DEF Local, Placed, RepairAt, RebuildAt
<1>8. p = Admin => AdminAt(l'[p])
  BY <1>1, <1>2 DEF Local, Placed, AdminAt, RebuildAt
<1>. QED
  BY <1>2, <1>3, <1>4, <1>5, <1>6, <1>7, <1>8, Moves DEF Placed

LEMMA TypeSubmit == ASSUME TypeInv, SubmitStep PROVE TypeInv'
<1>1. ASSUME NEW r \in Runs, CreateJob(r) PROVE TypeInv'
  BY <1>1 DEF CreateJob, TypeInv, SnapshotTypeOK, PlaceInv, rows, scene
<1>2. ASSUME NEW b \in Batches, CreateBatch(b) PROVE TypeInv'
  BY <1>2 DEF CreateBatch, TypeInv, SnapshotTypeOK, PlaceInv, rows, scene
<1>. QED
  BY <1>1, <1>2 DEF SubmitStep

LEMMA TypeWorker == ASSUME TypeInv, NEW w \in Workers, WorkerStep(w) PROVE TypeInv'
<1>. USE DEF jobs, rows, scene
<1>0. /\ w \in Procs /\ l[w] \in Local /\ Placed(w, l[w]) /\ WorkerAt(l[w])
      /\ SnapshotTypeOK
  BY WhoIsWho, Holds DEF Placed, TypeInv
<1>1. ASSUME NEW r \in Runs, TakeJob(w, r) PROVE TypeInv'
  <2>1. l' = [l EXCEPT ![w] = l'[w]]
        /\ l'[w] = [Idle EXCEPT !.pc = "run", !.task = "worker", !.run = r,
                                !.batch = BatchOf[r], !.then = "stamp"]
    BY <1>0, <1>1, Holds DEF TakeJob
  <2>2. l'[w] \in Local
    <3>1. BatchOf[r] \in Batches
      BY SnapshotAssumption
    <3>2. [Idle EXCEPT !.pc = "run", !.task = "worker", !.run = r,
                       !.batch = BatchOf[r], !.then = "stamp"] \in Local
      BY <3>1 DEF Idle, Local, Places
    <3>. QED
      BY <2>1, <3>2
  <2>3. Placed(w, l'[w])
    BY <2>1, WhoIsWho DEF Idle, Placed, NeedsOf, WorkerAt, Serving, Applying, Aggregating,
       Capturing, Calling, Clearing
  <2>4. l' \in [Procs -> Local] /\ PlaceInv'
    BY <1>0, <2>1, <2>2, <2>3, Moves
  <2>. QED
    BY <1>1, <2>4 DEF TakeJob, TypeInv, SnapshotTypeOK
<1>2. ASSUME EndJob(w) PROVE TypeInv'
  <2>1. l' \in [Procs -> Local] /\ PlaceInv'
    BY <1>0, <1>2, GoesOn DEF EndJob, At, Places
  <2>2. l[w].run \in Runs
    BY <1>0, <1>2 DEF EndJob, At, WorkerAt
  <2>. QED
    BY <1>2, <2>1, <2>2 DEF EndJob, TypeInv, SnapshotTypeOK
<1>3. ASSUME GraduateJob(w) PROVE TypeInv'
  <2>1. l' \in [Procs -> Local] /\ PlaceInv'
    BY <1>0, <1>3, GoesOn DEF GraduateJob, At, Places
  <2>2. Results \subseteq {"none", "succeeded", "failed"}
    BY SnapshotAssumption
  <2>3. run' \in [Runs -> {"none", "succeeded", "failed"}]
    BY <1>0, <1>3, <2>2 DEF GraduateJob, SnapshotTypeOK
  <2>4. job' \in [Runs -> {"none", "open", "running", "parked", "done"}]
    BY <1>0, <1>3 DEF GraduateJob, SnapshotTypeOK
  <2>. QED
    BY <1>3, <2>1, <2>3, <2>4 DEF GraduateJob, TypeInv, SnapshotTypeOK
<1>4. ASSUME LoadRun(w) PROVE TypeInv'
  <2>1. CASE Finish(w)
    BY <1>0, <1>4, <2>1, Finishes DEF LoadRun, TypeInv, SnapshotTypeOK
  <2>2. CASE l' = [l EXCEPT ![w].pc = "project", ![w].cohort = cohort]
    <3>1. l' = [l EXCEPT ![w] = l'[w]]
          /\ l'[w] = [l[w] EXCEPT !.pc = "project", !.cohort = cohort]
      BY <1>0, <2>2, Holds
    <3>0. cohort \in Cohort
      BY <1>0 DEF SnapshotTypeOK
    <3>5. [l[w] EXCEPT !.pc = "project", !.cohort = cohort] \in Local
      <4>1. l[w] \in Local /\ "project" \in Places
        BY <1>0 DEF Places
      <4>. QED
        BY <3>0, <4>1 DEF Local
    <3>2. l'[w] \in Local
      BY <3>1, <3>5
    <3>3. Placed(w, l'[w])
      BY <1>0, <1>4, <3>0, <3>1, WhoIsWho DEF LoadRun, At, Local, Placed, NeedsOf,
         WorkerAt, Serving, Applying, Aggregating, Capturing, Calling, Clearing
    <3>4. l' \in [Procs -> Local] /\ PlaceInv'
      BY <1>0, <3>1, <3>2, <3>3, Moves
    <3>. QED
      BY <1>4, <3>4 DEF LoadRun, TypeInv, SnapshotTypeOK
  <2>. QED
    BY <1>4, <2>1, <2>2 DEF LoadRun
<1>5. ASSUME ProjectLoaded(w) PROVE TypeInv'
  <2>1. l' \in [Procs -> Local] /\ PlaceInv'
    BY <1>0, <1>5, GoesOn DEF ProjectLoaded, At, Places
  <2>2. l[w].run \in Runs
    BY <1>0, <1>5 DEF ProjectLoaded, At, WorkerAt
  <2>. QED
    BY <1>5, <2>1, <2>2 DEF ProjectLoaded, WriteFacts, TypeInv, SnapshotTypeOK
<1>6. ASSUME StampCohort(w) PROVE TypeInv'
  <2>1. l' \in [Procs -> Local] /\ PlaceInv'
    BY <1>0, <1>6, Finishes DEF StampCohort
  <2>2. l[w].run \in Runs /\ l[w].cohort \in Cohort
    BY <1>0, <1>6 DEF StampCohort, At, WorkerAt, Serving
  <2>3. cohort' \in Cohort
    BY <1>0, <1>6, <2>2 DEF StampCohort, UpsertCohort, Cohort, SnapshotTypeOK
  <2>. QED
    BY <1>6, <2>1, <2>3 DEF StampCohort, TypeInv, SnapshotTypeOK
<1>. QED
  BY <1>1, <1>2, <1>3, <1>4, <1>5, <1>6 DEF WorkerStep

LEMMA UpsertType ==
    ASSUME SnapshotTypeOK, NEW b \in Batches, NEW row \in Row, UpsertSnapshot(b, row)
    PROVE  snaps' \in [Batches -> Row \cup {NoSnap}] /\ nextId' \in Nat
<1>1. snaps \in [Batches -> Row \cup {NoSnap}] /\ nextId \in Nat /\ NoSnap \notin Row
  BY SnapshotAssumption DEF SnapshotTypeOK
<1>2. [row EXCEPT !.id = IF snaps[b] = NoSnap THEN nextId ELSE snaps[b].id] \in Row
  BY <1>1 DEF Row
<1>. QED
  BY <1>1, <1>2 DEF UpsertSnapshot

\* A process goes on in applySnapshotState or in materializeSnapshot.
LEMMA SameCall ==
    ASSUME NEW p, NEW v, NEW u, Placed(p, v),
           \/ v.pc \in Applying /\ u.pc \in Applying
           \/ v.pc \in Aggregating /\ u.pc \in Aggregating,
           u.task = v.task, u.run = v.run, u.batch = v.batch, u.cohort = v.cohort,
           u.todo = v.todo, u.then = v.then, u.after = v.after,
           u.pc = "upsert" \/ u.pc \in Aggregating => u.snap \in Row
    PROVE  Placed(p, u)
<1>. USE DEF Serving, Applying, Aggregating, Capturing, Calling, Clearing
<1>1. NeedsOf(u)
  BY DEF Placed, NeedsOf
<1>2. p \in Workers => WorkerAt(u)
  BY DEF Placed, WorkerAt
<1>3. p = Loop => LoopAt(u)
  BY DEF Placed, LoopAt
<1>4. p = Repair => RepairAt(u)
  BY DEF Placed, RepairAt, RebuildAt
<1>5. p = Admin => AdminAt(u)
  BY DEF Placed, AdminAt, RebuildAt
<1>. QED
  BY <1>1, <1>2, <1>3, <1>4, <1>5 DEF Placed

LEMMA TypeApply == ASSUME TypeInv, NEW p \in Procs, ApplySnapshotState(p) PROVE TypeInv'
<1>. USE DEF jobs, rows, scene
<1>0. l[p] \in Local /\ Placed(p, l[p]) /\ NeedsOf(l[p]) /\ SnapshotTypeOK
  BY Holds DEF Placed, TypeInv
<1>1. ASSUME FindSnapshot(p) PROVE TypeInv'
  <2>1. l' = [l EXCEPT ![p] = l'[p]]
        /\ l'[p] = [l[p] EXCEPT !.pc = "count", !.snap = snaps[l[p].batch]]
    BY <1>0, <1>1, Holds DEF FindSnapshot
  <2>2. snaps[l[p].batch] \in Row \cup {NoSnap} /\ "count" \in Places
    BY <1>0, <1>1 DEF FindSnapshot, At, SnapshotTypeOK, NeedsOf, Calling, Applying, Places
  <2>3. l'[p] \in Local
    BY <1>0, <2>1, <2>2 DEF Local
  <2>4. Placed(p, l'[p])
    <3>0. l[p].pc = "find"
      BY <1>0, <1>1 DEF FindSnapshot, At, NeedsOf, Aggregating
    <3>1. /\ l[p].pc \in Applying /\ l'[p].pc \in Applying /\ l'[p].task = l[p].task /\ l'[p].run = l[p].run
          /\ l'[p].batch = l[p].batch /\ l'[p].cohort = l[p].cohort /\ l'[p].todo = l[p].todo
          /\ l'[p].then = l[p].then /\ l'[p].after = l[p].after
          /\ l'[p].pc = "upsert" \/ l'[p].pc \in Aggregating => l'[p].snap \in Row
      BY <1>0, <2>1, <3>0 DEF Local, Applying, Aggregating
    <3>. QED
      BY <1>0, <3>1, SameCall
  <2>5. l' \in [Procs -> Local] /\ PlaceInv'
    BY <2>1, <2>3, <2>4, Moves
  <2>. QED
    BY <1>1, <2>5 DEF FindSnapshot, TypeInv, SnapshotTypeOK
<1>2. ASSUME CountRuns(p) PROVE TypeInv'
  <2>. DEFINE row == [(IF l[p].snap = NoSnap THEN NewSnapshot ELSE l[p].snap)
                        EXCEPT !.runs = Counted(l[p].batch)]
  <2>1. l' = [l EXCEPT ![p] = l'[p]] /\ l'[p] = [l[p] EXCEPT !.pc = "upsert", !.snap = row]
    BY <1>0, <1>2, Holds DEF CountRuns
  <2>2. "upsert" \in Places /\ row \in Row
    <3>1. l[p].snap \in Row \cup {NoSnap} /\ Counted(l[p].batch) \subseteq Runs
      BY Holds DEF Counted, RunsOf
    <3>. QED
      BY <3>1 DEF Row, NewSnapshot, Places
  <2>. HIDE DEF row
  <2>3. l'[p] \in Local
    BY <1>0, <2>1, <2>2 DEF Local
  <2>4. Placed(p, l'[p])
    <3>0. l[p].pc = "count"
      BY <1>0, <1>2 DEF CountRuns, At, NeedsOf, Aggregating
    <3>1. /\ l[p].pc \in Applying /\ l'[p].pc \in Applying /\ l'[p].task = l[p].task /\ l'[p].run = l[p].run
          /\ l'[p].batch = l[p].batch /\ l'[p].cohort = l[p].cohort /\ l'[p].todo = l[p].todo
          /\ l'[p].then = l[p].then /\ l'[p].after = l[p].after
          /\ l'[p].pc = "upsert" \/ l'[p].pc \in Aggregating => l'[p].snap \in Row
      BY <1>0, <2>1, <2>2, <3>0 DEF Local, Applying, Aggregating
    <3>. QED
      BY <1>0, <3>1, SameCall
  <2>5. l' \in [Procs -> Local] /\ PlaceInv'
    BY <2>1, <2>3, <2>4, Moves
  <2>. QED
    BY <1>2, <2>5 DEF CountRuns, TypeInv, SnapshotTypeOK
<1>3. ASSUME StoreSnapshot(p) PROVE TypeInv'
  <2>1. l[p].batch \in Batches /\ l[p].snap \in Row
    BY <1>0, <1>3 DEF StoreSnapshot, At, NeedsOf, Calling, Applying
  <2>2. snaps' \in [Batches -> Row \cup {NoSnap}] /\ nextId' \in Nat
    BY <1>0, <1>3, <2>1, UpsertType DEF StoreSnapshot
  <2>3. l' \in [Procs -> Local] /\ PlaceInv'
    <3>1. CASE l[p].snap.status = "captured"
      <4>1. l' = [l EXCEPT ![p] = l'[p]]
            /\ l'[p] = [l[p] EXCEPT !.pc = "overview", !.after = "return"]
        BY <1>0, <1>3, <3>1, Holds DEF StoreSnapshot
      <4>2. l'[p] \in Local
        <5>1. "overview" \in Places
          BY DEF Places
        <5>. QED
          BY <1>0, <4>1, <5>1 DEF Local
      <4>3. Placed(p, l'[p])
        BY <1>0, <1>3, <4>1 DEF StoreSnapshot, At, Local, Placed, NeedsOf, WorkerAt, LoopAt,
           RepairAt, AdminAt, RebuildAt, Serving, Applying, Aggregating, Capturing, Calling, Clearing
      <4>. QED
        BY <4>1, <4>2, <4>3, Moves
    <3>2. CASE l[p].snap.status # "captured"
      BY <1>3, <3>2, Returns DEF StoreSnapshot, At
    <3>. QED
      BY <3>1, <3>2
  <2>. QED
    BY <1>3, <2>2, <2>3 DEF StoreSnapshot, TypeInv, SnapshotTypeOK
<1>. QED
  BY <1>1, <1>2, <1>3 DEF ApplySnapshotState

LEMMA TypeMaterialize == ASSUME TypeInv, NEW p \in Procs, MaterializeSnapshot(p) PROVE TypeInv'
<1>. USE DEF jobs, rows, scene
<1>0. l[p] \in Local /\ Placed(p, l[p]) /\ NeedsOf(l[p]) /\ SnapshotTypeOK
  BY Holds DEF Placed, TypeInv
<1>1. ASSUME NEW from, NEW to, Compute(p, from, to),
             \/ from = "overview" /\ to = "write overview"
             \/ from = "views" /\ to = "write views"
      PROVE  TypeInv'
  <2>1. l' = [l EXCEPT ![p] = l'[p]]
        /\ l'[p] = [l[p] EXCEPT !.pc = to, !.held = Counted(l[p].batch)]
    BY <1>0, <1>1, Holds DEF Compute
  <2>2. Counted(l[p].batch) \subseteq Runs /\ to \in Places
    BY <1>1 DEF Counted, RunsOf, Places
  <2>3. l'[p] \in Local
    BY <1>0, <2>1, <2>2 DEF Local
  <2>4. Placed(p, l'[p])
    <3>0. l[p].pc = from /\ l[p].snap \in Row
      BY <1>0, <1>1 DEF Compute, At, NeedsOf, Aggregating
    <3>1. /\ l[p].pc \in Aggregating /\ l'[p].pc \in Aggregating /\ l'[p].task = l[p].task /\ l'[p].run = l[p].run
          /\ l'[p].batch = l[p].batch /\ l'[p].cohort = l[p].cohort /\ l'[p].todo = l[p].todo
          /\ l'[p].then = l[p].then /\ l'[p].after = l[p].after
          /\ l'[p].pc = "upsert" \/ l'[p].pc \in Aggregating => l'[p].snap \in Row
      BY <1>0, <1>1, <2>1, <3>0 DEF Local, Applying, Aggregating
    <3>. QED
      BY <1>0, <3>1, SameCall
  <2>5. l' \in [Procs -> Local] /\ PlaceInv'
    BY <2>1, <2>3, <2>4, Moves
  <2>. QED
    BY <1>1, <2>5 DEF Compute, TypeInv, SnapshotTypeOK
<1>2. ASSUME ReplaceOverview(p) PROVE TypeInv'
  <2>1. l' = [l EXCEPT ![p] = l'[p]] /\ l'[p] = [l[p] EXCEPT !.pc = "views", !.held = {}]
    BY <1>0, <1>2, Holds DEF ReplaceOverview
  <2>2. "views" \in Places /\ l[p].held \subseteq Runs
    BY Holds DEF Places
  <2>3. l'[p] \in Local
    BY <1>0, <2>1, <2>2 DEF Local
  <2>4. Placed(p, l'[p])
    <3>0. l[p].pc = "write overview" /\ l[p].snap \in Row
      BY <1>0, <1>2 DEF ReplaceOverview, At, NeedsOf, Aggregating
    <3>1. /\ l[p].pc \in Aggregating /\ l'[p].pc \in Aggregating /\ l'[p].task = l[p].task /\ l'[p].run = l[p].run
          /\ l'[p].batch = l[p].batch /\ l'[p].cohort = l[p].cohort /\ l'[p].todo = l[p].todo
          /\ l'[p].then = l[p].then /\ l'[p].after = l[p].after
          /\ l'[p].pc = "upsert" \/ l'[p].pc \in Aggregating => l'[p].snap \in Row
      BY <1>0, <2>1, <3>0 DEF Local, Applying, Aggregating
    <3>. QED
      BY <1>0, <3>1, SameCall
  <2>5. l' \in [Procs -> Local] /\ PlaceInv'
    BY <2>1, <2>3, <2>4, Moves
  <2>6. \A id \in DOMAIN overview' : overview'[id] \subseteq Runs
    BY <1>0, <1>2, <2>2 DEF ReplaceOverview, With, SnapshotTypeOK
  <2>. QED
    BY <1>2, <2>5, <2>6 DEF ReplaceOverview, TypeInv, SnapshotTypeOK
<1>3. ASSUME ReplaceViews(p) PROVE TypeInv'
  <2>. DEFINE to == IF l[p].after = "return" THEN l[p].then ELSE l[p].after
              row == IF l[p].after = "return" THEN NoSnap ELSE l[p].snap
  <2>1. l' = [l EXCEPT ![p] = l'[p]]
        /\ l'[p] = [l[p] EXCEPT !.held = {}, !.after = "idle", !.pc = to, !.snap = row]
    BY <1>0, <1>3, Holds DEF ReplaceViews
  <2>2. "idle" \in Places /\ to \in Places /\ row \in Row \cup {NoSnap} /\ l[p].held \subseteq Runs
    <3>1. l[p].after \in Places \cup {"return"}
      BY <1>0 DEF Local
    <3>. QED
      BY <3>1, Holds DEF Places
  <2>3. l'[p] \in Local
    <3>. HIDE DEF to, row
    <3>. QED
      BY <1>0, <2>1, <2>2 DEF Local
  <2>4. Placed(p, l'[p])
    <3>. USE DEF Serving, Applying, Aggregating, Capturing, Calling, Clearing
    <3>0. l[p].pc = "write views" /\ l[p].batch \in Batches /\ l[p].snap \in Row
      BY <1>0, <1>3 DEF ReplaceViews, At, NeedsOf
    <3>1. CASE p \in Workers
      BY <1>0, <2>1, <3>0, <3>1, WhoIsWho DEF Local, Placed, NeedsOf, WorkerAt
    <3>2. CASE p = Loop
      BY <1>0, <2>1, <3>0, <3>2, WhoIsWho DEF Local, Placed, NeedsOf, LoopAt
    <3>3. CASE p = Repair
      BY <1>0, <2>1, <3>0, <3>3, WhoIsWho DEF Local, Placed, NeedsOf, RepairAt, RebuildAt
    <3>4. CASE p = Admin
      BY <1>0, <2>1, <3>0, <3>4, WhoIsWho DEF Local, Placed, NeedsOf, AdminAt, RebuildAt
    <3>. QED
      BY <3>1, <3>2, <3>3, <3>4 DEF Procs
  <2>5. l' \in [Procs -> Local] /\ PlaceInv'
    BY <2>1, <2>3, <2>4, Moves
  <2>6. \A id \in DOMAIN views' : views'[id] \subseteq Runs
    BY <1>0, <1>3, <2>2 DEF ReplaceViews, With, SnapshotTypeOK
  <2>. QED
    BY <1>3, <2>5, <2>6 DEF ReplaceViews, TypeInv, SnapshotTypeOK
<1>. QED
  BY <1>1, <1>2, <1>3 DEF MaterializeSnapshot

LEMMA TypeCapture == ASSUME TypeInv, NEW p \in Procs, CaptureSnapshot(p) PROVE TypeInv'
<1>. USE DEF jobs, rows, scene
<1>0. l[p] \in Local /\ Placed(p, l[p]) /\ NeedsOf(l[p]) /\ SnapshotTypeOK
  BY Holds DEF Placed, TypeInv
<1>1. ASSUME CheckOutstanding(p) PROVE TypeInv'
  <2>1. l' \in [Procs -> Local] /\ PlaceInv'
    BY <1>1, GoesOn, Returns DEF CheckOutstanding, Check, At, Places, Capturing
  <2>. QED
    BY <1>1, <2>1 DEF CheckOutstanding, Check, TypeInv, SnapshotTypeOK
<1>2. ASSUME CheckUnprojected(p) PROVE TypeInv'
  <2>1. l' \in [Procs -> Local] /\ PlaceInv'
    BY <1>2, GoesOn, Returns DEF CheckUnprojected, Check, At, Places, Capturing
  <2>. QED
    BY <1>2, <2>1 DEF CheckUnprojected, Check, TypeInv, SnapshotTypeOK
<1>3. ASSUME TallyRuns(p) PROVE TypeInv'
  <2>1. CASE Return(p)
    <3>1. l' \in [Procs -> Local] /\ PlaceInv'
      BY <1>3, <2>1, Returns DEF TallyRuns, At, Capturing
    <3>. QED
      BY <1>3, <3>1 DEF TallyRuns, TypeInv, SnapshotTypeOK
  <2>2. CASE ~Return(p)
    <3>. DEFINE row == [l[p].snap EXCEPT !.runs = Counted(l[p].batch)]
    <3>1. l' = [l EXCEPT ![p] = l'[p]]
          /\ l'[p] = [l[p] EXCEPT !.pc = "overview", !.after = "promote", !.snap = row]
      BY <1>0, <1>3, <2>2, Holds DEF TallyRuns, Local
    <3>2. "overview" \in Places /\ "promote" \in Places /\ row \in Row
      BY <1>0, <1>3 DEF TallyRuns, At, NeedsOf, Capturing, Calling, Row, Counted, RunsOf, Places
    <3>. HIDE DEF row
    <3>3. l'[p] \in Local
      BY <1>0, <3>1, <3>2 DEF Local
    <3>4. Placed(p, l'[p])
      BY <1>0, <1>3, <3>1, <3>2 DEF TallyRuns, At, Local, Placed, NeedsOf, WorkerAt, LoopAt,
         RepairAt, AdminAt, RebuildAt, Serving, Applying, Aggregating, Capturing, Calling, Clearing
    <3>5. l' \in [Procs -> Local] /\ PlaceInv'
      BY <3>1, <3>3, <3>4, Moves
    <3>. QED
      BY <1>3, <3>5 DEF TallyRuns, TypeInv, SnapshotTypeOK
  <2>. QED
    BY <2>1, <2>2
<1>4. ASSUME PromoteToCaptured(p) PROVE TypeInv'
  <2>1. l[p].batch \in Batches /\ [l[p].snap EXCEPT !.status = "captured"] \in Row
    BY <1>0, <1>4 DEF PromoteToCaptured, At, NeedsOf, Capturing, Calling, Row
  <2>2. snaps' \in [Batches -> Row \cup {NoSnap}] /\ nextId' \in Nat
    BY <1>0, <1>4, <2>1, UpsertType DEF PromoteToCaptured
  <2>3. l' \in [Procs -> Local] /\ PlaceInv'
    BY <1>4, Returns DEF PromoteToCaptured, At, Capturing
  <2>. QED
    BY <1>4, <2>2, <2>3 DEF PromoteToCaptured, TypeInv, SnapshotTypeOK
<1>. QED
  BY <1>1, <1>2, <1>3, <1>4 DEF CaptureSnapshot

LEMMA TypeLoop == ASSUME TypeInv, ListPending \/ NextPending PROVE TypeInv'
<1>. USE DEF jobs, rows, scene
<1>0. /\ Loop \in Procs /\ l[Loop] \in Local /\ Placed(Loop, l[Loop]) /\ LoopAt(l[Loop])
      /\ SnapshotTypeOK
  BY WhoIsWho, Holds DEF Placed, TypeInv
<1>1. ASSUME ListPending PROVE TypeInv'
  <2>1. l' = [l EXCEPT ![Loop] = l'[Loop]]
        /\ l'[Loop] = [Idle EXCEPT !.pc = "next", !.task = "loop", !.then = "next",
                                   !.todo = PendingSnapshots]
    BY <1>0, <1>1, Holds DEF ListPending
  <2>2. PendingSnapshots \subseteq Item /\ "next" \in Places
    BY <1>0 DEF PendingSnapshots, Item, SnapshotTypeOK, Places
  <2>3. l'[Loop] \in Local
    <3>1. [Idle EXCEPT !.pc = "next", !.task = "loop", !.then = "next",
                       !.todo = PendingSnapshots] \in Local
      BY <2>2, IdlePlaced DEF Local
    <3>. QED
      BY <2>1, <3>1
  <2>4. Placed(Loop, l'[Loop])
    BY <2>1, <2>2, WhoIsWho, IdlePlaced DEF Local, Placed, NeedsOf, LoopAt, Serving, Applying,
       Aggregating, Capturing, Calling, Clearing
  <2>5. l' \in [Procs -> Local] /\ PlaceInv'
    BY <1>0, <2>1, <2>3, <2>4, Moves
  <2>. QED
    BY <1>1, <2>5 DEF ListPending, TypeInv, SnapshotTypeOK
<1>2. ASSUME NextPending PROVE TypeInv'
  <2>1. CASE l[Loop].todo = {}
    BY <1>0, <1>2, <2>1, Finishes DEF NextPending, TypeInv, SnapshotTypeOK
  <2>2. CASE l[Loop].todo # {}
    <3>1. PICK i \in l[Loop].todo :
            l' = [l EXCEPT ![Loop].pc = "outstanding", ![Loop].batch = i.batch,
                           ![Loop].snap = i.snap, ![Loop].todo = @ \ {i}]
      BY <1>2, <2>2 DEF NextPending
    <3>2. i.batch \in Batches /\ i.snap \in Row /\ l[Loop].todo \subseteq Item
          /\ "outstanding" \in Places
      BY <1>0 DEF LoopAt, Item, Places
    <3>3. l' = [l EXCEPT ![Loop] = l'[Loop]]
          /\ l'[Loop] = [l[Loop] EXCEPT !.pc = "outstanding", !.batch = i.batch,
                                        !.snap = i.snap, !.todo = l[Loop].todo \ {i}]
      BY <1>0, <3>1, Holds
    <3>4. l'[Loop] \in Local
      BY ZenonT(60), <1>0, <3>2, <3>3 DEF Local
    <3>5. Placed(Loop, l'[Loop])
      <4>1. l[Loop].pc = "next" /\ l[Loop].task = "loop" /\ l[Loop].then = "next"
        BY <1>0, <1>2 DEF NextPending, At, LoopAt
      <4>2. /\ l'[Loop].pc = "outstanding" /\ l'[Loop].batch \in Batches /\ l'[Loop].snap \in Row
            /\ l'[Loop].task = "loop" /\ l'[Loop].then = "next" /\ l'[Loop].todo \subseteq Item
        BY <1>0, <3>2, <3>3, <4>1 DEF Local
      <4>. QED
        BY <4>2, WhoIsWho DEF Placed, NeedsOf, LoopAt, Serving, Applying, Aggregating,
           Capturing, Calling, Clearing
    <3>6. l' \in [Procs -> Local] /\ PlaceInv'
      BY <1>0, <3>3, <3>4, <3>5, Moves
    <3>. QED
      BY <1>2, <3>6 DEF NextPending, TypeInv, SnapshotTypeOK
  <2>. QED
    BY <2>1, <2>2
<1>. QED
  BY <1>1, <1>2

\* A step of RebuildCohort, once its locals are known.
LEMMA Rebuilds ==
    ASSUME NEW p \in {Admin, Repair}, NEW v, NeedsOf(v), RebuildAt(v)
    PROVE  Placed(p, v)
  BY WhoIsWho DEF Placed, RepairAt, AdminAt

LEMMA TypeRebuild == ASSUME TypeInv, NEW p \in {Admin, Repair}, RebuildStep(p) PROVE TypeInv'
<1>. USE DEF jobs, rows, scene
<1>0. /\ p \in Procs /\ l[p] \in Local /\ Placed(p, l[p]) /\ NeedsOf(l[p]) /\ SnapshotTypeOK
      /\ cohort \in Cohort /\ clock \in Nat
  BY WhoIsWho, Holds DEF Placed, TypeInv, SnapshotTypeOK
<1>r. l[p].pc \in {"lookup", "set pending", "list", "projecting", "apply", "capture", "rebuilt"}
      \/ l[p].pc \in Clearing => RebuildAt(l[p])
  BY <1>0 DEF Placed, RepairAt, AdminAt, Applying, Aggregating, Clearing
<1>u. ASSUME NEW mat \in {"pending", "ready", "failed"}, NEW stamp \in Nat,
             l[p].cohort \in Cohort, UpsertCohort(l[p].cohort, mat, stamp)
      PROVE  cohort' \in Cohort
  BY <1>u DEF UpsertCohort, Cohort
<1>1. ASSUME LookupCohort(p) PROVE TypeInv'
  <2>. DEFINE task == IF cohort.enabled THEN l[p].task ELSE "clear"
              to == IF l[p].task = "rebuild" /\ cohort.enabled THEN "set pending" ELSE "clear state"
  <2>1. l' = [l EXCEPT ![p] = l'[p]]
        /\ l'[p] = [l[p] EXCEPT !.cohort = cohort, !.task = task, !.pc = to]
    BY <1>0, <1>1, Holds DEF LookupCohort
  <2>2. l[p].task \in {"rebuild", "clear"}
    BY <1>1, <1>r DEF LookupCohort, At, RebuildAt, Calling, Applying, Aggregating, Capturing, Clearing
  <2>3. to \in Places /\ task \in {"rebuild", "clear"}
        /\ (to = "set pending" => task = "rebuild") /\ to \in {"clear state", "set pending"}
    <3>1. cohort.enabled \in BOOLEAN
      BY <1>0 DEF Cohort
    <3>2. "set pending" \in Places /\ "clear state" \in Places
      BY DEF Places
    <3>3. CASE cohort.enabled
      BY <2>2, <3>2, <3>3
    <3>4. CASE ~cohort.enabled
      BY <2>2, <3>2, <3>4
    <3>. QED
      BY <3>1, <3>3, <3>4
  <2>. HIDE DEF to, task
  <2>4. l'[p] \in Local
    BY <1>0, <2>1, <2>3 DEF Local
  <2>5. /\ l'[p].pc = to /\ l'[p].task = task /\ l'[p].cohort = cohort
    BY <1>0, <2>1 DEF Local
  <2>6. NeedsOf(l'[p]) /\ RebuildAt(l'[p])
    BY <1>0, <2>3, <2>5 DEF NeedsOf, RebuildAt, Calling, Applying, Aggregating, Capturing, Clearing
  <2>7. l' \in [Procs -> Local] /\ PlaceInv'
    BY <1>0, <2>1, <2>4, <2>6, Rebuilds, Moves
  <2>. QED
    BY <1>1, <2>7 DEF LookupCohort, TypeInv, SnapshotTypeOK
<1>2. ASSUME SetPending(p) PROVE TypeInv'
  <2>1. l' \in [Procs -> Local] /\ PlaceInv'
    BY <1>0, <1>2, GoesOn DEF SetPending, At, Places
  <2>2. cohort' \in Cohort
    BY <1>0, <1>2, <1>u DEF SetPending, At, NeedsOf
  <2>. QED
    BY <1>2, <2>1, <2>2 DEF SetPending, TypeInv, SnapshotTypeOK
<1>3. ASSUME ClearState(p) PROVE TypeInv'
  <2>1. l' \in [Procs -> Local] /\ PlaceInv'
    BY <1>0, <1>3, GoesOn DEF ClearState, At, Places
  <2>. QED
    BY <1>3, <2>1 DEF ClearState, TypeInv, SnapshotTypeOK
<1>4. ASSUME ClearFacts(p) PROVE TypeInv'
  <2>1. l' \in [Procs -> Local] /\ PlaceInv'
    BY <1>0, <1>4, GoesOn DEF ClearFacts, At, Places
  <2>. QED
    BY <1>4, <2>1 DEF ClearFacts, TypeInv, SnapshotTypeOK
<1>5. ASSUME ClearSnapshots(p) PROVE TypeInv'
  <2>1. l' \in [Procs -> Local] /\ PlaceInv'
    BY <1>0, <1>5, GoesOn DEF ClearSnapshots, At, Places
  <2>2. (\A id \in DOMAIN overview' : overview'[id] \subseteq Runs)
        /\ \A id \in DOMAIN views' : views'[id] \subseteq Runs
    BY <1>0, <1>5 DEF ClearSnapshots, Without, SnapshotTypeOK
  <2>. QED
    BY <1>5, <2>1, <2>2 DEF ClearSnapshots, TypeInv, SnapshotTypeOK
<1>6. ASSUME EndClear(p) PROVE TypeInv'
  <2>1. l' \in [Procs -> Local] /\ PlaceInv'
    BY <1>0, <1>6, Finishes DEF EndClear
  <2>2. cohort' \in Cohort
    BY <1>0, <1>6, <1>u DEF EndClear, At, NeedsOf, Clearing
  <2>. QED
    BY <1>6, <2>1, <2>2 DEF EndClear, TypeInv, SnapshotTypeOK
<1>7. ASSUME ListRuns(p) PROVE TypeInv'
  <2>. DEFINE todo == IF cohort.enabled THEN {r \in Runs : run[r] # "none"} ELSE {}
  <2>1. l' = [l EXCEPT ![p] = l'[p]] /\ l'[p] = [l[p] EXCEPT !.pc = "projecting", !.todo = todo]
    BY <1>0, <1>7, Holds DEF ListRuns
  <2>2. l[p].task = "rebuild" /\ l[p].cohort \in Cohort
    BY <1>0, <1>7, <1>r DEF ListRuns, At, NeedsOf, RebuildAt, Calling, Applying, Aggregating,
       Capturing, Clearing
  <2>3. "projecting" \in Places /\ todo \subseteq Runs
    BY DEF Places
  <2>. HIDE DEF todo
  <2>4. l'[p] \in Local
    BY <1>0, <2>1, <2>3 DEF Local
  <2>5. /\ l'[p].pc = "projecting" /\ l'[p].task = "rebuild" /\ l'[p].todo = todo
        /\ l'[p].cohort \in Cohort
    BY <1>0, <2>1, <2>2 DEF Local
  <2>6. NeedsOf(l'[p]) /\ RebuildAt(l'[p])
    BY <2>3, <2>5 DEF NeedsOf, RebuildAt, Calling, Applying, Aggregating, Capturing, Clearing
  <2>7. l' \in [Procs -> Local] /\ PlaceInv'
    BY <1>0, <2>1, <2>4, <2>6, Rebuilds, Moves
  <2>. QED
    BY <1>7, <2>7 DEF ListRuns, TypeInv, SnapshotTypeOK
<1>8. ASSUME ProjectForRebuild(p) PROVE TypeInv'
  <2>0. /\ l[p].pc = "projecting" /\ l[p].task = "rebuild" /\ l[p].todo \subseteq Runs
        /\ l[p].cohort \in Cohort /\ l[p].done \subseteq Batches
        /\ "apply" \in Places
    BY <1>0, <1>8, <1>r, Holds DEF ProjectForRebuild, At, NeedsOf, RebuildAt, Calling, Applying,
       Aggregating, Capturing, Clearing, Places
  <2>1. CASE l[p].todo = {}
    <3>1. l' = [l EXCEPT ![p] = l'[p]] /\ l'[p] = [l[p] EXCEPT !.pc = "apply", !.todo = l[p].done]
      BY <1>0, <1>8, <2>1, Holds DEF ProjectForRebuild
    <3>2. l'[p] \in Local
      BY <1>0, <2>0, <3>1 DEF Local
    <3>3. /\ l'[p].pc = "apply" /\ l'[p].task = "rebuild" /\ l'[p].todo \subseteq Batches
          /\ l'[p].cohort \in Cohort
      BY <1>0, <2>0, <3>1 DEF Local
    <3>4. NeedsOf(l'[p]) /\ RebuildAt(l'[p])
      BY <3>3 DEF NeedsOf, RebuildAt, Calling, Applying, Aggregating, Capturing, Clearing
    <3>5. l' \in [Procs -> Local] /\ PlaceInv'
      BY <1>0, <3>1, <3>2, <3>4, Rebuilds, Moves
    <3>. QED
      BY <1>8, <2>1, <3>5 DEF ProjectForRebuild, TypeInv, SnapshotTypeOK
  <2>2. CASE l[p].todo # {}
    <3>1. PICK r \in l[p].todo :
             \/ /\ WriteFacts(r)
                /\ l' = [l EXCEPT ![p].todo = @ \ {r}, ![p].done = @ \cup {BatchOf[r]}]
             \/ /\ l' = [l EXCEPT ![p].todo = @ \ {r}]
                /\ UNCHANGED rows
      BY <1>8, <2>2 DEF ProjectForRebuild
    <3>2. r \in Runs /\ BatchOf[r] \in Batches
      BY <2>0, SnapshotAssumption
    <3>3. /\ l' = [l EXCEPT ![p] = l'[p]]
          /\ \/ l'[p] = [l[p] EXCEPT !.todo = l[p].todo \ {r}, !.done = l[p].done \cup {BatchOf[r]}]
             \/ l'[p] = [l[p] EXCEPT !.todo = l[p].todo \ {r}]
      BY <1>0, <3>1, Holds
    <3>4. l'[p] \in Local
      <4>1. l[p].todo \ {r} \in SUBSET (Runs \cup Batches \cup Item)
            /\ l[p].done \cup {BatchOf[r]} \in SUBSET Batches
        BY <2>0, <3>2
      <4>. QED
        BY ZenonT(60), <1>0, <3>3, <4>1 DEF Local
    <3>5. /\ l'[p].pc = "projecting" /\ l'[p].task = "rebuild" /\ l'[p].todo \subseteq Runs
          /\ l'[p].cohort \in Cohort
      BY <1>0, <2>0, <3>3 DEF Local
    <3>6. NeedsOf(l'[p]) /\ RebuildAt(l'[p])
      BY <3>5 DEF NeedsOf, RebuildAt, Calling, Applying, Aggregating, Capturing, Clearing
    <3>7. l' \in [Procs -> Local] /\ PlaceInv'
      BY <1>0, <3>3, <3>4, <3>6, Rebuilds, Moves
    <3>. QED
      BY <1>8, <3>1, <3>2, <3>7 DEF ProjectForRebuild, WriteFacts, TypeInv, SnapshotTypeOK
  <2>. QED
    BY <2>1, <2>2
<1>9. ASSUME ApplyNext(p) PROVE TypeInv'
  <2>0. /\ l[p].pc = "apply" /\ l[p].task = "rebuild" /\ l[p].todo \subseteq Batches
        /\ l[p].cohort \in Cohort /\ l[p].done \subseteq Batches
        /\ "apply" \in Places /\ "capture" \in Places /\ "find" \in Places
    BY <1>0, <1>9, <1>r, Holds DEF ApplyNext, At, NeedsOf, RebuildAt, Calling, Applying,
       Aggregating, Capturing, Clearing, Places
  <2>1. CASE l[p].todo = {}
    <3>1. l' = [l EXCEPT ![p] = l'[p]] /\ l'[p] = [l[p] EXCEPT !.pc = "capture", !.todo = l[p].done]
      BY <1>0, <1>9, <2>1, Holds DEF ApplyNext
    <3>2. l'[p] \in Local
      BY <1>0, <2>0, <3>1 DEF Local
    <3>3. /\ l'[p].pc = "capture" /\ l'[p].task = "rebuild" /\ l'[p].todo \subseteq Batches
          /\ l'[p].cohort \in Cohort
      BY <1>0, <2>0, <3>1 DEF Local
    <3>4. NeedsOf(l'[p]) /\ RebuildAt(l'[p])
      BY <3>3 DEF NeedsOf, RebuildAt, Calling, Applying, Aggregating, Capturing, Clearing
    <3>5. l' \in [Procs -> Local] /\ PlaceInv'
      BY <1>0, <3>1, <3>2, <3>4, Rebuilds, Moves
    <3>. QED
      BY <1>9, <3>5 DEF ApplyNext, TypeInv, SnapshotTypeOK
  <2>2. CASE l[p].todo # {}
    <3>1. PICK b \in l[p].todo :
             l' = [l EXCEPT ![p].pc = "find", ![p].batch = b, ![p].then = "apply",
                            ![p].todo = @ \ {b}]
      BY <1>9, <2>2 DEF ApplyNext
    <3>2. l' = [l EXCEPT ![p] = l'[p]]
          /\ l'[p] = [l[p] EXCEPT !.pc = "find", !.batch = b, !.then = "apply",
                                  !.todo = l[p].todo \ {b}]
      BY <1>0, <3>1, Holds
    <3>3. l'[p] \in Local
      BY ZenonT(60), <1>0, <2>0, <3>2 DEF Local
    <3>4. /\ l'[p].pc = "find" /\ l'[p].task = "rebuild" /\ l'[p].todo \subseteq Batches
          /\ l'[p].cohort \in Cohort /\ l'[p].batch \in Batches /\ l'[p].then = "apply"
      BY <1>0, <2>0, <3>2 DEF Local
    <3>5. NeedsOf(l'[p]) /\ RebuildAt(l'[p])
      BY <3>4 DEF NeedsOf, RebuildAt, Calling, Applying, Aggregating, Capturing, Clearing
    <3>6. l' \in [Procs -> Local] /\ PlaceInv'
      BY <1>0, <3>2, <3>3, <3>5, Rebuilds, Moves
    <3>. QED
      BY <1>9, <3>6 DEF ApplyNext, TypeInv, SnapshotTypeOK
  <2>. QED
    BY <2>1, <2>2
<1>10. ASSUME CaptureNext(p) PROVE TypeInv'
  <2>0. /\ l[p].pc = "capture" /\ l[p].task = "rebuild" /\ l[p].todo \subseteq Batches
        /\ l[p].cohort \in Cohort
        /\ "capture" \in Places /\ "outstanding" \in Places
    BY <1>0, <1>10, <1>r, Holds DEF CaptureNext, At, NeedsOf, RebuildAt, Calling, Applying,
       Aggregating, Capturing, Clearing, Places
  <2>1. CASE l[p].todo = {}
    <3>1. l' \in [Procs -> Local] /\ PlaceInv'
      BY <1>0, <1>10, <2>0, <2>1, GoesOn DEF CaptureNext, At, Places
    <3>. QED
      BY <1>10, <3>1 DEF CaptureNext, TypeInv, SnapshotTypeOK
  <2>2. CASE l[p].todo # {}
    <3>1. PICK b \in l[p].todo :
             l' = [l EXCEPT ![p].pc = IF snaps[b] = NoSnap THEN @ ELSE "outstanding",
                            ![p].batch = b, ![p].snap = snaps[b],
                            ![p].then = "capture", ![p].todo = @ \ {b}]
      BY <1>10, <2>2 DEF CaptureNext
    <3>. DEFINE to == IF snaps[b] = NoSnap THEN "capture" ELSE "outstanding"
                row == snaps[b]
    <3>0. row \in Row \cup {NoSnap} /\ to \in Places /\ b \in Batches
          /\ (to = "outstanding" => row \in Row) /\ to \in {"capture", "outstanding"}
      <4>1. b \in Batches
        BY <2>0
      <4>2. row \in Row \cup {NoSnap}
        BY <1>0, <4>1 DEF SnapshotTypeOK
      <4>. QED
        BY <2>0, <4>1, <4>2
    <3>2. l' = [l EXCEPT ![p] = l'[p]]
          /\ l'[p] = [l[p] EXCEPT !.pc = to, !.batch = b, !.snap = row,
                                  !.then = "capture", !.todo = l[p].todo \ {b}]
      BY <1>0, <2>0, <3>1, Holds
    <3>. HIDE DEF to, row
    <3>3. l'[p] \in Local
      <4>1. l[p].todo \ {b} \in SUBSET (Runs \cup Batches \cup Item)
        BY <2>0
      <4>. QED
        BY <1>0, <2>0, <3>0, <3>2, <4>1 DEF Local
    <3>4. /\ l'[p].pc = to /\ l'[p].task = "rebuild" /\ l'[p].todo \subseteq Batches
          /\ l'[p].cohort \in Cohort /\ l'[p].batch \in Batches /\ l'[p].then = "capture"
          /\ l'[p].snap = row
      BY <1>0, <2>0, <3>0, <3>2 DEF Local
    <3>5. NeedsOf(l'[p]) /\ RebuildAt(l'[p])
      BY <3>0, <3>4 DEF NeedsOf, RebuildAt, Calling, Applying, Aggregating, Capturing, Clearing
    <3>6. l' \in [Procs -> Local] /\ PlaceInv'
      BY <1>0, <3>2, <3>3, <3>5, Rebuilds, Moves
    <3>. QED
      BY <1>10, <3>6 DEF CaptureNext, TypeInv, SnapshotTypeOK
  <2>. QED
    BY <2>1, <2>2
<1>11. ASSUME EndRebuild(p) PROVE TypeInv'
  <2>1. l' \in [Procs -> Local] /\ PlaceInv'
    BY <1>0, <1>11, Finishes DEF EndRebuild
  <2>2. cohort' \in Cohort
    BY <1>0, <1>11, <1>u DEF EndRebuild, At, NeedsOf
  <2>. QED
    BY <1>11, <2>1, <2>2 DEF EndRebuild, TypeInv, SnapshotTypeOK
<1>. QED
  BY <1>1, <1>2, <1>3, <1>4, <1>5, <1>6, <1>7, <1>8, <1>9, <1>10, <1>11 DEF RebuildStep

LEMMA TypeRepair == ASSUME TypeInv, RepairStep PROVE TypeInv'
<1>. USE DEF jobs, rows, scene
<1>0. /\ Repair \in Procs /\ l[Repair] \in Local /\ Placed(Repair, l[Repair])
      /\ NeedsOf(l[Repair]) /\ RepairAt(l[Repair]) /\ SnapshotTypeOK
      /\ cohort \in Cohort /\ cohort.stamp \in Nat /\ cohort.enabled \in BOOLEAN
  BY WhoIsWho, Holds DEF Placed, TypeInv, SnapshotTypeOK, Cohort
<1>1. ASSUME BeginRepair PROVE TypeInv'
  <2>. DEFINE todo == {r \in Runs : run[r] # "none" /\ fin[r] > cohort.stamp}
              catchup == [Idle EXCEPT !.pc = "catchup", !.task = "catchup", !.cohort = cohort,
                                      !.then = "caught", !.latest = cohort.stamp, !.todo = todo]
              rebuild == [Idle EXCEPT !.pc = "lookup", !.task = "rebuild"]
  <2>1. l' = [l EXCEPT ![Repair] = l'[Repair]]
        /\ (l'[Repair] = catchup \/ l'[Repair] = rebuild)
    BY <1>0, <1>1, Holds DEF BeginRepair
  <2>2. todo \subseteq Runs /\ "catchup" \in Places /\ "caught" \in Places /\ "lookup" \in Places
    BY DEF Places
  <2>. HIDE DEF todo
  <2>3. catchup \in Local /\ rebuild \in Local
    <3>1. catchup \in Local
      BY <1>0, <2>2, IdlePlaced DEF Local
    <3>2. rebuild \in Local
      BY <2>2, IdlePlaced DEF Local
    <3>. QED
      BY <3>1, <3>2
  <2>4. /\ catchup.pc = "catchup" /\ catchup.task = "catchup" /\ catchup.then = "caught"
        /\ catchup.cohort \in Cohort /\ catchup.todo \subseteq Runs
        /\ rebuild.pc = "lookup" /\ rebuild.task = "rebuild"
    BY <1>0, <2>2 DEF Idle
  <2>. HIDE DEF catchup, rebuild
  <2>5. Placed(Repair, l'[Repair])
    BY <2>1, <2>4, WhoIsWho DEF Placed, NeedsOf, RepairAt, RebuildAt, Applying, Aggregating,
       Capturing, Calling, Clearing
  <2>6. l' \in [Procs -> Local] /\ PlaceInv'
    BY <1>0, <2>1, <2>3, <2>5, Moves
  <2>. QED
    BY <1>1, <2>6 DEF BeginRepair, TypeInv, SnapshotTypeOK
<1>2. ASSUME NEW r \in Runs, CatchUpRun(r) PROVE TypeInv'
  <2>1. /\ l[Repair].pc = "catchup" /\ l[Repair].task = "catchup" /\ l[Repair].then = "caught"
        /\ l[Repair].cohort \in Cohort /\ l[Repair].todo \subseteq Runs
        /\ BatchOf[r] \in Batches /\ "find" \in Places
    BY <1>0, <1>2, SnapshotAssumption DEF CatchUpRun, At, RepairAt, RebuildAt, Calling, Applying,
       Aggregating, Capturing, Clearing, Places
  <2>2. /\ l' = [l EXCEPT ![Repair] = l'[Repair]]
        /\ \/ l'[Repair] = [l[Repair] EXCEPT !.pc = "find", !.run = r, !.batch = BatchOf[r],
                                             !.todo = l[Repair].todo \ {r}]
           \/ l'[Repair] = [l[Repair] EXCEPT !.todo = l[Repair].todo \ {r}]
    BY <1>0, <1>2, Holds DEF CatchUpRun
  <2>3. l'[Repair] \in Local
    <3>1. l[Repair].todo \ {r} \in SUBSET (Runs \cup Batches \cup Item)
      BY <2>1
    <3>. QED
      BY ZenonT(60), <1>0, <2>1, <2>2, <3>1 DEF Local
  <2>4. /\ l'[Repair].task = "catchup" /\ l'[Repair].then = "caught"
        /\ l'[Repair].cohort \in Cohort /\ l'[Repair].todo \subseteq Runs
        /\ \/ l'[Repair].pc = "catchup"
           \/ l'[Repair].pc = "find" /\ l'[Repair].run = r /\ l'[Repair].batch = BatchOf[r]
    BY <1>0, <2>1, <2>2 DEF Local
  <2>5. Placed(Repair, l'[Repair])
    BY <2>1, <2>4, WhoIsWho DEF Placed, NeedsOf, RepairAt, RebuildAt, Applying, Aggregating,
       Capturing, Calling, Clearing
  <2>6. l' \in [Procs -> Local] /\ PlaceInv'
    BY <1>0, <2>2, <2>3, <2>5, Moves
  <2>. QED
    BY <1>2, <2>6 DEF CatchUpRun, WriteFacts, TypeInv, SnapshotTypeOK
<1>3. ASSUME CaughtUp PROVE TypeInv'
  <2>. DEFINE latest == IF fin[l[Repair].run] > l[Repair].latest THEN fin[l[Repair].run]
                        ELSE l[Repair].latest
              done == l[Repair].done \cup {l[Repair].batch}
  <2>1. /\ l[Repair].pc = "caught" /\ l[Repair].task = "catchup" /\ l[Repair].then = "caught"
        /\ l[Repair].cohort \in Cohort /\ l[Repair].todo \subseteq Runs
        /\ l[Repair].run \in Runs /\ l[Repair].batch = BatchOf[l[Repair].run]
        /\ "catchup" \in Places
    BY <1>0, <1>3 DEF CaughtUp, At, RepairAt, RebuildAt, Calling, Applying,
       Aggregating, Capturing, Clearing, Places
  <2>2. l' = [l EXCEPT ![Repair] = l'[Repair]]
        /\ l'[Repair] = [l[Repair] EXCEPT !.pc = "catchup", !.latest = latest, !.done = done]
    BY <1>0, <1>3, Holds DEF CaughtUp
  <2>3. latest \in Nat /\ done \in SUBSET Batches
    BY <1>0, <2>1, Holds, SnapshotAssumption DEF SnapshotTypeOK
  <2>. HIDE DEF latest, done
  <2>4. l'[Repair] \in Local
    BY <1>0, <2>1, <2>2, <2>3 DEF Local
  <2>5. /\ l'[Repair].task = "catchup" /\ l'[Repair].then = "caught" /\ l'[Repair].pc = "catchup"
        /\ l'[Repair].cohort \in Cohort /\ l'[Repair].todo \subseteq Runs
    BY <1>0, <2>1, <2>2 DEF Local
  <2>6. Placed(Repair, l'[Repair])
    BY <2>1, <2>5, WhoIsWho DEF Placed, NeedsOf, RepairAt, RebuildAt, Applying, Aggregating,
       Capturing, Calling, Clearing
  <2>7. l' \in [Procs -> Local] /\ PlaceInv'
    BY <1>0, <2>2, <2>4, <2>6, Moves
  <2>. QED
    BY <1>3, <2>7 DEF CaughtUp, TypeInv, SnapshotTypeOK
<1>4. ASSUME EndCatchUp PROVE TypeInv'
  <2>1. l' \in [Procs -> Local] /\ PlaceInv'
    BY <1>0, <1>4, Finishes DEF EndCatchUp
  <2>2. l[Repair].cohort \in Cohort /\ l[Repair].latest \in Nat
    BY <1>0, <1>4, Holds DEF EndCatchUp, At, NeedsOf
  <2>3. cohort' \in Cohort
    BY <1>0, <1>4, <2>2 DEF EndCatchUp, UpsertCohort, Cohort
  <2>. QED
    BY <1>4, <2>1, <2>3 DEF EndCatchUp, TypeInv, SnapshotTypeOK
<1>. QED
  BY <1>1, <1>2, <1>3, <1>4 DEF RepairStep

\* What a request of the administrator begins with.
LEMMA Begins ==
    ASSUME TypeInv, NEW v \in Local, NeedsOf(v), AdminAt(v),
           l' = [l EXCEPT ![Admin] = v]
    PROVE  l' \in [Procs -> Local] /\ PlaceInv'
<1>1. Admin \in Procs /\ l' = [l EXCEPT ![Admin] = l'[Admin]] /\ l'[Admin] = v
  BY WhoIsWho, Holds
<1>2. Placed(Admin, v)
  BY WhoIsWho DEF Placed
<1>. QED
  BY <1>1, <1>2, Moves

LEMMA DisturbType ==
    ASSUME SnapshotTypeOK, NEW d, Disturb(d)
    PROVE  pool' \subseteq Workers /\ left' \subseteq Disturbances /\ used' \subseteq Disturbances
  BY DEF SnapshotTypeOK, Disturb

LEMMA TypeAdmin == ASSUME TypeInv, AdminStep PROVE TypeInv'
<1>. USE DEF jobs, rows
<1>0. /\ Admin \in Procs /\ l[Admin] \in Local /\ Placed(Admin, l[Admin])
      /\ NeedsOf(l[Admin]) /\ AdminAt(l[Admin]) /\ SnapshotTypeOK /\ cohort \in Cohort
  BY WhoIsWho, Holds DEF Placed, TypeInv, SnapshotTypeOK
<1>p. {"idle", "lookup", "patch", "overview", "rewrite", "purge"} \subseteq Places
  BY DEF Places
<1>1. ASSUME NEW t \in {"rebuild", "clear"}, Disturb(t), UNCHANGED <<jobs, rows>>,
             l' = [l EXCEPT ![Admin] = [Idle EXCEPT !.pc = "lookup", !.task = t]]
      PROVE  TypeInv'
  <2>. DEFINE v == [Idle EXCEPT !.pc = "lookup", !.task = t]
  <2>1. v \in Local
    BY <1>1, <1>p, IdlePlaced DEF Local
  <2>2. v.pc = "lookup" /\ v.task = t
    BY DEF Idle
  <2>. HIDE DEF v
  <2>3. NeedsOf(v) /\ AdminAt(v)
    BY <1>1, <2>2 DEF NeedsOf, AdminAt, RebuildAt, Applying, Aggregating, Capturing, Calling, Clearing
  <2>4. l' \in [Procs -> Local] /\ PlaceInv'
    BY <1>1, <2>1, <2>3, Begins DEF v
  <2>. QED
    BY <1>0, <1>1, <2>4, DisturbType DEF TypeInv, SnapshotTypeOK
<1>2. ASSUME NEW d, NEW on \in BOOLEAN, RequestEnabled(d, on) PROVE TypeInv'
  <2>. DEFINE task == IF on THEN "rebuild" ELSE "clear"
              v == [Idle EXCEPT !.pc = "patch", !.cohort = cohort, !.task = task]
  <2>1. task \in {"rebuild", "clear"}
    OBVIOUS
  <2>2. l' = [l EXCEPT ![Admin] = v]
    BY <1>2 DEF RequestEnabled
  <2>. HIDE DEF task
  <2>3. v \in Local
    BY <1>0, <1>p, <2>1, IdlePlaced DEF Local
  <2>4. v.pc = "patch" /\ v.task = task /\ v.cohort = cohort
    BY DEF Idle
  <2>. HIDE DEF v
  <2>5. NeedsOf(v) /\ AdminAt(v)
    BY <1>0, <2>1, <2>4 DEF NeedsOf, AdminAt, RebuildAt, Applying, Aggregating, Capturing, Calling, Clearing
  <2>6. l' \in [Procs -> Local] /\ PlaceInv'
    BY <2>2, <2>3, <2>5, Begins
  <2>. QED
    BY <1>0, <1>2, <2>6, DisturbType DEF RequestEnabled, TypeInv, SnapshotTypeOK
<1>3. ASSUME PatchCohort PROVE TypeInv'
  <2>1. l' \in [Procs -> Local] /\ PlaceInv'
    BY <1>0, <1>3, <1>p, GoesOn DEF PatchCohort, At
  <2>2. cohort' \in Cohort
    BY <1>0, <1>3 DEF PatchCohort, At, NeedsOf, Cohort
  <2>. QED
    BY <1>3, <2>1, <2>2 DEF PatchCohort, TypeInv, SnapshotTypeOK, scene
<1>4. ASSUME NEW b \in Batches, RequestRematerialize(b) PROVE TypeInv'
  <2>. DEFINE row == snaps[b]
              v == [Idle EXCEPT !.pc = "overview", !.after = "rewrite",
                                !.task = "rematerialize", !.batch = b, !.snap = row]
  <2>1. row \in Row
    BY <1>0, <1>4 DEF RequestRematerialize, SnapshotTypeOK
  <2>2. l' = [l EXCEPT ![Admin] = v]
    BY <1>4 DEF RequestRematerialize
  <2>. HIDE DEF row
  <2>3. v \in Local
    BY <1>p, <2>1, IdlePlaced DEF Local
  <2>4. v.pc = "overview" /\ v.task = "rematerialize" /\ v.after = "rewrite" /\ v.batch = b /\ v.snap = row
    BY DEF Idle
  <2>. HIDE DEF v
  <2>5. NeedsOf(v) /\ AdminAt(v)
    BY <2>1, <2>4 DEF NeedsOf, AdminAt, RebuildAt, Applying, Aggregating, Capturing, Calling, Clearing
  <2>6. l' \in [Procs -> Local] /\ PlaceInv'
    BY <2>2, <2>3, <2>5, Begins
  <2>. QED
    BY <1>0, <1>4, <2>6, DisturbType DEF RequestRematerialize, TypeInv, SnapshotTypeOK
<1>5. ASSUME NEW b \in Batches, RequestRetire(b) PROVE TypeInv'
  <2>. DEFINE row == [snaps[b] EXCEPT !.status = "retired"]
              v == [Idle EXCEPT !.pc = "rewrite", !.task = "retire", !.batch = b, !.snap = row]
  <2>1. row \in Row
    <3>1. snaps[b] \in Row
      BY <1>0, <1>5 DEF RequestRetire, SnapshotTypeOK
    <3>. QED
      BY <3>1 DEF Row
  <2>2. l' = [l EXCEPT ![Admin] = v]
    BY <1>5 DEF RequestRetire
  <2>. HIDE DEF row
  <2>3. v \in Local
    BY <1>p, <2>1, IdlePlaced DEF Local
  <2>4. v.pc = "rewrite" /\ v.task = "retire" /\ v.batch = b /\ v.snap = row
    BY DEF Idle
  <2>. HIDE DEF v
  <2>5. NeedsOf(v) /\ AdminAt(v)
    BY <2>1, <2>4 DEF NeedsOf, AdminAt, RebuildAt, Applying, Aggregating, Capturing, Calling, Clearing
  <2>6. l' \in [Procs -> Local] /\ PlaceInv'
    BY <2>2, <2>3, <2>5, Begins
  <2>. QED
    BY <1>0, <1>5, <2>6, DisturbType DEF RequestRetire, TypeInv, SnapshotTypeOK
<1>6. ASSUME NEW b \in Batches, RequestIntent(b) PROVE TypeInv'
  <2>1. wanted' \in [Batches -> BOOLEAN]
    BY <1>0, <1>6 DEF RequestIntent, SnapshotTypeOK
  <2>. QED
    BY <1>0, <1>6, <2>1, DisturbType DEF RequestIntent, TypeInv, SnapshotTypeOK, PlaceInv
<1>7. ASSUME RewriteRow PROVE TypeInv'
  <2>1. l[Admin].batch \in Batches /\ l[Admin].snap \in Row
    BY <1>0, <1>7 DEF RewriteRow, At, NeedsOf
  <2>2. snaps' \in [Batches -> Row \cup {NoSnap}] /\ nextId' \in Nat
    BY <1>0, <1>7, <2>1, UpsertType DEF RewriteRow
  <2>3. l' \in [Procs -> Local] /\ PlaceInv'
    BY <1>0, <1>7, Finishes DEF RewriteRow
  <2>. QED
    BY <1>7, <2>2, <2>3 DEF RewriteRow, TypeInv, SnapshotTypeOK, scene
<1>8. ASSUME NEW b \in Batches, RequestPurge(b) PROVE TypeInv'
  <2>. DEFINE row == snaps[b]
              v == [Idle EXCEPT !.pc = "purge", !.task = "purge", !.batch = b, !.snap = row]
  <2>1. row \in Row
    BY <1>0, <1>8 DEF RequestPurge, SnapshotTypeOK
  <2>2. l' = [l EXCEPT ![Admin] = v]
    BY <1>8 DEF RequestPurge
  <2>. HIDE DEF row
  <2>3. v \in Local
    BY <1>p, <2>1, IdlePlaced DEF Local
  <2>4. v.pc = "purge" /\ v.task = "purge" /\ v.batch = b /\ v.snap = row
    BY DEF Idle
  <2>. HIDE DEF v
  <2>5. NeedsOf(v) /\ AdminAt(v)
    BY <2>1, <2>4 DEF NeedsOf, AdminAt, RebuildAt, Applying, Aggregating, Capturing, Calling, Clearing
  <2>6. l' \in [Procs -> Local] /\ PlaceInv'
    BY <2>2, <2>3, <2>5, Begins
  <2>. QED
    BY <1>0, <1>8, <2>6, DisturbType DEF RequestPurge, TypeInv, SnapshotTypeOK
<1>9. ASSUME PurgeRow PROVE TypeInv'
  <2>1. snaps' \in [Batches -> Row \cup {NoSnap}]
    BY <1>0, <1>9 DEF PurgeRow, SnapshotTypeOK
  <2>2. /\ \A id \in DOMAIN overview' : overview'[id] \subseteq Runs
        /\ \A id \in DOMAIN views' : views'[id] \subseteq Runs
    BY <1>0, <1>9 DEF PurgeRow, Without, SnapshotTypeOK
  <2>3. l' \in [Procs -> Local] /\ PlaceInv'
    BY <1>0, <1>9, Finishes DEF PurgeRow
  <2>. QED
    BY <1>9, <2>1, <2>2, <2>3 DEF PurgeRow, TypeInv, SnapshotTypeOK, scene
<1>. QED
  BY <1>1, <1>2, <1>3, <1>4, <1>5, <1>6, <1>7, <1>8, <1>9 DEF AdminStep, RequestRebuild, RequestClear

\* A store call that fails: what is then marked failed is a row that was read.
LEMMA FaultCopy ==
    ASSUME TypeInv, NEW p \in Procs, StoreFault(p)
    PROVE  l[p].task \in {"rebuild", "catchup"} \/ l[p].pc = "project" => l[p].cohort \in Cohort
<1>. USE DEF Serving, Applying, Aggregating, Capturing, Calling, Clearing
<1>0. Placed(p, l[p]) /\ NeedsOf(l[p])
  BY Holds DEF Placed
<1>1. l[p].pc \in {"project"} \cup Calling
  BY DEF StoreFault
<1>2. CASE p \in Workers
  BY <1>0, <1>1, <1>2 DEF Placed, WorkerAt
<1>3. CASE p = Loop
  BY <1>0, <1>1, <1>3 DEF Placed, LoopAt
<1>4. CASE p = Repair
  BY <1>0, <1>1, <1>4 DEF Placed, RepairAt, RebuildAt
<1>5. CASE p = Admin
  BY <1>0, <1>1, <1>5 DEF Placed, AdminAt, RebuildAt
<1>. QED
  BY <1>2, <1>3, <1>4, <1>5 DEF Procs

LEMMA TypeFault == ASSUME TypeInv, NEW p \in Procs, StoreFault(p) PROVE TypeInv'
<1>. USE DEF jobs
<1>0. l[p] \in Local /\ Placed(p, l[p]) /\ NeedsOf(l[p]) /\ SnapshotTypeOK
  BY Holds DEF Placed, TypeInv
<1>1. l' \in [Procs -> Local] /\ PlaceInv'
  BY Finishes DEF StoreFault
<1>2. l[p].task \in {"rebuild", "catchup"} \/ l[p].pc = "project" => l[p].cohort \in Cohort
  BY FaultCopy
<1>3. cohort' \in Cohort
  <2>1. ASSUME NEW c \in Cohort, NEW s \in Nat PROVE [c EXCEPT !.mat = "failed", !.stamp = s] \in Cohort
    BY DEF Cohort
  <2>2. cohort \in Cohort /\ \A c \in Cohort : c.stamp \in Nat
    BY <1>0 DEF SnapshotTypeOK, Cohort
  <2>3. CASE l[p].task \in {"rebuild", "catchup"} \/ l[p].pc = "project"
    <3>1. PICK s \in Nat : cohort' = [l[p].cohort EXCEPT !.mat = "failed", !.stamp = s]
      BY <1>2, <2>2, <2>3 DEF StoreFault, At
    <3>. QED
      BY <1>2, <2>1, <2>3, <3>1
  <2>4. CASE ~(l[p].task \in {"rebuild", "catchup"} \/ l[p].pc = "project")
    BY <2>2, <2>4 DEF StoreFault, At
  <2>. QED
    BY <2>3, <2>4
<1>. QED
  BY <1>0, <1>1, <1>3, DisturbType DEF StoreFault, TypeInv, SnapshotTypeOK

LEMMA TypeFindFails == ASSUME TypeInv, NEW p \in Procs, FindFails(p) PROVE TypeInv'
<1>. USE DEF jobs, rows
<1>0. l[p] \in Local /\ Placed(p, l[p]) /\ SnapshotTypeOK /\ l[p].pc = "find"
  BY Holds DEF TypeInv, FindFails, At
<1>1. l' = [l EXCEPT ![p] = l'[p]] /\ l'[p] = [l[p] EXCEPT !.pc = "count", !.snap = NoSnap]
  BY Holds DEF FindFails
<1>2. l'[p] \in Local
  <2>1. "count" \in Places
    BY DEF Places
  <2>. QED
    BY <1>0, <1>1, <2>1 DEF Local
<1>3. Placed(p, l'[p])
  <2>1. /\ l[p].pc \in Applying /\ l'[p].pc \in Applying /\ l'[p].task = l[p].task /\ l'[p].run = l[p].run
        /\ l'[p].batch = l[p].batch /\ l'[p].cohort = l[p].cohort /\ l'[p].todo = l[p].todo
        /\ l'[p].then = l[p].then /\ l'[p].after = l[p].after
        /\ l'[p].pc = "upsert" \/ l'[p].pc \in Aggregating => l'[p].snap \in Row
    BY <1>0, <1>1 DEF Local, Applying, Aggregating
  <2>. QED
    BY <1>0, <2>1, SameCall
<1>4. l' \in [Procs -> Local] /\ PlaceInv'
  BY <1>1, <1>2, <1>3, Moves
<1>. QED
  BY <1>0, <1>4, DisturbType DEF FindFails, TypeInv, SnapshotTypeOK

LEMMA TypeGraduateFails == ASSUME TypeInv, NEW w \in Workers, GraduateFails(w) PROVE TypeInv'
<1>. USE DEF rows
<1>0. SnapshotTypeOK /\ w \in Procs
  BY WhoIsWho DEF TypeInv
<1>1. l' \in [Procs -> Local] /\ PlaceInv'
  BY <1>0, Finishes DEF GraduateFails
<1>2. job' \in [Runs -> {"none", "open", "running", "parked", "done"}]
  BY <1>0 DEF GraduateFails, SnapshotTypeOK
<1>. QED
  BY <1>0, <1>1, <1>2, DisturbType DEF GraduateFails, TypeInv, SnapshotTypeOK

LEMMA TypeCrash == ASSUME TypeInv, Crash PROVE TypeInv'
<1>. USE DEF rows
<1>1. [Idle EXCEPT !.pc = "boot"] \in Local /\ Placed(Repair, [Idle EXCEPT !.pc = "boot"])
  <2>1. [Idle EXCEPT !.pc = "boot"] \in Local
    <3>1. "boot" \in Places
      BY DEF Places
    <3>. QED
      BY <3>1, IdlePlaced DEF Local
  <2>. QED
    BY <2>1, WhoIsWho DEF Idle, Placed, NeedsOf, RepairAt, Applying, Aggregating, Capturing,
       Calling, Clearing
<1>2. l' \in [Procs -> Local] /\ \A p \in Procs : Placed(p, l'[p])
  BY <1>1, IdlePlaced DEF Crash
<1>3. PlaceInv'
  BY <1>2 DEF PlaceInv, Placed, NeedsOf, WorkerAt, LoopAt, RepairAt, AdminAt, RebuildAt
<1>4. SnapshotTypeOK
  BY DEF TypeInv
<1>5. sub' \in [Batches -> {"jobs", "cut", "done"}]
  BY <1>4 DEF Crash, SnapshotTypeOK
<1>. QED
  BY <1>2, <1>3, <1>4, <1>5, DisturbType DEF Crash, TypeInv, SnapshotTypeOK

\* The steps of every process, and the step that changes nothing.
LEMMA TypeStep == TypeInv /\ [Next]_vars => TypeInv'
<1>. SUFFICES ASSUME TypeInv, [Next]_vars PROVE TypeInv'
  OBVIOUS
<1>1. CASE UNCHANGED vars
  BY <1>1 DEF vars, jobs, rows, scene, TypeInv, SnapshotTypeOK, PlaceInv
<1>. QED
  BY <1>1, TypeSubmit, TypeWorker, TypeApply, TypeMaterialize, TypeCapture, TypeLoop, TypeRebuild,
     TypeRepair, TypeAdmin, TypeFault, TypeFindFails, TypeGraduateFails, TypeCrash DEF Next

\* The ids of the rows there are at the start.
LEMMA InitRows ==
    ASSUME NEW s \in Scenarios, InitScene(s)
    PROVE  /\ nextId \in Nat /\ nextId > 0
           /\ snaps \in [Batches -> Row \cup {NoSnap}]
           /\ \A b \in Batches : snaps[b] # NoSnap =>
                 /\ snaps[b].id < nextId /\ snaps[b].status = "pending"
                 /\ s.enabled /\ s.warm \cap RunsOf(b) # {}
           /\ \A b, c \in Batches : snaps[b] # NoSnap /\ snaps[c] # NoSnap
                                    /\ snaps[b].id = snaps[c].id => b = c
<1>. DEFINE projected == IF s.enabled THEN s.warm ELSE {}
            counted == {b \in Batches : projected \cap RunsOf(b) # {}}
<1>1. Cardinality(counted) \in Nat
  BY SnapshotAssumption, FS_Subset, FS_CardinalityType
<1>2. PICK ids \in Bijection(counted, 1 .. Cardinality(counted)) :
         snaps = [b \in Batches |-> IF b \notin counted THEN NoSnap
                                    ELSE [id |-> ids[b], status |-> "pending",
                                          runs |-> RunsOf(b) \cap projected]]
  BY DEF InitScene
<1>3. /\ ids \in [counted -> 1 .. Cardinality(counted)]
      /\ \A b, c \in counted : ids[b] = ids[c] => b = c
  BY <1>2 DEF Bijection, Injection, IsInjective
<1>4. nextId = Cardinality(counted) + 1
  BY DEF InitScene
<1>5. \A b \in counted : b \in Batches /\ s.enabled /\ s.warm \cap RunsOf(b) # {}
  OBVIOUS
<1>. HIDE DEF counted, projected
<1>6. NoSnap \notin Row
  BY SnapshotAssumption
<1>7. \A b \in Batches : RunsOf(b) \subseteq Runs
  BY DEF RunsOf
<1>8. \A b \in Batches : b \in counted =>
        /\ snaps[b] \in Row /\ snaps[b].id = ids[b] /\ snaps[b].status = "pending"
  BY <1>1, <1>2, <1>3, <1>7 DEF Row
<1>9. \A b \in Batches : b \notin counted => snaps[b] = NoSnap
  BY <1>2
<1>10. snaps \in [Batches -> Row \cup {NoSnap}]
  BY <1>2, <1>8, <1>9
<1>. QED
  BY <1>1, <1>3, <1>4, <1>5, <1>6, <1>8, <1>9, <1>10

LEMMA TypeInit == Init => TypeInv
<1>. SUFFICES ASSUME Init PROVE TypeInv
  OBVIOUS
<1>1. PICK s \in Scenarios : InitScene(s)
  BY DEF Init
<1>2. /\ s.pool \subseteq Workers /\ s.enabled \in BOOLEAN /\ s.warm \subseteq Runs
      /\ s.what \subseteq Disturbances
  BY SnapshotAssumption
<1>3. l \in [Procs -> Local] /\ PlaceInv
  BY IdlePlaced DEF Init, PlaceInv
<1>4. cohort \in Cohort
  BY <1>1, <1>2 DEF InitScene, Cohort
<1>5. /\ sub \in [Batches -> {"jobs", "cut", "done"}]
      /\ job \in [Runs -> {"none", "open", "running", "parked", "done"}]
      /\ run \in [Runs -> {"none", "succeeded", "failed"}]
      /\ fin \in [Runs -> Nat] /\ clock \in Nat
  BY <1>1, <1>2 DEF InitScene
<1>6. state \subseteq Runs /\ facts \subseteq Runs /\ seen \subseteq Runs
      /\ pool \subseteq Workers /\ left \subseteq Disturbances
  BY <1>1, <1>2 DEF InitScene
<1>7. wanted \in [Batches -> BOOLEAN] /\ used \subseteq Disturbances
      /\ overview = <<>> /\ views = <<>>
  BY DEF Init
<1>8. snaps \in [Batches -> Row \cup {NoSnap}] /\ nextId \in Nat
  BY <1>1, InitRows
<1>. QED
  BY <1>3, <1>4, <1>5, <1>6, <1>7, <1>8 DEF TypeInv, SnapshotTypeOK

\* Every process is where it has what it needs, and every row is well formed.
THEOREM SnapshotTypeCorrect == Spec => []SnapshotTypeOK
<1>1. TypeInv => SnapshotTypeOK
  BY DEF TypeInv
<1>. QED
  BY <1>1, TypeInit, TypeStep, PTL DEF Spec

-----------------------------------------------------------------------------
(* What happened so far.                                                   *)

LEMMA SmallSets ==
    /\ \A x, y : IsFiniteSet({x, y}) /\ (x # y => Cardinality({x, y}) = 2)
    /\ \A x, y, z : IsFiniteSet({x, y, z})
<1>1. ASSUME NEW x, NEW y PROVE IsFiniteSet({x, y}) /\ (x # y => Cardinality({x, y}) = 2)
  <2>1. IsFiniteSet({x}) /\ Cardinality({x}) = 1 /\ (x # y => y \notin {x})
    BY FS_Singleton
  <2>2. IsFiniteSet({x} \cup {y})
        /\ Cardinality({x} \cup {y}) = IF y \in {x} THEN Cardinality({x}) ELSE Cardinality({x}) + 1
    BY <2>1, FS_AddElement
  <2>3. {x} \cup {y} = {x, y}
    OBVIOUS
  <2>. QED
    BY <2>1, <2>2, <2>3
<1>2. ASSUME NEW x, NEW y, NEW z PROVE IsFiniteSet({x, y, z})
  <2>1. IsFiniteSet({x, y} \cup {z})
    BY <1>1, FS_AddElement
  <2>2. {x, y} \cup {z} = {x, y, z}
    OBVIOUS
  <2>. QED
    BY <2>1, <2>2
<1>. QED
  BY <1>1, <1>2

LEMMA DisturbancesFinite == \A S \in SUBSET Disturbances : IsFiniteSet(S) /\ Cardinality(S) \in Nat
<1>1. IsFiniteSet({"crash", "fault", "rebuild"}) /\ IsFiniteSet({"clear", "disable", "enable"})
      /\ IsFiniteSet({"rematerialize", "retire", "purge"}) /\ IsFiniteSet({"intent", "intent"})
  BY SmallSets
<1>4. IsFiniteSet({"crash", "fault", "rebuild"} \cup {"clear", "disable", "enable"})
  BY <1>1, FS_Union
<1>5. IsFiniteSet({"rematerialize", "retire", "purge"} \cup {"intent", "intent"})
  BY <1>1, FS_Union
<1>7. IsFiniteSet(({"crash", "fault", "rebuild"} \cup {"clear", "disable", "enable"})
                    \cup ({"rematerialize", "retire", "purge"} \cup {"intent", "intent"}))
  BY <1>4, <1>5, FS_Union
<1>6. IsFiniteSet(Disturbances)
  <2>1. Disturbances = ({"crash", "fault", "rebuild"} \cup {"clear", "disable", "enable"})
                         \cup ({"rematerialize", "retire", "purge"} \cup {"intent", "intent"})
    BY DEF Disturbances
  <2>. QED
    BY <1>7, <2>1
<1>. QED
  BY <1>6, FS_Subset, FS_CardinalityType

\* At most one disturbance means one at most.
LEMMA OnlyOne ==
    ASSUME TypeInv, NEW ds, Untouched(ds), NEW d \in used, NEW e \in used
    PROVE  d = e
<1>. SUFFICES ASSUME d # e PROVE FALSE
  OBVIOUS
<1>1. IsFiniteSet(used) /\ Cardinality(used) \in Nat /\ Cardinality(used) <= 1
  BY DisturbancesFinite DEF TypeInv, SnapshotTypeOK, Untouched
<1>3. Cardinality({d, e}) = 2
  BY SmallSets
<1>4. {d, e} \in SUBSET used
  OBVIOUS
<1>5. Cardinality({d, e}) <= Cardinality(used)
  BY <1>1, <1>4, FS_Subset
<1>. QED
  BY <1>1, <1>3, <1>5

\* What is untouched was untouched before.
LEMMA StillUntouched ==
    ASSUME TypeInv, TypeInv', used \subseteq used', NEW ds, Untouched(ds)'
    PROVE  Untouched(ds)
<1>1. IsFiniteSet(used') /\ Cardinality(used') \in Nat /\ Cardinality(used') <= 1
      /\ Cardinality(used) \in Nat
  BY DisturbancesFinite DEF TypeInv, SnapshotTypeOK, Untouched
<1>2. Cardinality(used) <= Cardinality(used')
  BY <1>1, FS_Subset
<1>. QED
  BY <1>1, <1>2 DEF Untouched

\* A second disturbance ends Kept and Mild.
LEMMA FirstOne ==
    ASSUME TypeInv', NEW d, Disturb(d), NEW ds, Untouched(ds)'
    PROVE  used \subseteq {d} /\ used' = {d} /\ d \notin ds
<1>1. \A e \in used : e = d
  <2>. SUFFICES ASSUME NEW e \in used, e # d PROVE FALSE
    OBVIOUS
  <2>1. IsFiniteSet(used') /\ Cardinality(used') \in Nat /\ Cardinality(used') <= 1
    BY DisturbancesFinite DEF TypeInv, SnapshotTypeOK, Untouched
  <2>2. Cardinality({d, e}) = 2
    BY SmallSets
  <2>3. {d, e} \in SUBSET used'
    BY DEF Disturb
  <2>. QED
    BY <2>1, <2>2, <2>3, FS_Subset
<1>. QED
  BY <1>1 DEF Disturb, Untouched

-----------------------------------------------------------------------------
(* The steps inside applySnapshotState, materializeSnapshot and            *)
(* captureSnapshot, and those that only go from one such call to the next: *)
(* they touch neither jobs nor facts nor the catalogue row.                *)

Between == {"apply", "capture", "caught"}

Inner(p) ==
    /\ UNCHANGED <<jobs, state, facts, seen, cohort>> /\ used \subseteq used'
    /\ l' = [l EXCEPT ![p] = l'[p]]
    /\ l[p].pc \in Calling \cup Between
    /\ l'[p].pc \in Calling \cup Between \cup {"catchup", "rebuilt", "stamp", "next", "rewrite"}
    /\ l'[p].cohort = l[p].cohort /\ l'[p].task = l[p].task /\ l'[p].run = l[p].run
    /\ p = Repair /\ l[p].task = "catchup" => l'[p].todo = l[p].todo

LEMMA ReturnsTo ==
    ASSUME TypeInv, NEW p \in Procs, l[p].pc \in Applying \cup Capturing
    PROVE  l[p].then \in Between \cup {"stamp", "next"}
<1>. USE DEF Serving, Applying, Aggregating, Capturing, Calling, Clearing, Between
<1>0. Placed(p, l[p])
  BY Holds
<1>1. CASE p \in Workers
  BY <1>0, <1>1 DEF Placed, WorkerAt
<1>2. CASE p = Loop
  BY <1>0, <1>2 DEF Placed, LoopAt
<1>3. CASE p = Repair
  BY <1>0, <1>3 DEF Placed, RepairAt, RebuildAt
<1>4. CASE p = Admin
  BY <1>0, <1>4 DEF Placed, AdminAt, RebuildAt
<1>. QED
  BY <1>1, <1>2, <1>3, <1>4 DEF Procs

LEMMA ApplyIsInner ==
    ASSUME TypeInv, NEW p \in Procs, ApplySnapshotState(p) PROVE Inner(p)
<1>. USE DEF jobs, rows, scene
<1>0. l[p] \in Local /\ l \in [Procs -> Local]
  BY Holds
<1>1. ASSUME FindSnapshot(p) PROVE Inner(p)
  <2>1. l' = [l EXCEPT ![p] = l'[p]]
        /\ l'[p] = [l[p] EXCEPT !.pc = "count", !.snap = snaps[l[p].batch]]
    BY <1>0, <1>1 DEF FindSnapshot
  <2>2. l'[p].pc = "count" /\ l'[p].cohort = l[p].cohort /\ l'[p].task = l[p].task
        /\ l'[p].run = l[p].run /\ l'[p].todo = l[p].todo /\ l[p].pc = "find"
    BY <1>0, <1>1, <2>1 DEF FindSnapshot, At, Local
  <2>. QED
    BY <1>1, <2>1, <2>2 DEF FindSnapshot, Inner, Calling, Applying
<1>2. ASSUME CountRuns(p) PROVE Inner(p)
  <2>1. l' = [l EXCEPT ![p] = l'[p]]
        /\ l'[p] = [l[p] EXCEPT !.pc = "upsert",
                      !.snap = [(IF l[p].snap = NoSnap THEN NewSnapshot ELSE l[p].snap)
                                  EXCEPT !.runs = Counted(l[p].batch)]]
    BY <1>0, <1>2 DEF CountRuns
  <2>2. l'[p].pc = "upsert" /\ l'[p].cohort = l[p].cohort /\ l'[p].task = l[p].task
        /\ l'[p].run = l[p].run /\ l'[p].todo = l[p].todo /\ l[p].pc = "count"
    BY <1>0, <1>2, <2>1 DEF CountRuns, At, Local
  <2>. QED
    BY <1>2, <2>1, <2>2 DEF CountRuns, Inner, Calling, Applying
<1>3. ASSUME StoreSnapshot(p) PROVE Inner(p)
  <2>1. /\ l' = [l EXCEPT ![p] = l'[p]]
        /\ \/ l'[p] = [l[p] EXCEPT !.pc = "overview", !.after = "return"]
           \/ l'[p] = [l[p] EXCEPT !.pc = l[p].then, !.snap = NoSnap]
    BY <1>0, <1>3 DEF StoreSnapshot, Return
  <2>2. l'[p].pc \in {"overview", l[p].then} /\ l'[p].cohort = l[p].cohort /\ l'[p].task = l[p].task
        /\ l'[p].run = l[p].run /\ l'[p].todo = l[p].todo /\ l[p].pc = "upsert"
    BY <1>0, <1>3, <2>1 DEF StoreSnapshot, At, Local
  <2>. QED
    BY <1>3, <2>1, <2>2, ReturnsTo DEF StoreSnapshot, Inner, Calling, Applying, Aggregating
<1>. QED
  BY <1>1, <1>2, <1>3 DEF ApplySnapshotState

LEMMA MaterializeIsInner ==
    ASSUME TypeInv, NEW p \in Procs, MaterializeSnapshot(p) PROVE Inner(p)
<1>. USE DEF jobs, rows, scene
<1>0. l[p] \in Local /\ l \in [Procs -> Local]
  BY Holds
<1>1. ASSUME NEW from \in {"overview", "views"}, NEW to \in {"write overview", "write views"},
             Compute(p, from, to)
      PROVE  Inner(p)
  <2>1. l' = [l EXCEPT ![p] = l'[p]]
        /\ l'[p] = [l[p] EXCEPT !.pc = to, !.held = Counted(l[p].batch)]
    BY <1>0, <1>1 DEF Compute
  <2>2. l'[p].pc = to /\ l'[p].cohort = l[p].cohort /\ l'[p].task = l[p].task
        /\ l'[p].run = l[p].run /\ l'[p].todo = l[p].todo /\ l[p].pc = from
    BY <1>0, <1>1, <2>1 DEF Compute, At, Local
  <2>. QED
    BY <1>1, <2>1, <2>2 DEF Compute, Inner, Calling, Aggregating
<1>2. ASSUME ReplaceOverview(p) PROVE Inner(p)
  <2>1. l' = [l EXCEPT ![p] = l'[p]] /\ l'[p] = [l[p] EXCEPT !.pc = "views", !.held = {}]
    BY <1>0, <1>2 DEF ReplaceOverview
  <2>2. l'[p].pc = "views" /\ l'[p].cohort = l[p].cohort /\ l'[p].task = l[p].task
        /\ l'[p].run = l[p].run /\ l'[p].todo = l[p].todo /\ l[p].pc = "write overview"
    BY <1>0, <1>2, <2>1 DEF ReplaceOverview, At, Local
  <2>. QED
    BY <1>2, <2>1, <2>2 DEF ReplaceOverview, Inner, Calling, Aggregating
<1>3. ASSUME ReplaceViews(p) PROVE Inner(p)
  <2>. DEFINE to == IF l[p].after = "return" THEN l[p].then ELSE l[p].after
              row == IF l[p].after = "return" THEN NoSnap ELSE l[p].snap
  <2>1. l' = [l EXCEPT ![p] = l'[p]]
        /\ l'[p] = [l[p] EXCEPT !.held = {}, !.after = "idle", !.pc = to, !.snap = row]
    BY <1>0, <1>3 DEF ReplaceViews
  <2>2. l[p].pc = "write views"
    BY <1>3 DEF ReplaceViews, At
  <2>3. to \in Between \cup {"stamp", "promote", "rewrite"}
    <3>. USE DEF Serving, Applying, Aggregating, Capturing, Calling, Clearing, Between
    <3>0. Placed(p, l[p])
      BY Holds
    <3>1. CASE p \in Workers
      BY <2>2, <3>0, <3>1 DEF Placed, WorkerAt
    <3>2. CASE p = Loop
      BY <2>2, <3>0, <3>2 DEF Placed, LoopAt
    <3>3. CASE p = Repair
      BY <2>2, <3>0, <3>3 DEF Placed, RepairAt, RebuildAt
    <3>4. CASE p = Admin
      BY <2>2, <3>0, <3>4 DEF Placed, AdminAt, RebuildAt
    <3>. QED
      BY <3>1, <3>2, <3>3, <3>4 DEF Procs
  <2>. HIDE DEF to, row
  <2>4. l'[p].pc = to /\ l'[p].cohort = l[p].cohort /\ l'[p].task = l[p].task
        /\ l'[p].run = l[p].run /\ l'[p].todo = l[p].todo
    BY <1>0, <2>1 DEF Local
  <2>. QED
    BY <1>3, <2>1, <2>2, <2>3, <2>4 DEF ReplaceViews, Inner, Calling, Aggregating, Capturing
<1>. QED
  BY <1>1, <1>2, <1>3 DEF MaterializeSnapshot

LEMMA CaptureIsInner ==
    ASSUME TypeInv, NEW p \in Procs, CaptureSnapshot(p) PROVE Inner(p)
<1>. USE DEF jobs, rows, scene
<1>0. l[p] \in Local /\ l \in [Procs -> Local]
  BY Holds
<1>1. ASSUME NEW to \in Calling, Return(p) \/ Goto(p, to), l[p].pc \in Capturing,
             UNCHANGED <<jobs, state, facts, seen, cohort, scene>>
      PROVE  Inner(p)
  <2>1. /\ l' = [l EXCEPT ![p] = l'[p]]
        /\ l'[p] = [l[p] EXCEPT !.pc = l[p].then, !.snap = NoSnap] \/ l'[p] = [l[p] EXCEPT !.pc = to]
    BY <1>0, <1>1 DEF Return, Goto
  <2>2. l'[p].pc \in {to, l[p].then} /\ l'[p].cohort = l[p].cohort /\ l'[p].task = l[p].task
        /\ l'[p].run = l[p].run /\ l'[p].todo = l[p].todo
    BY <1>0, <2>1 DEF Local
  <2>. QED
    BY <1>1, <2>1, <2>2, ReturnsTo DEF Inner, Calling, Capturing
<1>2. ASSUME CheckOutstanding(p) \/ CheckUnprojected(p) \/ PromoteToCaptured(p) PROVE Inner(p)
  BY <1>1, <1>2 DEF CheckOutstanding, CheckUnprojected, Check, PromoteToCaptured, At, Capturing, Calling
<1>3. ASSUME TallyRuns(p) PROVE Inner(p)
  <2>0. l[p].pc = "tally"
    BY <1>3 DEF TallyRuns, At
  <2>1. CASE Return(p)
    BY <1>1, <1>3, <2>0, <2>1 DEF TallyRuns, Capturing, Calling
  <2>2. CASE ~Return(p)
    <3>. DEFINE row == [l[p].snap EXCEPT !.runs = Counted(l[p].batch)]
    <3>1. l' = [l EXCEPT ![p] = l'[p]]
          /\ l'[p] = [l[p] EXCEPT !.pc = "overview", !.after = "promote", !.snap = row]
      BY <1>0, <1>3, <2>2 DEF TallyRuns, Local
    <3>. HIDE DEF row
    <3>2. l'[p].pc = "overview" /\ l'[p].cohort = l[p].cohort /\ l'[p].task = l[p].task
          /\ l'[p].run = l[p].run /\ l'[p].todo = l[p].todo
      BY <1>0, <3>1 DEF Local
    <3>. QED
      BY <1>3, <2>0, <3>1, <3>2 DEF TallyRuns, Inner, Calling, Capturing, Aggregating
  <2>. QED
    BY <2>1, <2>2
<1>. QED
  BY <1>2, <1>3 DEF CaptureSnapshot

LEMMA BetweenIsInner ==
    ASSUME TypeInv, NEW p \in {Admin, Repair},
           \/ ApplyNext(p) \/ CaptureNext(p)
           \/ p = Repair /\ CaughtUp
    PROVE  Inner(p)
<1>. USE DEF jobs, rows, scene
<1>0. l[p] \in Local /\ l \in [Procs -> Local] /\ p \in Procs /\ Placed(p, l[p])
  BY WhoIsWho, Holds
<1>t. l[p].pc \in {"apply", "capture"} => l[p].task = "rebuild"
  BY <1>0 DEF Placed, RepairAt, AdminAt, RebuildAt, Calling, Applying, Aggregating, Capturing, Clearing
<1>1. ASSUME ApplyNext(p) PROVE Inner(p)
  <2>1. /\ l' = [l EXCEPT ![p] = l'[p]]
        /\ \/ l'[p] = [l[p] EXCEPT !.pc = "capture", !.todo = l[p].done]
           \/ \E b \in l[p].todo : l'[p] = [l[p] EXCEPT !.pc = "find", !.batch = b, !.then = "apply",
                                                        !.todo = l[p].todo \ {b}]
    BY <1>0, <1>1 DEF ApplyNext
  <2>2. l'[p].pc \in {"capture", "find"} /\ l'[p].cohort = l[p].cohort /\ l'[p].task = l[p].task
        /\ l'[p].run = l[p].run /\ l[p].pc = "apply"
    BY <1>0, <1>1, <2>1 DEF ApplyNext, At, Local
  <2>. QED
    BY <1>1, <1>t, <2>1, <2>2 DEF ApplyNext, Inner, Calling, Applying, Between
<1>2. ASSUME CaptureNext(p) PROVE Inner(p)
  <2>0. l[p].pc = "capture"
    BY <1>2 DEF CaptureNext, At
  <2>1. /\ l' = [l EXCEPT ![p] = l'[p]]
        /\ \/ l'[p] = [l[p] EXCEPT !.pc = "rebuilt"]
           \/ \E b \in l[p].todo, to \in {"capture", "outstanding"} :
                l'[p] = [l[p] EXCEPT !.pc = to, !.batch = b, !.snap = snaps[b], !.then = "capture",
                                     !.todo = l[p].todo \ {b}]
    <3>1. CASE l[p].todo = {}
      BY <1>0, <1>2, <2>0, <3>1 DEF CaptureNext, Goto
    <3>2. CASE l[p].todo # {}
      <4>1. PICK b \in l[p].todo :
              l' = [l EXCEPT ![p].pc = IF snaps[b] = NoSnap THEN @ ELSE "outstanding",
                             ![p].batch = b, ![p].snap = snaps[b],
                             ![p].then = "capture", ![p].todo = @ \ {b}]
        BY <1>2, <3>2 DEF CaptureNext
      <4>. DEFINE to == IF snaps[b] = NoSnap THEN "capture" ELSE "outstanding"
      <4>2. l' = [l EXCEPT ![p] = l'[p]]
            /\ l'[p] = [l[p] EXCEPT !.pc = to, !.batch = b, !.snap = snaps[b], !.then = "capture",
                                    !.todo = l[p].todo \ {b}]
        BY <1>0, <2>0, <4>1
      <4>3. to \in {"capture", "outstanding"}
        OBVIOUS
      <4>. HIDE DEF to
      <4>. QED
        BY <4>2, <4>3
    <3>. QED
      BY <3>1, <3>2
  <2>2. l'[p].pc \in {"capture", "outstanding", "rebuilt"} /\ l'[p].cohort = l[p].cohort
        /\ l'[p].task = l[p].task /\ l'[p].run = l[p].run
    BY <1>0, <2>1 DEF Local
  <2>. QED
    BY <1>2, <1>t, <2>0, <2>1, <2>2 DEF CaptureNext, Inner, Calling, Capturing, Between
<1>3. ASSUME p = Repair, CaughtUp PROVE Inner(p)
  <2>1. /\ l' = [l EXCEPT ![p] = l'[p]]
        /\ \E n, d : l'[p] = [l[p] EXCEPT !.pc = "catchup", !.latest = n, !.done = d]
    BY <1>0, <1>3 DEF CaughtUp
  <2>2. l'[p].pc = "catchup" /\ l'[p].cohort = l[p].cohort /\ l'[p].task = l[p].task
        /\ l'[p].run = l[p].run /\ l'[p].todo = l[p].todo /\ l[p].pc = "caught"
    BY <1>0, <1>3, <2>1 DEF CaughtUp, At, Local
  <2>. QED
    BY <1>3, <2>1, <2>2 DEF CaughtUp, Inner, Between
<1>. QED
  BY <1>1, <1>2, <1>3

-----------------------------------------------------------------------------
(* Jobs and runs: a run is there when its job is done, once for each job.  *)

LEMMA NoServing ==
    ASSUME TypeInv, NEW p \in {Loop, Admin, Repair}
    PROVE  l[p].pc \notin {"run", "graduate", "load", "project", "stamp"}
<1>. USE DEF Serving, Applying, Aggregating, Capturing, Calling, Clearing
<1>0. Placed(p, l[p])
  BY Holds, WhoIsWho
<1>1. CASE p = Loop
  BY <1>0, <1>1 DEF Placed, LoopAt
<1>2. CASE p = Repair
  BY <1>0, <1>2 DEF Placed, RepairAt, RebuildAt
<1>3. CASE p = Admin
  BY <1>0, <1>3 DEF Placed, AdminAt, RebuildAt
<1>. QED
  BY <1>1, <1>2, <1>3

\* A process that is not about to end a job moves.
LEMMA JobFrame ==
    ASSUME TypeInv, JobInv, NEW p \in Procs, l' = [l EXCEPT ![p] = l'[p]],
           l'[p].pc \notin {"run", "graduate"}, UNCHANGED <<sub, job, run>>
    PROVE  JobInv'
<1>1. \A w \in Workers : w \in Procs /\ (w # p => l'[w] = l[w])
  BY WhoIsWho, Holds
<1>. QED
  BY <1>1 DEF JobInv

LEMMA JobOther ==
    ASSUME TypeInv, TypeInv', JobInv, NEW p \in {Loop, Admin, Repair}, l' = [l EXCEPT ![p] = l'[p]],
           UNCHANGED <<sub, job, run>>
    PROVE  JobInv'
<1>1. p \in Procs /\ Placed(p, l'[p])
  BY WhoIsWho DEF TypeInv, PlaceInv, Placed, NeedsOf, WorkerAt, LoopAt, RepairAt, AdminAt, RebuildAt
<1>2. l'[p].pc \notin {"run", "graduate"}
  <2>. USE DEF Serving, Applying, Aggregating, Capturing, Calling, Clearing
  <2>1. CASE p = Loop
    BY <1>1, <2>1 DEF Placed, LoopAt
  <2>2. CASE p = Repair
    BY <1>1, <2>2 DEF Placed, RepairAt, RebuildAt
  <2>3. CASE p = Admin
    BY <1>1, <2>3 DEF Placed, AdminAt, RebuildAt
  <2>. QED
    BY <2>1, <2>2, <2>3
<1>. QED
  BY <1>1, <1>2, JobFrame

LEMMA InnerKeepsJobs == ASSUME TypeInv, JobInv, NEW p \in Procs, Inner(p) PROVE JobInv'
<1>1. l'[p].pc \notin {"run", "graduate"} /\ UNCHANGED <<sub, job, run>>
  BY DEF Inner, jobs, Calling, Applying, Aggregating, Capturing, Between
<1>. QED
  BY <1>1, JobFrame DEF Inner

LEMMA JobSubmit == ASSUME TypeInv, JobInv, SubmitStep PROVE JobInv'
<1>. USE DEF TypeInv, SnapshotTypeOK, JobInv
<1>0. \A w \in Workers : w \in Procs /\ Placed(w, l[w]) /\ (l[w].pc \in {"run", "graduate"} => l[w].run \in Runs)
  BY WhoIsWho, Holds DEF Placed, WorkerAt
<1>1. ASSUME NEW r \in Runs, CreateJob(r) PROVE JobInv'
  <2>1. \A x \in Runs : job'[x] = IF x = r THEN "open" ELSE job[x]
    BY <1>1 DEF CreateJob
  <2>2. job[r] = "none" /\ UNCHANGED <<sub, run, l>>
    BY <1>1 DEF CreateJob
  <2>. QED
    BY <1>0, <2>1, <2>2 DEF RunsOf
<1>2. ASSUME NEW b \in Batches, CreateBatch(b) PROVE JobInv'
  <2>1. \A x \in Batches : sub'[x] = IF x = b THEN "done" ELSE sub[x]
    BY <1>2 DEF CreateBatch
  <2>2. UNCHANGED <<job, run, l>> /\ \A r \in RunsOf(b) : job[r] # "none"
    BY <1>2 DEF CreateBatch
  <2>. QED
    BY <2>1, <2>2
<1>. QED
  BY <1>1, <1>2 DEF SubmitStep

LEMMA JobWorker == ASSUME TypeInv, JobInv, NEW w \in Workers, WorkerStep(w) PROVE JobInv'
<1>. USE DEF jobs, rows, scene
<1>0. /\ w \in Procs /\ l \in [Procs -> Local] /\ l[w] \in Local /\ WorkerAt(l[w]) /\ SnapshotTypeOK
  BY WhoIsWho, Holds DEF Placed, TypeInv
<1>w. \A v \in Workers : v \in Procs /\ (l[v].pc \in {"run", "graduate"} => l[v].run \in Runs)
  BY WhoIsWho, Holds DEF Placed, WorkerAt
<1>1. ASSUME NEW r \in Runs, TakeJob(w, r) PROVE JobInv'
  <2>1. l' = [l EXCEPT ![w] = l'[w]] /\ l'[w].pc = "run" /\ l'[w].run = r
    BY <1>0, <1>1 DEF TakeJob, Idle
  <2>2. \A v \in Workers : v # w => l'[v] = l[v]
    BY <1>0, <1>w, <2>1
  <2>3. job[r] = "open" /\ UNCHANGED <<sub, run>>
        /\ \A x \in Runs : job'[x] = IF x = r THEN "running" ELSE job[x]
    BY <1>0, <1>1 DEF TakeJob, SnapshotTypeOK
  <2>. QED
    BY <1>w, <2>1, <2>2, <2>3 DEF JobInv, RunsOf
<1>2. ASSUME EndJob(w) PROVE JobInv'
  <2>1. l' = [l EXCEPT ![w] = l'[w]] /\ l'[w].pc = "graduate" /\ l'[w].run = l[w].run
        /\ l[w].pc = "run"
    BY <1>0, <1>2 DEF EndJob, Goto, At, Local
  <2>2. \A v \in Workers : v # w => l'[v] = l[v]
    BY <1>0, <1>w, <2>1
  <2>3. UNCHANGED <<sub, run, job>>
    BY <1>2 DEF EndJob
  <2>. QED
    BY <1>w, <2>1, <2>2, <2>3 DEF JobInv
<1>3. ASSUME GraduateJob(w) PROVE JobInv'
  <2>. DEFINE r == l[w].run
  <2>1. l' = [l EXCEPT ![w] = l'[w]] /\ l'[w].pc = "load" /\ l[w].pc = "graduate"
    BY <1>0, <1>3 DEF GraduateJob, Goto, At, Local
  <2>2. \A v \in Workers : v # w => l'[v] = l[v]
    BY <1>0, <1>w, <2>1
  <2>3. r \in Runs /\ UNCHANGED sub
        /\ \A x \in Runs : job'[x] = IF x = r THEN "done" ELSE job[x]
    BY <1>0, <1>3, <1>w, <2>1 DEF GraduateJob, SnapshotTypeOK
  <2>4. \A x \in Runs : IF x = r THEN run'[x] # "none" ELSE run'[x] = run[x]
    <3>1. "none" \notin Results
      BY SnapshotAssumption
    <3>. QED
      BY <1>0, <1>3, <3>1 DEF GraduateJob, SnapshotTypeOK
  <2>5. \A v \in Workers : v # w /\ l[v].pc \in {"run", "graduate"} => l[v].run # r
    BY <2>1 DEF JobInv
  <2>. HIDE DEF r
  <2>. QED
    BY <1>w, <2>1, <2>2, <2>3, <2>4, <2>5 DEF JobInv, RunsOf
<1>4. ASSUME LoadRun(w) PROVE JobInv'
  <2>1. l' = [l EXCEPT ![w] = l'[w]] /\ l'[w].pc \in {"project", "idle"}
    BY <1>0, <1>4 DEF LoadRun, Finish, Idle, Local
  <2>. QED
    BY <1>0, <1>4, <2>1, JobFrame DEF LoadRun
<1>5. ASSUME ProjectLoaded(w) PROVE JobInv'
  <2>1. l' = [l EXCEPT ![w] = l'[w]] /\ l'[w].pc = "find"
    BY <1>0, <1>5 DEF ProjectLoaded, Goto, Local
  <2>. QED
    BY <1>0, <1>5, <2>1, JobFrame DEF ProjectLoaded
<1>6. ASSUME StampCohort(w) PROVE JobInv'
  <2>1. l' = [l EXCEPT ![w] = l'[w]] /\ l'[w].pc = "idle"
    BY <1>0, <1>6 DEF StampCohort, Finish, Idle
  <2>. QED
    BY <1>0, <1>6, <2>1, JobFrame DEF StampCohort
<1>. QED
  BY <1>1, <1>2, <1>3, <1>4, <1>5, <1>6 DEF WorkerStep

LEMMA JobRebuild ==
    ASSUME TypeInv, TypeInv', JobInv, NEW p \in {Admin, Repair}, RebuildStep(p) PROVE JobInv'
<1>1. p \in Procs /\ l \in [Procs -> Local]
  BY SMTT(40), WhoIsWho, Holds
<1>2. UNCHANGED <<sub, job, run>>
  BY DEF RebuildStep, LookupCohort, SetPending, ClearState, ClearFacts, ClearSnapshots, EndClear,
     ListRuns, ProjectForRebuild, ApplyNext, CaptureNext, EndRebuild, jobs
<1>3. l' = [l EXCEPT ![p] = l'[p]]
  <2>1. ASSUME LookupCohort(p) PROVE l' = [l EXCEPT ![p] = l'[p]]
    BY <1>1, <2>1 DEF LookupCohort
  <2>2. ASSUME NEW pc, Goto(p, pc) PROVE l' = [l EXCEPT ![p] = l'[p]]
    BY <1>1, <2>2 DEF Goto
  <2>3. ASSUME Finish(p) PROVE l' = [l EXCEPT ![p] = l'[p]]
    BY <1>1, <2>3 DEF Finish
  <2>4. ASSUME ListRuns(p) PROVE l' = [l EXCEPT ![p] = l'[p]]
    BY <1>1, <2>4 DEF ListRuns
  <2>5. ASSUME ProjectForRebuild(p) PROVE l' = [l EXCEPT ![p] = l'[p]]
    BY <1>1, <2>5 DEF ProjectForRebuild
  <2>6. ASSUME ApplyNext(p) \/ CaptureNext(p) PROVE l' = [l EXCEPT ![p] = l'[p]]
    BY <2>6, BetweenIsInner DEF Inner
  <2>. QED
    BY <2>1, <2>2, <2>3, <2>4, <2>5, <2>6
       DEF RebuildStep, SetPending, ClearState, ClearFacts, ClearSnapshots, EndClear, EndRebuild
<1>. QED
  BY <1>2, <1>3, JobOther

LEMMA JobRest ==
    ASSUME TypeInv, TypeInv', JobInv,
           \/ ListPending \/ NextPending \/ RepairStep \/ AdminStep
           \/ \E p \in Procs : StoreFault(p) \/ FindFails(p)
           \/ \E w \in Workers : GraduateFails(w)
           \/ Crash
    PROVE  JobInv'
<1>. USE DEF jobs, rows, scene
<1>0. Loop \in Procs /\ Admin \in Procs /\ Repair \in Procs /\ l \in [Procs -> Local]
  BY WhoIsWho, Holds
<1>1. ASSUME ListPending \/ NextPending PROVE JobInv'
  <2>1. l' = [l EXCEPT ![Loop] = l'[Loop]]
    BY <1>0, <1>1 DEF ListPending, NextPending, Finish
  <2>. QED
    BY <1>1, <2>1, JobOther DEF ListPending, NextPending
<1>2. ASSUME RepairStep PROVE JobInv'
  <2>1. ASSUME NEW r \in Runs, CatchUpRun(r)
        PROVE  l' = [l EXCEPT ![Repair] = l'[Repair]] /\ UNCHANGED <<sub, job, run>>
    BY <1>0, <2>1 DEF CatchUpRun
  <2>2. ASSUME BeginRepair \/ CaughtUp \/ EndCatchUp
        PROVE  l' = [l EXCEPT ![Repair] = l'[Repair]] /\ UNCHANGED <<sub, job, run>>
    BY <1>0, <2>2 DEF BeginRepair, CaughtUp, EndCatchUp, Finish
  <2>. QED
    BY <1>2, <2>1, <2>2, JobOther DEF RepairStep
<1>3. ASSUME AdminStep PROVE JobInv'
  <2>1. ASSUME NEW b \in Batches, RequestRematerialize(b) \/ RequestRetire(b) \/ RequestPurge(b)
        PROVE  l' = [l EXCEPT ![Admin] = l'[Admin]] /\ UNCHANGED <<sub, job, run>>
    BY <1>0, <2>1 DEF RequestRematerialize, RequestRetire, RequestPurge
  <2>2. ASSUME NEW b \in Batches, RequestIntent(b) PROVE JobInv'
    BY <2>2 DEF RequestIntent, JobInv
  <2>3. ASSUME NEW d, NEW on, RequestEnabled(d, on)
        PROVE  l' = [l EXCEPT ![Admin] = l'[Admin]] /\ UNCHANGED <<sub, job, run>>
    BY <1>0, <2>3 DEF RequestEnabled
  <2>4. ASSUME RequestRebuild \/ RequestClear \/ PatchCohort \/ RewriteRow \/ PurgeRow
        PROVE  l' = [l EXCEPT ![Admin] = l'[Admin]] /\ UNCHANGED <<sub, job, run>>
    BY <1>0, <2>4 DEF RequestRebuild, RequestClear, PatchCohort, RewriteRow, PurgeRow, Goto, Finish
  <2>. QED
    BY <1>3, <2>1, <2>2, <2>3, <2>4, JobOther DEF AdminStep
<1>4. ASSUME NEW p \in Procs, StoreFault(p) PROVE JobInv'
  <2>1. l' = [l EXCEPT ![p] = l'[p]] /\ l'[p].pc = "idle"
    BY <1>0, <1>4 DEF StoreFault, Finish, Idle
  <2>. QED
    BY <1>4, <2>1, JobFrame DEF StoreFault
<1>5. ASSUME Crash PROVE JobInv'
  <2>1. \A w \in Workers : l'[w].pc = "idle"
    BY <1>5, WhoIsWho DEF Crash, Idle
  <2>2. \A r \in Runs :
          /\ job'[r] = IF job[r] \in {"running", "parked"} THEN "done" ELSE job[r]
          /\ run'[r] = IF job[r] \in {"running", "parked"} THEN "failed" ELSE run[r]
    BY <1>5 DEF Crash
  <2>3. \A b \in Batches : sub'[b] = "done" => sub[b] = "done"
    BY <1>5 DEF Crash
  <2>. QED
    BY <2>1, <2>2, <2>3 DEF JobInv, RunsOf
<1>6. ASSUME NEW p \in Procs, FindFails(p) PROVE JobInv'
  <2>1. l' = [l EXCEPT ![p] = l'[p]] /\ l'[p].pc = "count"
    BY <1>0, <1>6, Holds DEF FindFails, Local
  <2>. QED
    BY <1>6, <2>1, JobFrame DEF FindFails
<1>7. ASSUME NEW w \in Workers, GraduateFails(w) PROVE JobInv'
  <2>. DEFINE r == l[w].run
  <2>w. \A v \in Workers : v \in Procs /\ (l[v].pc \in {"run", "graduate"} => l[v].run \in Runs)
    BY WhoIsWho, Holds DEF Placed, WorkerAt
  <2>1. l' = [l EXCEPT ![w] = l'[w]] /\ l'[w].pc = "idle" /\ l[w].pc = "graduate"
    BY <1>0, <1>7, <2>w DEF GraduateFails, Finish, At, Idle
  <2>2. \A v \in Workers : v # w => l'[v] = l[v]
    BY <1>0, <2>w, <2>1
  <2>3. r \in Runs /\ UNCHANGED <<sub, run>>
        /\ \A x \in Runs : job'[x] = IF x = r THEN "parked" ELSE job[x]
    BY <1>7, <2>w, <2>1 DEF GraduateFails, TypeInv, SnapshotTypeOK
  <2>5. job[r] = "running" /\ \A v \in Workers : v # w /\ l[v].pc \in {"run", "graduate"} => l[v].run # r
    BY <2>1 DEF JobInv
  <2>. HIDE DEF r
  <2>. QED
    BY <2>w, <2>1, <2>2, <2>3, <2>5 DEF JobInv, RunsOf
<1>. QED
  BY <1>1, <1>2, <1>3, <1>4, <1>5, <1>6, <1>7

LEMMA JobStep == TypeInv /\ TypeInv' /\ JobInv /\ [Next]_vars => JobInv'
<1>. SUFFICES ASSUME TypeInv, TypeInv', JobInv, [Next]_vars PROVE JobInv'
  OBVIOUS
<1>1. CASE UNCHANGED vars
  BY <1>1 DEF vars, jobs, JobInv
<1>2. ASSUME NEW p \in Procs, ApplySnapshotState(p) \/ MaterializeSnapshot(p) \/ CaptureSnapshot(p)
      PROVE  JobInv'
  BY <1>2, ApplyIsInner, MaterializeIsInner, CaptureIsInner, InnerKeepsJobs
<1>. QED
  BY <1>1, <1>2, JobSubmit, JobWorker, JobRebuild, JobRest DEF Next

-----------------------------------------------------------------------------
(* What was projected is kept.                                             *)

LEMMA SameBatches == ASSUME UNCHANGED sub PROVE \A b : HasBatch(b)' <=> HasBatch(b)
  BY DEF HasBatch

\* Only p moves, and not to or from the places of a rebuild.
LEMMA KeptInner == ASSUME TypeInv, KeptInv, NEW p \in Procs, Inner(p) PROVE KeptInv'
<1>. USE DEF Calling, Applying, Aggregating, Capturing, Between, jobs, scene
<1>1. \A q \in Procs : q # p => l'[q] = l[q]
  BY Holds DEF Inner
<1>2. /\ l[p].pc \notin {"idle", "patch", "lookup", "project", "projecting", "list",
                         "clear facts", "clear snapshots"}
      /\ l'[p].pc \notin {"idle", "patch", "lookup", "project"}
  BY DEF Inner
<1>3. l'[p].cohort = l[p].cohort /\ l'[p].task = l[p].task /\ l'[p].run = l[p].run
      /\ (p = Repair /\ l[p].task = "catchup" => l'[p].todo = l[p].todo)
  BY DEF Inner
<1>4. UNCHANGED <<sub, wanted, job, run, state, facts, seen, cohort>> /\ used \subseteq used'
  BY DEF Inner
<1>5. CopiesAgree'
  BY <1>1, <1>2, <1>3, <1>4 DEF KeptInv, CopiesAgree, HasCopy
<1>6. CastInv'
  BY ZenonT(60), <1>1, <1>2, <1>3, <1>4, WhoIsWho DEF KeptInv, CastInv
<1>7. SeenInv'
  <2>1. \A w \in Workers : l'[w].pc = "project" => l'[w] = l[w]
    BY <1>1, <1>2, WhoIsWho
  <2>2. l'[Repair].task = l[Repair].task
        /\ (l[Repair].task = "catchup" => l'[Repair].todo = l[Repair].todo)
    BY <1>1, <1>3, WhoIsWho
  <2>. QED
    BY <1>4, <2>1, <2>2, SameBatches DEF KeptInv, SeenInv
<1>8. MissingInv'
  BY <1>1, <1>2, <1>3, <1>4, WhoIsWho DEF KeptInv, MissingInv
<1>. QED
  BY <1>5, <1>6, <1>7, <1>8 DEF KeptInv

\* A process other than a rebuild in the middle of its work goes idle, having
\* written the catalogue row or not.
LEMMA KeptEnd ==
    ASSUME TypeInv, KeptInv, NEW p \in Procs, Finish(p),
           cohort'.enabled = cohort.enabled,
           used' \cap {"fault", "rebuild", "enable"} = {} /\ cohort.enabled => cohort'.mat = "ready",
           UNCHANGED <<sub, wanted, run, state, facts, seen>>, used \subseteq used',
           p = Admin => l[p].pc \notin {"clear facts", "clear snapshots", "list", "projecting"}
    PROVE  KeptInv'
<1>. USE DEF jobs
<1>1. (\A q \in Procs : q # p => l'[q] = l[q]) /\ l'[p] = Idle
  BY Holds DEF Finish
<1>2. Idle.pc = "idle" /\ Idle.task = "none" /\ Idle.cohort = NoSnap
  BY DEF Idle
<1>5. CopiesAgree'
  BY <1>1, <1>2 DEF KeptInv, CopiesAgree, HasCopy
<1>6. CastInv'
  BY <1>1, <1>2, WhoIsWho DEF KeptInv, CastInv
<1>7. SeenInv'
  <2>1. \A w \in Workers : l'[w].pc = "project" => l'[w] = l[w]
    BY <1>1, <1>2, WhoIsWho
  <2>2. l'[Repair].task = "catchup" => l'[Repair] = l[Repair]
    BY <1>1, <1>2, WhoIsWho
  <2>. QED
    BY <2>1, <2>2, SameBatches DEF KeptInv, SeenInv
<1>8. MissingInv'
  BY <1>1, <1>2, WhoIsWho DEF KeptInv, MissingInv
<1>. QED
  BY <1>5, <1>6, <1>7, <1>8 DEF KeptInv

LEMMA KeptSubmit == ASSUME TypeInv, KeptInv, SubmitStep PROVE KeptInv'
<1>1. UNCHANGED <<wanted, run, state, facts, seen, cohort, used, l>>
  BY DEF SubmitStep, CreateJob, CreateBatch, rows, scene
<1>2. \A b \in Batches : HasBatch(b) => HasBatch(b)'
  BY DEF SubmitStep, CreateJob, CreateBatch, HasBatch, TypeInv, SnapshotTypeOK
<1>3. \A r \in seen : BatchOf[r] \in Batches
  BY SnapshotAssumption DEF TypeInv, SnapshotTypeOK
<1>4. \A w \in Workers : l[w].pc = "project" => l[w].batch \in Batches
  BY Holds, WhoIsWho, SnapshotAssumption DEF Placed, WorkerAt
<1>5. SeenInv'
  BY <1>1, <1>2, <1>3, <1>4 DEF KeptInv, SeenInv
<1>. QED
  BY <1>1, <1>5 DEF KeptInv, CopiesAgree, CastInv, MissingInv, HasCopy

\* A worker moves and the catalogue row stays.
LEMMA WorkerFrame ==
    ASSUME TypeInv, KeptInv, NEW w \in Workers, l' = [l EXCEPT ![w] = l'[w]],
           UNCHANGED <<wanted, cohort, used>>
    PROVE  /\ CastInv'
           /\ l'[Admin] = l[Admin] /\ l'[Repair] = l[Repair]
           /\ \A q \in Procs : q # w => l'[q] = l[q]
           /\ (HasCopy(l'[w]) => l'[w].cohort.enabled = cohort.enabled /\ cohort.enabled)
                 => CopiesAgree'
<1>1. l'[Admin] = l[Admin] /\ l'[Repair] = l[Repair] /\ \A q \in Procs : q # w => l'[q] = l[q]
  BY Holds, WhoIsWho
<1>2. CastInv'
  BY <1>1 DEF KeptInv, CastInv
<1>3. (HasCopy(l'[w]) => l'[w].cohort.enabled = cohort.enabled /\ cohort.enabled) => CopiesAgree'
  BY <1>1 DEF KeptInv, CopiesAgree, HasCopy
<1>. QED
  BY <1>1, <1>2, <1>3

LEMMA KeptWorker ==
    ASSUME TypeInv, JobInv, KeptInv, NEW w \in Workers, WorkerStep(w) PROVE KeptInv'
<1>. USE DEF jobs, rows, scene
<1>0. /\ w \in Procs /\ l \in [Procs -> Local] /\ l[w] \in Local /\ WorkerAt(l[w]) /\ SnapshotTypeOK
      /\ CopiesAgree /\ CastInv /\ SeenInv /\ MissingInv
      /\ cohort \in Cohort /\ seen \subseteq Runs
  BY WhoIsWho, Holds DEF Placed, TypeInv, KeptInv, SnapshotTypeOK
<1>c. HasCopy(l[w]) => l[w].cohort.enabled = cohort.enabled /\ (cohort.enabled \/ l[w].task = "clear")
  BY <1>0 DEF CopiesAgree
<1>1. ASSUME NEW r \in Runs, TakeJob(w, r) PROVE KeptInv'
  <2>1. /\ l' = [l EXCEPT ![w] = l'[w]] /\ l'[w].pc = "run" /\ l'[w].cohort = NoSnap
        /\ UNCHANGED <<sub, wanted, run, state, facts, seen, cohort, used>>
    BY <1>0, <1>1 DEF TakeJob, Idle
  <2>2. CastInv' /\ CopiesAgree'
    BY <2>1, WorkerFrame DEF HasCopy
  <2>4. \A v \in Workers : l'[v].pc = "project" => l'[v] = l[v]
    BY <1>0, <2>1, WhoIsWho
  <2>3. SeenInv' /\ MissingInv'
    BY <1>0, <2>1, <2>4, WorkerFrame, SameBatches DEF SeenInv, MissingInv
  <2>. QED
    BY <2>2, <2>3 DEF KeptInv
<1>2. ASSUME EndJob(w) PROVE KeptInv'
  <2>1. /\ l' = [l EXCEPT ![w] = l'[w]] /\ l'[w].pc = "graduate" /\ l[w].pc = "run"
        /\ l'[w].cohort = l[w].cohort /\ l'[w].task = l[w].task /\ l[w].task = "worker"
        /\ UNCHANGED <<sub, wanted, run, state, facts, seen, cohort, used>>
    BY <1>0, <1>2 DEF EndJob, Goto, At, Local, WorkerAt
  <2>2. CastInv' /\ CopiesAgree'
    BY <1>c, <2>1, WorkerFrame DEF HasCopy
  <2>4. \A v \in Workers : l'[v].pc = "project" => l'[v] = l[v]
    BY <1>0, <2>1, WhoIsWho
  <2>3. SeenInv' /\ MissingInv'
    BY <1>0, <2>1, <2>4, WorkerFrame, SameBatches DEF SeenInv, MissingInv
  <2>. QED
    BY <2>2, <2>3 DEF KeptInv
<1>3. ASSUME GraduateJob(w) PROVE KeptInv'
  <2>. DEFINE r == l[w].run
  <2>1. /\ l' = [l EXCEPT ![w] = l'[w]] /\ l'[w].pc = "load" /\ l[w].pc = "graduate"
        /\ l'[w].cohort = l[w].cohort /\ l'[w].task = l[w].task /\ l[w].task = "worker"
        /\ UNCHANGED <<sub, wanted, state, facts, seen, cohort, used>>
    BY <1>0, <1>3 DEF GraduateJob, Goto, At, Local, WorkerAt
  <2>2. CastInv' /\ CopiesAgree'
    BY <1>c, <2>1, WorkerFrame DEF HasCopy
  <2>3. run[r] = "none" /\ r \in Runs
    BY <1>0, <2>1, WhoIsWho DEF JobInv, WorkerAt
  <2>4. \A x \in Runs : x # r => run'[x] = run[x]
    BY <1>0, <1>3 DEF GraduateJob, SnapshotTypeOK
  <2>5. \A x \in Runs : run[x] # "none" => run'[x] = run[x]
    BY <2>3, <2>4
  <2>6. \A v \in Workers : l[v].pc = "project" => l[v].run \in Runs
    BY WhoIsWho, Holds DEF Placed, WorkerAt
  <2>7. l[Repair].task = "catchup" => l[Repair].todo \subseteq Runs
    BY WhoIsWho, Holds DEF Placed, RepairAt, RebuildAt
  <2>. HIDE DEF r
  <2>8. SeenInv'
    BY <1>0, <2>1, <2>5, <2>6, <2>7, WorkerFrame, WhoIsWho DEF SeenInv, HasBatch
  <2>9. MissingInv'
    BY <1>0, <2>1, WorkerFrame DEF MissingInv
  <2>. QED
    BY <2>2, <2>8, <2>9 DEF KeptInv
<1>4. ASSUME LoadRun(w) PROVE KeptInv'
  <2>1. CASE Succeeded(l[w].run) /\ Wanted(l[w].run) /\ cohort.enabled
    <3>1. /\ l' = [l EXCEPT ![w] = l'[w]] /\ l'[w].pc = "project" /\ l[w].pc = "load"
          /\ l'[w].cohort = cohort /\ l'[w].run = l[w].run /\ l'[w].batch = BatchOf[l[w].run]
          /\ UNCHANGED <<sub, wanted, run, state, facts, seen, cohort, used>>
      BY <1>0, <1>4, <2>1 DEF LoadRun, At, Local, WorkerAt
    <3>2. CastInv' /\ CopiesAgree'
      BY <2>1, <3>1, WorkerFrame DEF HasCopy
    <3>3. SeenInv'
      BY <1>0, <2>1, <3>1, WorkerFrame, WhoIsWho DEF SeenInv, HasBatch, Succeeded, Wanted
    <3>4. MissingInv'
      BY <1>0, <3>1, WorkerFrame DEF MissingInv
    <3>. QED
      BY <3>2, <3>3, <3>4 DEF KeptInv
  <2>2. CASE ~(Succeeded(l[w].run) /\ Wanted(l[w].run) /\ cohort.enabled)
    <3>1. Finish(w) /\ UNCHANGED <<jobs, state, facts, seen, cohort, used>>
      BY <1>4, <2>2 DEF LoadRun
    <3>2. used \cap {"fault", "rebuild", "enable"} = {} /\ cohort.enabled => cohort.mat = "ready"
      BY <1>0 DEF CastInv
    <3>. QED
      BY <1>0, <3>1, <3>2, WhoIsWho, KeptEnd
  <2>. QED
    BY <2>1, <2>2
<1>5. ASSUME ProjectLoaded(w) PROVE KeptInv'
  <2>. DEFINE r == l[w].run
  <2>1. /\ l' = [l EXCEPT ![w] = l'[w]] /\ l'[w].pc = "find" /\ l[w].pc = "project"
        /\ l'[w].cohort = l[w].cohort /\ l'[w].task = l[w].task /\ l[w].task = "worker"
        /\ l[w].cohort \in Cohort /\ l[w].batch = BatchOf[r] /\ r \in Runs
        /\ UNCHANGED <<sub, wanted, run, cohort, used>>
        /\ state' = state \cup {r} /\ facts' = facts \cup {r} /\ seen' = seen \cup {r}
    BY <1>0, <1>5 DEF ProjectLoaded, WriteFacts, Goto, At, Local, WorkerAt, Serving
  <2>2. HasCopy(l[w])
    BY <2>1, SnapshotAssumption DEF HasCopy
  <2>3. CastInv' /\ CopiesAgree' /\ cohort.enabled
    BY <1>c, <2>1, <2>2, WorkerFrame DEF HasCopy
  <2>4. run[r] = "succeeded" /\ HasBatch(BatchOf[r])
    BY <1>0, <2>1 DEF SeenInv
  <2>. HIDE DEF r
  <2>5. SeenInv'
    BY <1>0, <2>1, <2>3, <2>4, WorkerFrame, WhoIsWho DEF SeenInv, HasBatch
  <2>6. MissingInv'
    BY <1>0, <2>1, WorkerFrame DEF MissingInv
  <2>. QED
    BY <2>3, <2>5, <2>6 DEF KeptInv
<1>6. ASSUME StampCohort(w) PROVE KeptInv'
  <2>1. l[w].cohort \in Cohort /\ l[w].pc = "stamp"
    BY <1>0, <1>6 DEF StampCohort, At, WorkerAt, Serving
  <2>2. l[w].cohort.enabled = cohort.enabled
    BY <1>c, <2>1, SnapshotAssumption DEF HasCopy
  <2>3. cohort'.enabled = cohort.enabled /\ cohort'.mat = "ready"
    BY <1>6, <2>1, <2>2 DEF StampCohort, UpsertCohort, Cohort
  <2>4. Finish(w) /\ UNCHANGED <<jobs, state, facts, seen, used>>
    BY <1>6 DEF StampCohort
  <2>. QED
    BY <1>0, <2>3, <2>4, WhoIsWho, KeptEnd
<1>. QED
  BY <1>1, <1>2, <1>3, <1>4, <1>5, <1>6 DEF WorkerStep

LEMMA KeptLoop == ASSUME TypeInv, KeptInv, ListPending \/ NextPending PROVE KeptInv'
<1>. USE DEF jobs, rows, scene
<1>0. Loop \in Procs /\ l \in [Procs -> Local] /\ l[Loop] \in Local /\ LoopAt(l[Loop])
  BY WhoIsWho, Holds DEF Placed
<1>1. /\ l' = [l EXCEPT ![Loop] = l'[Loop]]
      /\ l'[Loop].cohort = NoSnap
         \/ (l'[Loop].cohort = l[Loop].cohort /\ l[Loop].pc = "next" /\ l'[Loop].task = l[Loop].task)
  <2>1. ASSUME ListPending PROVE l' = [l EXCEPT ![Loop] = l'[Loop]] /\ l'[Loop].cohort = NoSnap
    BY <1>0, <2>1 DEF ListPending, Idle
  <2>2. ASSUME Finish(Loop) PROVE l' = [l EXCEPT ![Loop] = l'[Loop]] /\ l'[Loop].cohort = NoSnap
    BY <1>0, <2>2 DEF Finish, Idle
  <2>3. ASSUME NextPending, ~Finish(Loop)
        PROVE  /\ l' = [l EXCEPT ![Loop] = l'[Loop]] /\ l[Loop].pc = "next"
               /\ l'[Loop].cohort = l[Loop].cohort /\ l'[Loop].task = l[Loop].task
    <3>1. PICK i \in l[Loop].todo :
            l' = [l EXCEPT ![Loop].pc = "outstanding", ![Loop].batch = i.batch,
                           ![Loop].snap = i.snap, ![Loop].todo = @ \ {i}]
      BY <2>3 DEF NextPending
    <3>. QED
      BY <1>0, <2>3, <3>1 DEF NextPending, At, Local
  <2>. QED
    BY <2>1, <2>2, <2>3
<1>2. UNCHANGED <<sub, wanted, run, state, facts, seen, cohort, used>>
  BY DEF ListPending, NextPending
<1>3. \A q \in Procs : q # Loop => l'[q] = l[q]
  BY <1>0, <1>1
<1>4. CopiesAgree'
  BY <1>1, <1>2, <1>3 DEF KeptInv, CopiesAgree, HasCopy
<1>6. l'[Admin] = l[Admin] /\ l'[Repair] = l[Repair] /\ \A w \in Workers : l'[w] = l[w]
  BY <1>3, WhoIsWho
<1>5. CastInv' /\ SeenInv' /\ MissingInv'
  BY ZenonT(60), <1>2, <1>6, SameBatches DEF KeptInv, CastInv, SeenInv, MissingInv
<1>. QED
  BY <1>4, <1>5 DEF KeptInv

\* What a rebuild may rely on: a copy it has read agrees with the catalogue row,
\* and the repair pass only clears, in a cohort that is disabled.
LEMMA KeptRole ==
    ASSUME TypeInv, KeptInv, Kept, NEW p \in {Admin, Repair}
    PROVE  /\ HasCopy(l[p]) /\ l[p].task # "clear" => l[p].cohort.enabled /\ cohort.enabled
           /\ HasCopy(l[p]) => l[p].cohort.enabled = cohort.enabled
           /\ l[p].task = "clear" => ~cohort.enabled /\ seen = {}
           /\ l[p].task = "rebuild" /\ l[p].pc # "lookup" => p = Admin
           /\ l[Admin].task \in {"rebuild", "clear"} =>
                 /\ used \cap {"rebuild", "enable"} # {}
                 /\ "crash" \notin used /\ "intent" \notin used
           /\ l[Repair].pc # "idle" => "crash" \in used /\ used \cap {"fault", "rebuild", "enable"} = {}
<1>1. p \in Procs /\ CopiesAgree /\ CastInv /\ SeenInv
  BY WhoIsWho DEF KeptInv
<1>2. \A d, e \in used : d = e
  BY OnlyOne DEF Kept
<1>. QED
  BY <1>1, <1>2 DEF CopiesAgree, CastInv, SeenInv

\* A rebuild moves; what it does to the facts and the row is left to show.
LEMMA RebuildFrame ==
    ASSUME TypeInv, KeptInv, NEW p \in {Admin, Repair}, l' = [l EXCEPT ![p] = l'[p]],
           UNCHANGED <<jobs, used>>, cohort'.enabled = cohort.enabled,
           used \cap {"fault", "rebuild", "enable"} = {} /\ cohort.enabled => cohort'.mat = "ready",
           l[p].pc # "idle", l'[p].pc \notin {"patch", "lookup"},
           l'[p].task = l[p].task \/ (l[p].task = "rebuild" /\ l'[p].task = "clear"),
           l'[p].task = "clear" => ~cohort.enabled,
           l'[p].task = "rebuild" => p = Admin,
           l'[p].task # "catchup",
           HasCopy(l'[p]) => l'[p].cohort.enabled = cohort.enabled
                             /\ (cohort.enabled \/ l'[p].task = "clear")
    PROVE  /\ CopiesAgree' /\ CastInv'
           /\ UNCHANGED <<facts, state, seen>> => SeenInv'
           /\ p # Admin => l'[Admin] = l[Admin]
<1>. USE DEF jobs
<1>1. (\A q \in Procs : q # p => l'[q] = l[q]) /\ p \in Procs
  BY Holds, WhoIsWho
<1>2. CopiesAgree'
  BY <1>1 DEF KeptInv, CopiesAgree, HasCopy
<1>3. CastInv'
  <2>1. CASE p = Admin
    <3>1. l'[Repair] = l[Repair]
      BY <1>1, <2>1, WhoIsWho
    <3>. QED
      BY <2>1, <3>1 DEF KeptInv, CastInv
  <2>2. CASE p = Repair
    <3>1. l'[Admin] = l[Admin] /\ p # Admin
      BY <1>1, <2>2, WhoIsWho
    <3>. QED
      BY <2>2, <3>1 DEF KeptInv, CastInv
  <2>. QED
    BY <2>1, <2>2
<1>4. UNCHANGED <<facts, state, seen>> => SeenInv'
  BY <1>1, WhoIsWho DEF KeptInv, SeenInv, HasBatch
<1>. QED
  BY <1>1, <1>2, <1>3, <1>4, WhoIsWho

LEMMA KeptRebuild ==
    ASSUME TypeInv, KeptInv, Kept, NEW p \in {Admin, Repair}, RebuildStep(p) PROVE KeptInv'
<1>. USE DEF jobs, rows, scene
<1>0. /\ p \in Procs /\ l \in [Procs -> Local] /\ l[p] \in Local /\ Placed(p, l[p]) /\ NeedsOf(l[p])
      /\ SnapshotTypeOK /\ cohort \in Cohort /\ cohort.enabled \in BOOLEAN
      /\ CopiesAgree /\ CastInv /\ SeenInv /\ MissingInv
  BY WhoIsWho, Holds DEF Placed, TypeInv, SnapshotTypeOK, KeptInv, Cohort
<1>r. /\ l[p].pc = "lookup" => l[p].task \in {"rebuild", "clear"}
      /\ l[p].pc \in Clearing => l[p].task \in {"rebuild", "clear"}
      /\ l[p].pc \in {"set pending", "list", "projecting", "rebuilt"} => l[p].task = "rebuild"
      /\ l[p].pc = "projecting" => l[p].todo \subseteq Runs
  BY <1>0 DEF Placed, RepairAt, AdminAt, RebuildAt, Calling, Applying, Aggregating, Capturing, Clearing
<1>c. l[p].pc \in {"set pending", "list", "projecting", "rebuilt"} \cup Clearing => HasCopy(l[p])
  BY <1>0, SnapshotAssumption DEF NeedsOf, HasCopy, Clearing
<1>m. used \cap {"fault", "rebuild", "enable"} = {} /\ cohort.enabled => cohort.mat = "ready"
  BY <1>0 DEF CastInv
<1>a. l[Admin].pc = "projecting" => l[Admin].task = "rebuild"
  BY WhoIsWho, Holds DEF Placed, AdminAt, RebuildAt, Calling, Applying, Aggregating, Capturing, Clearing
<1>1. ASSUME LookupCohort(p) PROVE KeptInv'
  <2>1. l[p].pc = "lookup" /\ (cohort.enabled => p = Admin /\ l[p].task = "rebuild")
    <3>1. l[p].pc = "lookup"
      BY <1>1 DEF LookupCohort, At
    <3>2. CASE p = Admin
      BY <1>0, <3>1, <3>2 DEF CastInv
    <3>3. CASE p = Repair
      BY <1>0, <1>r, <3>1, <3>3 DEF CastInv
    <3>. QED
      BY <3>1, <3>2, <3>3
  <2>2. /\ l' = [l EXCEPT ![p] = l'[p]] /\ l'[p].cohort = cohort
        /\ l'[p].task = IF cohort.enabled THEN l[p].task ELSE "clear"
        /\ l'[p].pc \in {"set pending", "clear state"}
        /\ UNCHANGED <<jobs, rows, scene>>
    BY <1>0, <1>1 DEF LookupCohort, Local
  <2>3. CopiesAgree' /\ CastInv' /\ SeenInv' /\ (p # Admin => l'[Admin] = l[Admin])
    BY <1>0, <1>m, <1>r, <2>1, <2>2, RebuildFrame
  <2>4. MissingInv'
    BY <1>0, <2>1, <2>2, <2>3 DEF MissingInv
  <2>. QED
    BY <2>3, <2>4 DEF KeptInv
<1>2. ASSUME SetPending(p) PROVE KeptInv'
  <2>1. /\ l[p].pc = "set pending" /\ l[p].task = "rebuild" /\ p = Admin /\ l[p].cohort \in Cohort
        /\ l[p].cohort.enabled = cohort.enabled /\ cohort.enabled
        /\ used \cap {"rebuild", "enable"} # {}
    BY <1>0, <1>2, <1>r, <1>c, KeptRole DEF SetPending, At, NeedsOf
  <2>2. /\ l' = [l EXCEPT ![p] = l'[p]] /\ l'[p].cohort = l[p].cohort
        /\ l'[p].task = l[p].task /\ l'[p].pc = "clear state"
        /\ UNCHANGED <<jobs, facts, state, seen, scene>>
    BY <1>0, <1>2 DEF SetPending, Goto, Local
  <2>3. cohort'.enabled = cohort.enabled
    BY <1>2, <2>1 DEF SetPending, UpsertCohort, Cohort
  <2>4. CopiesAgree' /\ CastInv' /\ SeenInv'
    BY <1>0, <1>m, <2>1, <2>2, <2>3, RebuildFrame
  <2>5. MissingInv'
    BY <1>0, <2>1, <2>2 DEF MissingInv
  <2>. QED
    BY <2>4, <2>5 DEF KeptInv
<1>3. ASSUME NEW pc \in {"clear facts", "clear snapshots", "list", "cleared"}, Goto(p, pc),
             l[p].pc \in {"clear state", "clear facts", "clear snapshots"},
             UNCHANGED <<jobs, seen, cohort, scene>>, facts' \subseteq facts, state' \subseteq state,
             l[p].task = "rebuild" => pc # "cleared"
      PROVE  KeptInv'
  <2>1. HasCopy(l[p]) /\ l[p].task \in {"rebuild", "clear"} /\ (l[p].task = "rebuild" => p = Admin)
    BY <1>3, <1>c, <1>r, KeptRole DEF Clearing
  <2>2. /\ l' = [l EXCEPT ![p] = l'[p]] /\ l'[p].cohort = l[p].cohort
        /\ l'[p].task = l[p].task /\ l'[p].pc = pc
    BY <1>0, <1>3 DEF Goto, Local
  <2>3. CopiesAgree' /\ CastInv' /\ (p # Admin => l'[Admin] = l[Admin])
    BY <1>3, <1>m, <2>1, <2>2, KeptRole, RebuildFrame
  <2>4. SeenInv'
    <3>1. (\A q \in Procs : q # p => l'[q] = l[q]) /\ l'[p].task # "catchup" /\ p \notin Workers
      BY <1>0, <2>1, <2>2, WhoIsWho
    <3>. QED
      BY ZenonT(60), <1>0, <1>3, <3>1, WhoIsWho DEF SeenInv, HasBatch
  <2>5. MissingInv'
    <3>1. CASE l[p].task = "clear"
      BY <1>3, <3>1, KeptRole DEF MissingInv
    <3>2. CASE l[p].task = "rebuild"
      BY <1>3, <2>1, <2>2, <3>2 DEF MissingInv
    <3>. QED
      BY <2>1, <3>1, <3>2
  <2>. QED
    BY <2>3, <2>4, <2>5 DEF KeptInv
<1>4. ASSUME ClearState(p) \/ ClearFacts(p) PROVE KeptInv'
  BY <1>3, <1>4 DEF ClearState, ClearFacts, At
<1>5. ASSUME ClearSnapshots(p) PROVE KeptInv'
  BY <1>3, <1>5 DEF ClearSnapshots, At
<1>6. ASSUME EndClear(p) PROVE KeptInv'
  <2>1. l[p].pc = "cleared" /\ l[p].cohort \in Cohort /\ l[p].task \in {"rebuild", "clear"}
    BY <1>0, <1>6, <1>r DEF EndClear, At, NeedsOf, Clearing
  <2>2. l[p].cohort.enabled = cohort.enabled
    BY <1>c, <2>1, KeptRole DEF Clearing
  <2>3. cohort'.enabled = cohort.enabled
    BY <1>6, <2>1, <2>2 DEF EndClear, UpsertCohort, Cohort
  <2>4. used \cap {"fault", "rebuild", "enable"} = {} => ~cohort.enabled
    BY <1>r, <2>1, KeptRole
  <2>5. Finish(p) /\ UNCHANGED <<jobs, state, facts, seen, used>>
    BY <1>6 DEF EndClear
  <2>. QED
    BY <1>0, <2>1, <2>3, <2>4, <2>5, KeptEnd
<1>7. ASSUME ListRuns(p) PROVE KeptInv'
  <2>1. /\ l[p].pc = "list" /\ l[p].task = "rebuild" /\ p = Admin /\ HasCopy(l[p])
        /\ l[p].cohort.enabled = cohort.enabled /\ cohort.enabled
    BY <1>7, <1>r, <1>c, KeptRole DEF ListRuns, At
  <2>2. /\ l' = [l EXCEPT ![p] = l'[p]] /\ l'[p].cohort = l[p].cohort
        /\ l'[p].task = l[p].task /\ l'[p].pc = "projecting"
        /\ l'[p].todo = {r \in Runs : run[r] # "none"}
        /\ UNCHANGED <<jobs, rows, scene>>
    BY <1>0, <1>7, <2>1 DEF ListRuns, Local
  <2>3. CopiesAgree' /\ CastInv' /\ SeenInv'
    BY <1>0, <1>m, <2>1, <2>2, RebuildFrame
  <2>4. seen \subseteq l'[p].todo
    BY <1>0, <2>2 DEF SeenInv, SnapshotTypeOK
  <2>5. MissingInv'
    BY <2>1, <2>2, <2>4 DEF MissingInv
  <2>. QED
    BY <2>3, <2>5 DEF KeptInv
<1>8. ASSUME ProjectForRebuild(p) PROVE KeptInv'
  <2>1. /\ l[p].pc = "projecting" /\ l[p].task = "rebuild" /\ p = Admin /\ HasCopy(l[p])
        /\ l[p].cohort.enabled = cohort.enabled /\ cohort.enabled
        /\ "crash" \notin used /\ "intent" \notin used /\ l[p].todo \subseteq Runs
        /\ seen \ (facts \cap state) \subseteq l[p].todo
    <3>1. l[p].pc = "projecting" /\ l[p].task = "rebuild" /\ HasCopy(l[p]) /\ l[p].todo \subseteq Runs
      BY <1>8, <1>r, <1>c DEF ProjectForRebuild, At
    <3>2. p = Admin /\ "crash" \notin used /\ "intent" \notin used
          /\ l[p].cohort.enabled = cohort.enabled /\ cohort.enabled
      BY <3>1, KeptRole
    <3>. QED
      BY <1>0, <3>1, <3>2 DEF MissingInv
  <2>2. CASE l[p].todo = {}
    <3>1. /\ l' = [l EXCEPT ![p] = l'[p]] /\ l'[p].cohort = l[p].cohort
          /\ l'[p].task = l[p].task /\ l'[p].pc = "apply"
          /\ UNCHANGED <<jobs, rows, scene>>
      BY <1>0, <1>8, <2>2 DEF ProjectForRebuild, Local
    <3>2. CopiesAgree' /\ CastInv' /\ SeenInv'
      BY <1>0, <1>m, <2>1, <3>1, RebuildFrame
    <3>3. MissingInv'
      BY <2>1, <2>2, <3>1 DEF MissingInv
    <3>. QED
      BY <3>2, <3>3 DEF KeptInv
  <2>3. ASSUME NEW r \in l[p].todo, Succeeded(r) /\ Wanted(r), WriteFacts(r),
               l' = [l EXCEPT ![p].todo = @ \ {r}, ![p].done = @ \cup {BatchOf[r]}]
        PROVE  KeptInv'
    <3>1. /\ l' = [l EXCEPT ![p] = l'[p]] /\ l'[p].cohort = l[p].cohort
          /\ l'[p].task = l[p].task /\ l'[p].pc = "projecting"
          /\ l'[p].todo = l[p].todo \ {r} /\ cohort' = cohort /\ UNCHANGED <<jobs, scene>>
      BY <1>0, <1>8, <2>1, <2>3 DEF ProjectForRebuild, WriteFacts, Local
    <3>2. CopiesAgree' /\ CastInv'
      BY <1>0, <1>m, <2>1, <3>1, RebuildFrame
    <3>3. SeenInv'
      <4>1. (\A q \in Procs : q # p => l'[q] = l[q]) /\ p \notin Workers /\ l'[Repair] = l[Repair]
        BY <1>0, <2>1, <3>1, WhoIsWho
      <4>. QED
        BY <1>0, <2>1, <2>3, <3>1, <4>1, WhoIsWho DEF SeenInv, HasBatch, WriteFacts, Succeeded, Wanted
    <3>4. MissingInv'
      BY <2>1, <2>3, <3>1 DEF MissingInv, WriteFacts
    <3>. QED
      BY <3>2, <3>3, <3>4 DEF KeptInv
  <2>4. ASSUME NEW r \in l[p].todo, ~(Succeeded(r) /\ Wanted(r)), UNCHANGED rows,
               l' = [l EXCEPT ![p].todo = @ \ {r}]
        PROVE  KeptInv'
    <3>1. /\ l' = [l EXCEPT ![p] = l'[p]] /\ l'[p].cohort = l[p].cohort
          /\ l'[p].task = l[p].task /\ l'[p].pc = "projecting"
          /\ l'[p].todo = l[p].todo \ {r} /\ UNCHANGED <<jobs, rows, scene>>
      BY <1>0, <1>8, <2>1, <2>4 DEF ProjectForRebuild, Local
    <3>2. CopiesAgree' /\ CastInv' /\ SeenInv'
      BY <1>0, <1>m, <2>1, <3>1, RebuildFrame
    <3>3. r \notin seen
      <4>1. BatchOf[r] \in Batches
        BY <2>1, SnapshotAssumption
      <4>. QED
        BY <1>0, <2>1, <2>4, <4>1 DEF SeenInv, CastInv, Succeeded, Wanted
    <3>4. MissingInv'
      BY <2>1, <3>1, <3>3 DEF MissingInv
    <3>. QED
      BY <3>2, <3>4 DEF KeptInv
  <2>. QED
    BY <1>8, <2>2, <2>3, <2>4 DEF ProjectForRebuild
<1>9. ASSUME ApplyNext(p) \/ CaptureNext(p) PROVE KeptInv'
  BY <1>0, <1>9, BetweenIsInner, KeptInner
<1>10. ASSUME EndRebuild(p) PROVE KeptInv'
  <2>1. /\ l[p].pc = "rebuilt" /\ l[p].cohort \in Cohort
        /\ l[p].cohort.enabled = cohort.enabled
    BY <1>0, <1>10, <1>c, KeptRole DEF EndRebuild, At, NeedsOf
  <2>2. cohort'.enabled = cohort.enabled /\ cohort'.mat = "ready"
    BY <1>10, <2>1 DEF EndRebuild, UpsertCohort, Cohort
  <2>3. Finish(p) /\ UNCHANGED <<jobs, state, facts, seen, used>>
    BY <1>10 DEF EndRebuild
  <2>. QED
    BY <1>0, <2>1, <2>2, <2>3, KeptEnd
<1>. QED
  BY <1>1, <1>2, <1>4, <1>5, <1>6, <1>7, <1>8, <1>9, <1>10 DEF RebuildStep

LEMMA KeptRepair == ASSUME TypeInv, KeptInv, Kept, RepairStep PROVE KeptInv'
<1>. USE DEF jobs, rows, scene
<1>0. /\ Repair \in Procs /\ l \in [Procs -> Local] /\ l[Repair] \in Local /\ RepairAt(l[Repair])
      /\ NeedsOf(l[Repair]) /\ SnapshotTypeOK /\ cohort \in Cohort /\ cohort.enabled \in BOOLEAN
      /\ CopiesAgree /\ CastInv /\ SeenInv /\ MissingInv
  BY WhoIsWho, Holds DEF Placed, TypeInv, SnapshotTypeOK, KeptInv, Cohort
<1>f. ASSUME l' = [l EXCEPT ![Repair] = l'[Repair]]
      PROVE  (\A q \in Procs : q # Repair => l'[q] = l[q]) /\ l'[Admin] = l[Admin]
             /\ \A w \in Workers : l'[w] = l[w]
  BY <1>0, <1>f, WhoIsWho
<1>1. ASSUME BeginRepair PROVE KeptInv'
  <2>1. l[Repair].pc = "boot" /\ "crash" \in used /\ used \cap {"fault", "rebuild", "enable"} = {}
        /\ (cohort.enabled => cohort.mat = "ready")
    <3>1. l[Repair].pc = "boot"
      BY <1>1 DEF BeginRepair, At
    <3>. QED
      BY <1>0, <3>1, KeptRole DEF CastInv
  <2>2. /\ l' = [l EXCEPT ![Repair] = l'[Repair]] /\ UNCHANGED <<jobs, rows, scene>>
        /\ cohort.enabled =>
              /\ l'[Repair].cohort = cohort /\ l'[Repair].task = "catchup"
              /\ l'[Repair].todo \subseteq {r \in Runs : run[r] # "none"}
              /\ l'[Repair].pc = "catchup"
        /\ ~cohort.enabled =>
              l'[Repair].cohort = NoSnap /\ l'[Repair].task = "rebuild" /\ l'[Repair].pc = "lookup"
    BY <1>0, <1>1, <2>1 DEF BeginRepair, Idle
  <2>3. CopiesAgree'
    BY <1>0, <1>f, <2>2 DEF CopiesAgree, HasCopy
  <2>4. CastInv'
    BY <1>0, <1>f, <2>1, <2>2, WhoIsWho DEF CastInv
  <2>5. SeenInv'
    BY <1>0, <1>f, <2>2 DEF SeenInv, HasBatch
  <2>6. MissingInv'
    BY <1>0, <1>f, <2>2 DEF MissingInv
  <2>. QED
    BY <2>3, <2>4, <2>5, <2>6 DEF KeptInv
<1>2. ASSUME NEW r \in Runs, CatchUpRun(r) PROVE KeptInv'
  <2>1. /\ l[Repair].pc = "catchup" /\ l[Repair].task = "catchup" /\ l[Repair].cohort \in Cohort
        /\ r \in l[Repair].todo /\ l[Repair].todo \subseteq Runs
    BY <1>0, <1>2 DEF CatchUpRun, At, RepairAt, RebuildAt, Calling, Applying, Aggregating,
       Capturing, Clearing
  <2>2. HasCopy(l[Repair])
    BY <2>1, SnapshotAssumption DEF HasCopy
  <2>3. cohort.enabled /\ l[Repair].cohort.enabled /\ "crash" \in used /\ run[r] # "none"
    BY <1>0, <2>1, <2>2, KeptRole DEF SeenInv
  <2>4. /\ l' = [l EXCEPT ![Repair] = l'[Repair]] /\ UNCHANGED <<jobs, scene, cohort>>
        /\ l'[Repair].cohort = l[Repair].cohort /\ l'[Repair].task = "catchup"
        /\ l'[Repair].pc \in {"find", "catchup"} /\ l'[Repair].todo = l[Repair].todo \ {r}
    BY <1>0, <1>2, <2>1 DEF CatchUpRun, WriteFacts, Local
  <2>5. \/ UNCHANGED <<state, facts, seen>>
        \/ /\ state' = state \cup {r} /\ facts' = facts \cup {r} /\ seen' = seen \cup {r}
           /\ HasBatch(BatchOf[r])
    BY <1>2 DEF CatchUpRun, WriteFacts, Wanted
  <2>6. CopiesAgree'
    BY <1>0, <1>f, <2>1, <2>3, <2>4 DEF CopiesAgree, HasCopy
  <2>7. CastInv'
    BY <1>0, <1>f, <2>1, <2>3, <2>4, WhoIsWho DEF CastInv
  <2>8. SeenInv'
    BY <1>0, <1>f, <2>1, <2>3, <2>4, <2>5 DEF SeenInv, HasBatch
  <2>9. MissingInv'
    BY <1>0, <1>f, <2>4, <2>5 DEF MissingInv
  <2>. QED
    BY <2>6, <2>7, <2>8, <2>9 DEF KeptInv
<1>3. ASSUME CaughtUp PROVE KeptInv'
  BY <1>0, <1>3, BetweenIsInner, KeptInner
<1>4. ASSUME EndCatchUp PROVE KeptInv'
  <2>1. l[Repair].pc = "catchup" /\ l[Repair].cohort \in Cohort
    BY <1>0, <1>4 DEF EndCatchUp, At, NeedsOf
  <2>2. l[Repair].cohort.enabled = cohort.enabled
    BY <2>1, KeptRole, SnapshotAssumption DEF HasCopy
  <2>3. cohort' = cohort \/ (cohort'.enabled = cohort.enabled /\ cohort'.mat = "ready")
    BY <1>4, <2>1, <2>2 DEF EndCatchUp, UpsertCohort, Cohort
  <2>4. Finish(Repair) /\ UNCHANGED <<jobs, state, facts, seen, used>>
    BY <1>4 DEF EndCatchUp
  <2>5. used' \cap {"fault", "rebuild", "enable"} = {} /\ cohort.enabled => cohort'.mat = "ready"
    BY <1>0, <2>3, <2>4 DEF CastInv
  <2>. QED
    BY <1>0, <2>3, <2>4, <2>5, KeptEnd, WhoIsWho
<1>. QED
  BY <1>1, <1>2, <1>3, <1>4 DEF RepairStep

\* A request begins: the administrator was idle.
LEMMA KeptRequest ==
    ASSUME TypeInv, KeptInv, l[Admin].pc = "idle", l' = [l EXCEPT ![Admin] = l'[Admin]],
           UNCHANGED <<jobs, rows>>, used \subseteq used',
           l'[Admin].task \in {"rebuild", "rematerialize", "retire", "purge"},
           l'[Admin].task = "rebuild" => used' \cap {"rebuild", "enable"} # {},
           l'[Admin].pc \in {"lookup", "patch"} => l'[Admin].task = "rebuild",
           l'[Admin].pc = "patch" => ~cohort.enabled /\ ~l'[Admin].cohort.enabled,
           l'[Admin].cohort = NoSnap \/ l'[Admin].pc = "patch"
    PROVE  KeptInv'
<1>. USE DEF jobs, rows
<1>0. (\A q \in Procs : q # Admin => l'[q] = l[q]) /\ l'[Repair] = l[Repair]
      /\ \A w \in Workers : l'[w] = l[w]
  BY Holds, WhoIsWho
<1>1. CopiesAgree'
  BY <1>0 DEF KeptInv, CopiesAgree, HasCopy
<1>2. CastInv'
  BY <1>0, WhoIsWho DEF KeptInv, CastInv
<1>3. SeenInv'
  BY <1>0 DEF KeptInv, SeenInv, HasBatch
<1>4. MissingInv'
  BY <1>0 DEF KeptInv, MissingInv
<1>. QED
  BY <1>1, <1>2, <1>3, <1>4 DEF KeptInv

LEMMA KeptAdmin ==
    ASSUME TypeInv, TypeInv', KeptInv, Kept, Kept', AdminStep PROVE KeptInv'
<1>. USE DEF jobs, rows
<1>0. /\ Admin \in Procs /\ l \in [Procs -> Local] /\ l[Admin] \in Local /\ AdminAt(l[Admin])
      /\ NeedsOf(l[Admin]) /\ SnapshotTypeOK /\ cohort \in Cohort /\ cohort.enabled \in BOOLEAN
      /\ CopiesAgree /\ CastInv /\ SeenInv /\ MissingInv
  BY WhoIsWho, Holds DEF Placed, TypeInv, SnapshotTypeOK, KeptInv, Cohort
<1>d. ASSUME NEW d, Disturb(d) PROVE used \subseteq used' /\ used' = {d} /\ d \notin {"clear", "disable"}
  BY <1>d, FirstOne DEF Kept, Disturb
<1>1. ASSUME RequestRebuild PROVE KeptInv'
  <2>1. /\ l' = [l EXCEPT ![Admin] = l'[Admin]] /\ UNCHANGED <<jobs, rows>> /\ l[Admin].pc = "idle"
        /\ l'[Admin].task = "rebuild" /\ l'[Admin].pc = "lookup" /\ l'[Admin].cohort = NoSnap
    BY <1>0, <1>1 DEF RequestRebuild, At, Idle
  <2>2. used \subseteq used' /\ used' = {"rebuild"}
    BY <1>1, <1>d DEF RequestRebuild
  <2>. QED
    BY <2>1, <2>2, KeptRequest
<1>2. ASSUME RequestClear \/ RequestEnabled("disable", FALSE) PROVE KeptInv'
  BY <1>2, <1>d DEF RequestClear, RequestEnabled
<1>3. ASSUME RequestEnabled("enable", TRUE) PROVE KeptInv'
  <2>1. /\ l' = [l EXCEPT ![Admin] = l'[Admin]] /\ UNCHANGED <<jobs, rows>> /\ l[Admin].pc = "idle"
        /\ l'[Admin].task = "rebuild" /\ l'[Admin].pc = "patch" /\ l'[Admin].cohort = cohort
        /\ cohort.enabled # TRUE
    BY <1>0, <1>3 DEF RequestEnabled, At, Idle
  <2>2. used \subseteq used' /\ used' = {"enable"}
    BY <1>3, <1>d DEF RequestEnabled
  <2>3. ~cohort.enabled
    BY <1>0, <2>1
  <2>. QED
    BY <2>1, <2>2, <2>3, KeptRequest
<1>4. ASSUME PatchCohort PROVE KeptInv'
  <2>1. /\ l[Admin].pc = "patch" /\ l[Admin].task = "rebuild" /\ l[Admin].cohort \in Cohort
        /\ ~cohort.enabled /\ used \cap {"rebuild", "enable"} # {} /\ "crash" \notin used
        /\ l[Repair].pc = "idle" /\ l[Repair].task = "none"
    <3>1. l[Admin].pc = "patch" /\ l[Admin].cohort \in Cohort
      BY <1>0, <1>4 DEF PatchCohort, At, NeedsOf
    <3>2. l[Admin].task = "rebuild" /\ ~cohort.enabled
      BY <1>0, <3>1 DEF CastInv
    <3>3. used \cap {"rebuild", "enable"} # {} /\ "crash" \notin used
      BY <3>2, KeptRole
    <3>4. l[Repair].pc = "idle"
      BY <1>0, <3>3 DEF CastInv
    <3>5. l[Repair].task = "none"
      BY <3>4, WhoIsWho, Holds DEF Placed, RepairAt, RebuildAt, Calling, Applying, Aggregating,
         Capturing, Clearing
    <3>. QED
      BY <3>1, <3>2, <3>3, <3>4, <3>5
  <2>2. /\ l' = [l EXCEPT ![Admin] = l'[Admin]] /\ l'[Admin].task = "rebuild" /\ l'[Admin].pc = "lookup"
        /\ UNCHANGED <<jobs, state, facts, seen, used>>
    BY <1>0, <1>4, <2>1 DEF PatchCohort, Goto, Local, scene
  <2>3. cohort'.enabled
    BY <1>4, <2>1 DEF PatchCohort, Cohort
  <2>4. \A q \in Procs : q # Admin => l'[q] = l[q] /\ ~HasCopy(l[q])
    <3>1. \A q \in Procs : HasCopy(l[q]) => l[q].task = "clear"
      BY <1>0, <2>1 DEF CopiesAgree
    <3>2. \A w \in Workers : l[w].task # "clear"
      BY WhoIsWho, Holds DEF Placed, WorkerAt
    <3>3. l[Loop].task # "clear"
      BY WhoIsWho, Holds DEF Placed, LoopAt
    <3>. QED
      BY <1>0, <2>1, <2>2, <3>1, <3>2, <3>3 DEF Procs
  <2>5. l'[Repair] = l[Repair] /\ \A w \in Workers : l'[w] = l[w]
    BY <2>4, WhoIsWho
  <2>6. CopiesAgree'
    BY <2>2, <2>4 DEF CopiesAgree, HasCopy
  <2>7. CastInv'
    BY <1>0, <2>1, <2>2, <2>3, <2>5, WhoIsWho DEF CastInv
  <2>8. SeenInv' /\ MissingInv'
    BY <1>0, <2>1, <2>2, <2>3, <2>5 DEF SeenInv, MissingInv, HasBatch
  <2>. QED
    BY <2>6, <2>7, <2>8 DEF KeptInv
<1>5. ASSUME NEW b \in Batches, RequestRematerialize(b) \/ RequestRetire(b) \/ RequestPurge(b)
      PROVE  KeptInv'
  <2>1. /\ l' = [l EXCEPT ![Admin] = l'[Admin]] /\ UNCHANGED <<jobs, rows>> /\ l[Admin].pc = "idle"
        /\ l'[Admin].task \in {"rematerialize", "retire", "purge"}
        /\ l'[Admin].pc \in {"overview", "rewrite", "purge"} /\ l'[Admin].cohort = NoSnap
    <3>1. CASE RequestRematerialize(b)
      BY <1>0, <3>1 DEF RequestRematerialize, At, Idle
    <3>2. CASE RequestRetire(b)
      BY <1>0, <3>2 DEF RequestRetire, At, Idle
    <3>3. CASE RequestPurge(b)
      BY <1>0, <3>3 DEF RequestPurge, At, Idle
    <3>. QED
      BY <1>5, <3>1, <3>2, <3>3
  <2>2. used \subseteq used'
    BY <1>5, <1>d DEF RequestRematerialize, RequestRetire, RequestPurge
  <2>. QED
    BY <2>1, <2>2, KeptRequest
<1>6. ASSUME NEW b \in Batches, RequestIntent(b) PROVE KeptInv'
  <2>1. UNCHANGED <<sub, job, run, rows, l>> /\ used \subseteq used' /\ used' = {"intent"}
    BY <1>6, <1>d DEF RequestIntent
  <2>. QED
    BY <1>0, <2>1 DEF KeptInv, CopiesAgree, CastInv, SeenInv, MissingInv, HasCopy, HasBatch
<1>7. ASSUME RewriteRow \/ PurgeRow PROVE KeptInv'
  <2>1. Finish(Admin) /\ UNCHANGED <<jobs, state, facts, seen, cohort, used>>
        /\ l[Admin].pc \in {"rewrite", "purge"}
    BY <1>7 DEF RewriteRow, PurgeRow, At, scene
  <2>2. used \cap {"fault", "rebuild", "enable"} = {} /\ cohort.enabled => cohort.mat = "ready"
    BY <1>0 DEF CastInv
  <2>. QED
    BY <1>0, <2>1, <2>2, KeptEnd
<1>. QED
  BY <1>1, <1>2, <1>3, <1>4, <1>5, <1>6, <1>7 DEF AdminStep

LEMMA KeptFault ==
    ASSUME TypeInv, TypeInv', KeptInv, Kept, Kept', NEW p \in Procs \ {Admin}, StoreFault(p)
    PROVE  KeptInv'
<1>1. used \subseteq used' /\ used' = {"fault"}
  BY FirstOne DEF StoreFault, Kept, Disturb
<1>2. l[p].task \in {"rebuild", "catchup"} \/ l[p].pc = "project" => l[p].cohort \in Cohort
  BY FaultCopy
<1>3. cohort'.enabled = cohort.enabled
  <2>1. CASE l[p].task \in {"rebuild", "catchup"} \/ l[p].pc = "project"
    <3>1. HasCopy(l[p])
      BY <1>2, <2>1, SnapshotAssumption DEF StoreFault, HasCopy
    <3>2. l[p].cohort.enabled = cohort.enabled
      BY <3>1 DEF KeptInv, CopiesAgree
    <3>. QED
      BY <1>2, <2>1, <3>2 DEF StoreFault, At, Cohort
  <2>2. CASE ~(l[p].task \in {"rebuild", "catchup"} \/ l[p].pc = "project")
    BY <2>2 DEF StoreFault, At
  <2>. QED
    BY <2>1, <2>2
<1>4. Finish(p) /\ UNCHANGED <<sub, wanted, run, state, facts, seen>> /\ p # Admin
  BY DEF StoreFault, jobs
<1>. QED
  BY <1>1, <1>3, <1>4, KeptEnd

LEMMA KeptGraduateFails ==
    ASSUME TypeInv, TypeInv', KeptInv, Kept', NEW w \in Workers, GraduateFails(w) PROVE KeptInv'
<1>1. w \in Procs /\ w # Admin /\ used \subseteq used' /\ used' = {"fault"}
  BY FirstOne, WhoIsWho DEF GraduateFails, Kept, Disturb
<1>2. Finish(w) /\ UNCHANGED <<sub, wanted, run, state, facts, seen, cohort>>
  BY DEF GraduateFails, rows
<1>. QED
  BY <1>1, <1>2, KeptEnd

LEMMA FindFailsIsInner == ASSUME TypeInv, NEW p \in Procs, FindFails(p) PROVE Inner(p)
<1>1. l \in [Procs -> Local] /\ l[p] \in Local
  BY Holds
<1>2. /\ l' = [l EXCEPT ![p] = l'[p]] /\ l[p].pc = "find" /\ l'[p].pc = "count"
      /\ l'[p].cohort = l[p].cohort /\ l'[p].task = l[p].task /\ l'[p].run = l[p].run
      /\ l'[p].todo = l[p].todo
  BY <1>1 DEF FindFails, At, Local
<1>. QED
  BY <1>2 DEF FindFails, Disturb, rows, Inner, Calling, Applying

LEMMA KeptCrash ==
    ASSUME TypeInv, TypeInv', JobInv, KeptInv, Kept, Kept', Crash PROVE KeptInv'
<1>. USE DEF rows
<1>1. used \subseteq {"crash"} /\ used' = {"crash"}
  BY FirstOne DEF Crash, Kept
<1>2. \A p \in Procs : l'[p].cohort = NoSnap /\ l'[p].task = "none" /\ l'[p].pc \in {"idle", "boot"}
  BY DEF Crash, Idle
<1>3. /\ UNCHANGED <<wanted, state, facts, seen, cohort>>
      /\ \A r \in Runs : run[r] # "none" => run'[r] = run[r]
      /\ \A b \in Batches : HasBatch(b) => HasBatch(b)'
  BY DEF Crash, JobInv, HasBatch
<1>4. l[Admin].task # "rebuild" /\ l[Admin].pc # "projecting"
  <2>1. l[Admin].task # "rebuild"
    BY <1>1 DEF KeptInv, CastInv
  <2>. QED
    BY <2>1, WhoIsWho, Holds DEF Placed, AdminAt, RebuildAt, Calling, Applying, Aggregating,
       Capturing, Clearing
<1>5. CopiesAgree'
  BY <1>2 DEF CopiesAgree, HasCopy
<1>6. CastInv'
  BY <1>1, <1>2, <1>3, WhoIsWho DEF KeptInv, CastInv
<1>7. SeenInv'
  <2>1. seen \subseteq Runs /\ \A r \in Runs : BatchOf[r] \in Batches
    BY SnapshotAssumption DEF TypeInv, SnapshotTypeOK
  <2>. QED
    BY <1>1, <1>2, <1>3, <2>1, WhoIsWho DEF KeptInv, SeenInv
<1>8. MissingInv'
  BY <1>3, <1>4 DEF KeptInv, MissingInv
<1>. QED
  BY <1>5, <1>6, <1>7, <1>8 DEF KeptInv

KeptCore == TypeInv /\ JobInv /\ (Kept => KeptInv)

LEMMA UsedGrows == [Next]_vars => used \subseteq used'
<1>1. ASSUME NEW d, Disturb(d) PROVE used \subseteq used'
  BY <1>1 DEF Disturb
<1>2. ASSUME NEW p \in Procs, StoreFault(p) \/ FindFails(p) \/ GraduateFails(p)
      PROVE  used \subseteq used'
  BY <1>1, <1>2 DEF StoreFault, FindFails, GraduateFails
<1>3. ASSUME AdminStep PROVE used \subseteq used'
  BY <1>1, <1>3 DEF AdminStep, RequestRebuild, RequestClear, RequestEnabled, PatchCohort,
     RequestRematerialize, RequestRetire, RequestPurge, RequestIntent, RewriteRow, PurgeRow, scene
<1>4. ASSUME Crash PROVE used \subseteq used'
  BY <1>1, <1>4 DEF Crash
<1>5. ASSUME NEW w \in Workers, WorkerStep(w) PROVE used \subseteq used'
  BY <1>5 DEF WorkerStep, TakeJob, EndJob, GraduateJob, LoadRun, ProjectLoaded, StampCohort, scene
<1>6. ASSUME NEW p \in Procs, ApplySnapshotState(p) \/ MaterializeSnapshot(p) \/ CaptureSnapshot(p)
      PROVE  used \subseteq used'
  BY <1>6 DEF ApplySnapshotState, FindSnapshot, CountRuns, StoreSnapshot, MaterializeSnapshot,
     Compute, ReplaceOverview, ReplaceViews, CaptureSnapshot, CheckOutstanding, CheckUnprojected,
     Check, TallyRuns, PromoteToCaptured, scene
<1>7. ASSUME NEW p \in {Admin, Repair}, RebuildStep(p) PROVE used \subseteq used'
  BY <1>7 DEF RebuildStep, LookupCohort, SetPending, ClearState, ClearFacts, ClearSnapshots,
     EndClear, ListRuns, ProjectForRebuild, ApplyNext, CaptureNext, EndRebuild, scene
<1>8. ASSUME SubmitStep \/ ListPending \/ NextPending \/ RepairStep PROVE used \subseteq used'
  BY <1>8 DEF SubmitStep, CreateJob, CreateBatch, ListPending, NextPending, RepairStep,
     BeginRepair, CatchUpRun, CaughtUp, EndCatchUp, scene
<1>. QED
  BY <1>2, <1>3, <1>4, <1>5, <1>6, <1>7, <1>8, WhoIsWho DEF Next, vars, scene

LEMMA KeptStep == KeptCore /\ [Next]_vars => KeptCore'
<1>. SUFFICES ASSUME KeptCore, [Next]_vars PROVE KeptCore'
  OBVIOUS
<1>1. TypeInv /\ TypeInv' /\ JobInv /\ JobInv'
  BY TypeStep, JobStep DEF KeptCore
<1>2. ASSUME Kept' PROVE KeptInv'
  <2>1. Kept /\ KeptInv
    BY <1>1, <1>2, UsedGrows, StillUntouched DEF KeptCore, Kept
  <2>2. CASE UNCHANGED vars
    BY <2>1, <2>2 DEF vars, jobs, rows, scene, KeptInv, CopiesAgree, CastInv, SeenInv, MissingInv,
       HasCopy, HasBatch
  <2>3. ASSUME NEW p \in Procs, ApplySnapshotState(p) \/ MaterializeSnapshot(p) \/ CaptureSnapshot(p)
        PROVE  KeptInv'
    BY <1>1, <2>1, <2>3, ApplyIsInner, MaterializeIsInner, CaptureIsInner, KeptInner
  <2>4. ASSUME NEW p \in Procs, FindFails(p) PROVE KeptInv'
    BY <1>1, <2>1, <2>4, FindFailsIsInner, KeptInner
  <2>. QED
    BY <1>1, <1>2, <2>1, <2>2, <2>3, <2>4, KeptSubmit, KeptWorker, KeptLoop, KeptRebuild, KeptRepair,
       KeptAdmin, KeptFault, KeptGraduateFails, KeptCrash DEF Next
<1>. QED
  BY <1>1, <1>2 DEF KeptCore

LEMMA KeptStart == Init => KeptCore
<1>. SUFFICES ASSUME Init PROVE KeptCore
  OBVIOUS
<1>1. PICK s \in Scenarios : InitScene(s)
  BY DEF Init
<1>2. s.enabled \in BOOLEAN /\ s.warm \subseteq Runs
  BY SnapshotAssumption
<1>3. \A p \in Procs : l[p].pc = "idle" /\ l[p].task = "none" /\ l[p].cohort = NoSnap
  BY DEF Init, Idle
<1>4. \A r \in Runs : /\ run[r] = IF r \in s.warm THEN "succeeded" ELSE "none"
                      /\ r \in s.warm => job[r] = "done"
                      /\ r \notin s.warm => job[r] \in {"none", "open"}
  <2>1. \A r \in Runs : run[r] = IF r \in s.warm THEN "succeeded" ELSE "none"
    BY <1>1 DEF InitScene
  <2>2. \A r \in Runs : r \in s.warm => job[r] = "done"
    <3>1. \A r \in Runs : r \in RunsOf(BatchOf[r])
      BY DEF RunsOf
    <3>. QED
      BY <1>1, <3>1 DEF InitScene
  <2>3. \A r \in Runs : r \notin s.warm => job[r] \in {"none", "open"}
    BY <1>1 DEF InitScene
  <2>. QED
    BY <2>1, <2>2, <2>3
<1>5. \A b \in Batches : sub[b] = "done" <=> s.warm \cap RunsOf(b) # {}
  BY <1>1 DEF InitScene
<1>6. \A r \in Runs : r \notin s.warm /\ s.warm \cap RunsOf(BatchOf[r]) # {} => job[r] = "open"
  BY <1>1, SnapshotAssumption DEF InitScene
<1>7. JobInv
  <2>1. \A b \in Batches : \A r \in RunsOf(b) : r \in Runs /\ BatchOf[r] = b
    BY DEF RunsOf
  <2>. QED
    BY <1>3, <1>4, <1>5, <1>6, <2>1, WhoIsWho DEF JobInv
<1>8. CopiesAgree
  BY <1>3 DEF CopiesAgree, HasCopy
<1>9. cohort.enabled = s.enabled /\ (s.enabled => cohort.mat = "ready")
      /\ seen = (IF s.enabled THEN s.warm ELSE {}) /\ facts = seen /\ state = seen
  BY <1>1 DEF InitScene
<1>10. CastInv
  BY <1>2, <1>3, <1>9, WhoIsWho DEF CastInv, Init
<1>11. SeenInv
  <2>1. \A r \in seen : r \in s.warm /\ r \in RunsOf(BatchOf[r]) /\ BatchOf[r] \in Batches
    BY <1>2, <1>9, SnapshotAssumption DEF RunsOf
  <2>2. \A r \in seen : HasBatch(BatchOf[r])
    BY <1>5, <2>1 DEF HasBatch
  <2>. QED
    BY <1>2, <1>3, <1>4, <1>9, <2>1, <2>2, WhoIsWho DEF SeenInv
<1>12. MissingInv
  BY <1>9 DEF MissingInv
<1>. QED
  BY <1>7, <1>8, <1>10, <1>11, <1>12, TypeInit DEF KeptCore, KeptInv

\* RebuildCohort puts back all that it deleted and that was projected meanwhile,
\* and the repair pass deletes nothing that was projected.
THEOREM ProjectedIsKept == Spec => []FactsKept
<1>1. KeptCore => FactsKept
  <2>. SUFFICES ASSUME KeptCore, Quiet, Kept PROVE seen \subseteq facts \cap state
    BY DEF FactsKept, Kept
  <2>1. l[Admin] = Idle /\ Idle.pc = "idle"
    BY WhoIsWho DEF Quiet, Idle
  <2>. QED
    BY <2>1 DEF KeptCore, KeptInv, MissingInv
<1>. QED
  BY <1>1, KeptStart, KeptStep, PTL DEF Spec

-----------------------------------------------------------------------------
(* A captured snapshot is whole.                                           *)

\* What is so of a batch stays so.
Grows ==
    /\ seen # {} => seen' # {}
    /\ \A b \in Batches :
          /\ HasBatch(b) => HasBatch(b)'
          /\ Done(b) => Done(b)' /\ Graduated(b)' = Graduated(b)
          /\ Full(b) => Full(b)'
          /\ OverviewWhole(b) => OverviewWhole(b)'
          /\ ViewsWhole(b) => ViewsWhole(b)'
          /\ \A row \in Row : Same(b, row) => Same(b, row)'

\* The same of jobs, batches and projections only.
JobsGrow ==
    /\ seen \subseteq seen'
    /\ \A r \in Runs : job[r] \in {"done", "parked"} => job'[r] = job[r]
    /\ \A b \in Batches : HasBatch(b) => HasBatch(b)'

LEMMA GrowsWhen ==
    ASSUME JobsGrow, UNCHANGED <<snaps, overview, views>> \/ \A b \in Batches : snaps[b] = NoSnap
    PROVE  Grows
<1>1. (seen # {} => seen' # {}) /\ \A b \in Batches : HasBatch(b) => HasBatch(b)'
  BY DEF JobsGrow
<1>5. \A b \in Batches : Done(b) => Done(b)' /\ Graduated(b)' = Graduated(b)
  BY DEF JobsGrow, Done, Graduated, RunsOf
<1>2. \A b \in Batches : Full(b) => Full(b)'
  BY <1>5 DEF JobsGrow, Full
<1>3. \A b \in Batches : (OverviewWhole(b) => OverviewWhole(b)') /\ (ViewsWhole(b) => ViewsWhole(b)')
  BY <1>5 DEF OverviewWhole, ViewsWhole
<1>4. \A b \in Batches : \A row \in Row : Same(b, row) => Same(b, row)'
  BY DEF Same
<1>. QED
  BY <1>1, <1>2, <1>3, <1>4, <1>5 DEF Grows

\* What a call has established stays so.
LEMMA CallStays ==
    ASSUME Grows, NEW v \in Local, NeedsOf(v), CallOK(v)
    PROVE  CallOK(v)'
<1>1. /\ v.pc \in Calling => v.batch \in Batches
      /\ v.pc \in {"upsert"} \cup Aggregating \cup Capturing => v.snap \in Row
      /\ v.snap \in Row \cup {NoSnap}
  BY DEF NeedsOf, Local
<1>2. v.pc \in Calling => HasBatch(v.batch)' /\ (seen # {})'
  BY <1>1 DEF CallOK, Grows
<1>3. v.pc = "count" /\ v.snap # NoSnap =>
        Same(v.batch, v.snap)'
        /\ (v.snap.status = "captured" => Full(v.batch)' /\ OverviewWhole(v.batch)' /\ ViewsWhole(v.batch)')
  BY <1>1 DEF CallOK, Grows, Aggregated, Calling, Applying
<1>4. v.pc = "upsert" /\ v.snap.status = "captured" =>
        /\ Same(v.batch, v.snap)' /\ Full(v.batch)' /\ OverviewWhole(v.batch)' /\ ViewsWhole(v.batch)'
        /\ v.snap.runs = Graduated(v.batch)'
  BY <1>1 DEF CallOK, Grows, Aggregated, Full, Calling, Applying
<1>5. v.pc \in Aggregating \cup Capturing => Same(v.batch, v.snap)'
  BY <1>1 DEF CallOK, Grows, Calling
<1>6. /\ v.pc \in Aggregating \cup {"tally", "promote"} => Full(v.batch)'
      /\ v.pc = "unprojected" => Done(v.batch)'
      /\ v.pc \in {"views", "write views"} => OverviewWhole(v.batch)'
      /\ v.pc = "promote" => OverviewWhole(v.batch)' /\ ViewsWhole(v.batch)'
  BY <1>1 DEF CallOK, Grows, Aggregated, Calling, Capturing, Aggregating
<1>7. /\ v.pc \in {"write overview", "write views"} => v.held = Graduated(v.batch)'
      /\ v.pc = "promote" \/ (v.pc \in Aggregating /\ v.after = "promote") =>
            v.snap.runs = Graduated(v.batch)'
  <2>1. v.pc \in Aggregating \cup {"promote"} => Done(v.batch) /\ v.batch \in Batches
    BY <1>1 DEF CallOK, Full, Calling, Capturing
  <2>2. v.pc \in Aggregating \cup {"promote"} => Graduated(v.batch)' = Graduated(v.batch)
    BY <2>1 DEF Grows
  <2>. QED
    BY <2>2 DEF CallOK, Aggregating
<1>. QED
  BY <1>2, <1>3, <1>4, <1>5, <1>6, <1>7 DEF CallOK, Aggregated

\* The calls of the processes that do not move stay justified.
LEMMA CallFrame ==
    ASSUME TypeInv, CallInv, Grows, NEW p \in Procs, l' = [l EXCEPT ![p] = l'[p]],
           CallOK(l[p])', (\A i \in l[Loop].todo : Same(i.batch, i.snap))'
    PROVE  CallInv'
<1>1. \A v \in Local : NeedsOf(v) /\ CallOK(v) => CallOK(v)'
  BY CallStays
<1>2. ASSUME NEW q \in Procs, q # p PROVE CallOK(l[q])'
  <2>1. l'[q] = l[q] /\ l[q] \in Local /\ NeedsOf(l[q]) /\ CallOK(l[q])
    BY <1>2, Holds DEF Placed, CallInv
  <2>. QED
    BY <1>1, <2>1
<1>. QED
  BY <1>2 DEF CallInv

\* The rows and the snapshots that are captured, while no row is written.
LEMMA RowsFrame ==
    ASSUME RowsInv, CapturedInv, JobsGrow, UNCHANGED <<snaps, nextId, overview, views>>
    PROVE  RowsInv' /\ CapturedInv'
<1>1. Grows
  BY GrowsWhen
<1>2. RowsInv'
  BY DEF RowsInv, JobsGrow
<1>3. CapturedInv'
  BY <1>1 DEF CapturedInv, Captured, Grows, Aggregated, Full
<1>. QED
  BY <1>2, <1>3

\* A process moves on, out of or beside the calls, and writes no row.
LEMMA WholeFrame ==
    ASSUME TypeInv, WholeInv, NEW p \in Procs, l' = [l EXCEPT ![p] = l'[p]],
           JobsGrow, UNCHANGED <<snaps, nextId, overview, views>>,
           CallOK(l[p])', p = Loop => (\A i \in l[Loop].todo : Same(i.batch, i.snap))',
           p = Admin => RetireInv'
    PROVE  WholeInv'
<1>1. RowsInv /\ RetireInv /\ CapturedInv /\ CallInv
  BY DEF WholeInv
<1>2. Grows
  BY GrowsWhen
<1>3. RowsInv' /\ CapturedInv'
  BY <1>1, RowsFrame
<1>4. p # Loop => (\A i \in l[Loop].todo : Same(i.batch, i.snap))'
  <2>1. p # Loop => l'[Loop] = l[Loop]
    BY Holds, WhoIsWho
  <2>. QED
    BY <1>1, <2>1 DEF CallInv, Same
<1>5. CallInv'
  BY <1>1, <1>2, <1>4, CallFrame
<1>6. RetireInv'
  <2>1. p # Admin => l'[Admin] = l[Admin]
    BY Holds, WhoIsWho
  <2>. QED
    BY <1>1, <2>1 DEF RetireInv
<1>. QED
  BY <1>3, <1>5, <1>6 DEF WholeInv

\* Nothing is claimed of a process outside the calls.
LEMMA OutOfCall == ASSUME NEW p \in Procs, l'[p].pc \notin Calling PROVE CallOK(l[p])'
  BY DEF CallOK, Calling, Applying, Aggregating, Capturing

\* UpsertAnalysisCohortSnapshot: a row that is written captured covers its batch.
LEMMA Upserts ==
    ASSUME TypeInv, RowsInv, CapturedInv, NEW b \in Batches, NEW row \in Row, UpsertSnapshot(b, row),
           HasBatch(b), seen # {},
           row.status = "captured" =>
               snaps[b] # NoSnap /\ Full(b) /\ Aggregated(b) /\ row.runs = Graduated(b),
           UNCHANGED <<sub, job, seen, overview, views>>
    PROVE  /\ RowsInv' /\ CapturedInv' /\ Grows
           /\ \A c \in Batches : snaps[c] # NoSnap => snaps'[c] # NoSnap
<1>1. snaps \in [Batches -> Row \cup {NoSnap}] /\ nextId \in Nat /\ NoSnap \notin Row
      /\ \A r \in Row : r.id \in Nat
  BY SnapshotAssumption DEF TypeInv, SnapshotTypeOK, Row
<1>. DEFINE new == [row EXCEPT !.id = IF snaps[b] = NoSnap THEN nextId ELSE snaps[b].id]
<1>2. /\ \A c \in Batches : snaps'[c] = IF c = b THEN new ELSE snaps[c]
      /\ nextId' = IF snaps[b] = NoSnap THEN nextId + 1 ELSE nextId
  BY <1>1 DEF UpsertSnapshot
<1>3. /\ new \in Row /\ new # NoSnap /\ new.status = row.status /\ new.runs = row.runs
      /\ new.id = IF snaps[b] = NoSnap THEN nextId ELSE snaps[b].id
  BY <1>1 DEF Row
<1>. HIDE DEF new
<1>4. \A c \in Batches : snaps[c] # NoSnap => snaps'[c] # NoSnap /\ snaps'[c].id = snaps[c].id
  BY <1>2, <1>3
<1>5. RowsInv'
  <2>1. \A c \in Batches : snaps[c] # NoSnap => snaps[c].id \in Nat
    BY <1>1
  <2>2. \A c \in Batches : snaps'[c] # NoSnap => snaps'[c].id < nextId' /\ HasBatch(c)'
    BY <1>1, <1>2, <1>3, <2>1 DEF RowsInv, HasBatch
  <2>3. \A c, d \in Batches : snaps'[c] # NoSnap /\ snaps'[d] # NoSnap
                              /\ snaps'[c].id = snaps'[d].id => c = d
    BY <1>1, <1>2, <1>3, <2>1 DEF RowsInv
  <2>. QED
    BY <2>2, <2>3 DEF RowsInv
<1>6. Grows
  <2>0. \A c \in Batches : (Done(c) => Done(c)') /\ Graduated(c)' = Graduated(c)
    BY DEF Done, Graduated, RunsOf
  <2>1. \A c \in Batches : (HasBatch(c) => HasBatch(c)') /\ (Full(c) => Full(c)')
    BY <2>0 DEF HasBatch, Full
  <2>2. \A c \in Batches : (OverviewWhole(c) => OverviewWhole(c)') /\ (ViewsWhole(c) => ViewsWhole(c)')
    BY <1>4, <2>0 DEF OverviewWhole, ViewsWhole
  <2>3. \A c \in Batches : \A r \in Row : Same(c, r) => Same(c, r)'
    BY <1>4 DEF Same
  <2>. QED
    BY <2>0, <2>1, <2>2, <2>3 DEF Grows
<1>7. CapturedInv'
  <2>. SUFFICES ASSUME NEW c \in Batches, Captured(c)'
                PROVE  Full(c)' /\ OverviewWhole(c)' /\ ViewsWhole(c)' /\ snaps'[c].runs = Graduated(c)'
    BY DEF CapturedInv, Aggregated
  <2>1. CASE c = b
    <3>1. row.status = "captured"
      BY <1>2, <1>3, <2>1 DEF Captured
    <3>. QED
      BY <1>2, <1>3, <1>6, <2>1, <3>1 DEF Grows, Aggregated, Full
  <2>2. CASE c # b
    <3>1. Captured(c) /\ snaps'[c] = snaps[c]
      BY <1>2, <2>2 DEF Captured
    <3>. QED
      BY <1>6, <3>1 DEF CapturedInv, Grows, Aggregated, Full
  <2>. QED
    BY <2>1, <2>2
<1>. QED
  BY <1>4, <1>5, <1>6, <1>7

\* A process writes a row.
LEMMA WholeUpsert ==
    ASSUME TypeInv, WholeInv, NEW p \in Procs, l' = [l EXCEPT ![p] = l'[p]],
           NEW b \in Batches, NEW row \in Row, UpsertSnapshot(b, row),
           HasBatch(b), seen # {},
           row.status = "captured" =>
               snaps[b] # NoSnap /\ Full(b) /\ Aggregated(b) /\ row.runs = Graduated(b),
           UNCHANGED <<sub, job, seen, overview, views>>,
           CallOK(l[p])', p = Loop => l'[p].todo = l[p].todo,
           p = Admin => l'[p].pc = "idle"
    PROVE  WholeInv'
<1>1. RowsInv /\ RetireInv /\ CapturedInv /\ CallInv
  BY DEF WholeInv
<1>2. RowsInv' /\ CapturedInv' /\ Grows /\ \A c \in Batches : snaps[c] # NoSnap => snaps'[c] # NoSnap
  BY <1>1, Upserts
<1>3. l'[Loop].todo = l[Loop].todo
  BY Holds, WhoIsWho
<1>4. \A i \in l[Loop].todo : i.batch \in Batches /\ i.snap \in Row
  BY Holds, WhoIsWho DEF Placed, LoopAt, Item
<1>5. (\A i \in l[Loop].todo : Same(i.batch, i.snap))'
  BY <1>1, <1>2, <1>3, <1>4 DEF CallInv, Grows
<1>6. CallInv'
  BY <1>1, <1>2, <1>5, CallFrame
<1>7. RetireInv'
  <2>1. CASE p = Admin
    BY <2>1 DEF RetireInv
  <2>2. CASE p # Admin
    <3>1. l'[Admin] = l[Admin] /\ (l[Admin].pc = "rewrite" => l[Admin].batch \in Batches)
      BY <2>2, Holds, WhoIsWho DEF Placed, NeedsOf
    <3>. QED
      BY <1>1, <1>2, <3>1 DEF RetireInv
  <2>. QED
    BY <2>1, <2>2
<1>. QED
  BY <1>2, <1>6, <1>7 DEF WholeInv

\* While no cohort is rebuilt, what was projected is there.
LEMMA AllSeen ==
    ASSUME TypeInv, JobInv, KeptInv, Mild
    PROVE  /\ facts = seen /\ state = seen
           /\ \A b \in Batches : Full(b) => Counted(b) = Graduated(b)
<1>1. l[Admin].task # "rebuild"
  BY DEF KeptInv, CastInv, Mild, Untouched
<1>2. l[Admin].pc # "projecting"
  BY <1>1, WhoIsWho, Holds DEF Placed, AdminAt, RebuildAt, Calling, Applying, Aggregating,
     Capturing, Clearing
<1>3. facts = seen /\ state = seen
  BY <1>1, <1>2 DEF KeptInv, MissingInv, SeenInv
<1>4. \A r \in seen : r \in Runs /\ job[r] = "done"
  BY DEF KeptInv, SeenInv, JobInv, TypeInv, SnapshotTypeOK
<1>. QED
  BY <1>3, <1>4 DEF Full, Counted, Graduated

\* A call only reads.
LEMMA Reads ==
    ASSUME TypeInv, WholeInv, NEW p \in Procs, l' = [l EXCEPT ![p] = l'[p]],
           UNCHANGED <<jobs, rows>>, CallOK(l'[p]), l'[p].pc \in Calling \/ p # Loop,
           p = Loop => l'[p].todo \subseteq l[p].todo, p # Admin
    PROVE  WholeInv'
<1>. USE DEF jobs, rows
<1>1. JobsGrow /\ UNCHANGED <<snaps, nextId, overview, views>>
  BY DEF JobsGrow, HasBatch
<1>2. CallOK(l[p])'
  BY DEF CallOK, HasBatch, Same, Full, Done, Aggregated, OverviewWhole, ViewsWhole, Graduated, RunsOf
<1>3. p = Loop => (\A i \in l[Loop].todo : Same(i.batch, i.snap))'
  BY DEF WholeInv, CallInv, Same
<1>. QED
  BY <1>1, <1>2, <1>3, WholeFrame

LEMMA WholeApply ==
    ASSUME TypeInv, JobInv, KeptInv, Mild, WholeInv, NEW p \in Procs, ApplySnapshotState(p)
    PROVE  WholeInv'
<1>. USE DEF Calling, Applying, Aggregating, Capturing
<1>0. /\ l[p] \in Local /\ l \in [Procs -> Local] /\ NeedsOf(l[p]) /\ CallOK(l[p])
      /\ RowsInv /\ RetireInv /\ CapturedInv
  BY Holds DEF Placed, WholeInv, CallInv
<1>a. l[p].pc \in Calling => p # Admin /\ l[p].batch \in Batches /\ HasBatch(l[p].batch) /\ seen # {}
  BY <1>0 DEF RetireInv, NeedsOf, CallOK
<1>1. ASSUME FindSnapshot(p) PROVE WholeInv'
  <2>. DEFINE b == l[p].batch
  <2>1. /\ l' = [l EXCEPT ![p] = l'[p]] /\ l[p].pc = "find" /\ l'[p].pc = "count"
        /\ l'[p].batch = b /\ l'[p].snap = snaps[b] /\ l'[p].todo = l[p].todo
        /\ UNCHANGED <<jobs, rows>>
    BY <1>0, <1>1 DEF FindSnapshot, At, Local
  <2>2. snaps[b] # NoSnap => Same(b, snaps[b])
    BY DEF Same
  <2>3. snaps[b] # NoSnap /\ snaps[b].status = "captured" => Full(b) /\ Aggregated(b)
    BY <1>0, <1>a, <2>1 DEF CapturedInv, Captured
  <2>. HIDE DEF b
  <2>4. CallOK(l'[p])
    BY <1>a, <2>1, <2>2, <2>3 DEF CallOK, b
  <2>. QED
    BY <1>a, <2>1, <2>4, Reads
<1>2. ASSUME CountRuns(p) PROVE WholeInv'
  <2>. DEFINE b == l[p].batch
              row == IF l[p].snap = NoSnap THEN NewSnapshot ELSE l[p].snap
              new == [row EXCEPT !.runs = Counted(b)]
  <2>1. /\ l' = [l EXCEPT ![p] = l'[p]] /\ l[p].pc = "count"
        /\ l'[p] = [l[p] EXCEPT !.pc = "upsert", !.snap = new]
        /\ UNCHANGED <<jobs, rows>>
    BY <1>0, <1>2 DEF CountRuns, At
  <2>2. row \in Row /\ (row.status = "captured" => row = l[p].snap /\ l[p].snap # NoSnap)
    BY <1>0 DEF NewSnapshot, Row, Local
  <2>. HIDE DEF row
  <2>3. new.id = row.id /\ new.status = row.status /\ new.runs = Counted(b)
    BY <2>2 DEF Row
  <2>. HIDE DEF new
  <2>4. l'[p].pc = "upsert" /\ l'[p].batch = b /\ l'[p].snap = new /\ l'[p].todo = l[p].todo
    BY <1>0, <2>1 DEF Local
  <2>5. row.status = "captured" => Same(b, row) /\ Full(b) /\ Aggregated(b) /\ Counted(b) = Graduated(b)
    BY <1>0, <1>a, <2>1, <2>2, AllSeen DEF CallOK
  <2>6. new.status = "captured" => Same(b, new) /\ Full(b) /\ Aggregated(b) /\ new.runs = Graduated(b)
    BY <2>3, <2>5 DEF Same
  <2>7. CallOK(l'[p])
    BY <1>a, <2>1, <2>4, <2>6 DEF CallOK
  <2>. QED
    BY <1>a, <2>1, <2>4, <2>7, Reads
<1>3. ASSUME StoreSnapshot(p) PROVE WholeInv'
  <2>. DEFINE b == l[p].batch
              row == l[p].snap
  <2>1. /\ l[p].pc = "upsert" /\ row \in Row /\ b \in Batches /\ UpsertSnapshot(b, row)
        /\ HasBatch(b) /\ seen # {}
        /\ UNCHANGED <<sub, job, seen, overview, views>>
    BY <1>0, <1>3, <1>a DEF StoreSnapshot, At, NeedsOf, jobs
  <2>2. row.status = "captured" =>
          Same(b, row) /\ snaps[b] # NoSnap /\ Full(b) /\ Aggregated(b) /\ row.runs = Graduated(b)
    BY <1>0, <2>1 DEF CallOK, Same
  <2>4. CASE row.status = "captured"
    <3>1. /\ l' = [l EXCEPT ![p] = l'[p]] /\ l'[p].pc = "overview" /\ l'[p].batch = b
          /\ l'[p].snap = row /\ l'[p].todo = l[p].todo /\ l'[p].after = "return"
      BY <1>0, <1>3, <2>4 DEF StoreSnapshot, Local
    <3>2. HasBatch(b)' /\ (seen # {})' /\ Same(b, row)' /\ Full(b)'
      <4>1. Same(b, row) /\ Full(b)
        BY <2>2, <2>4
      <4>2. sub' = sub /\ job' = job /\ seen' = seen
        BY <2>1
      <4>3. snaps'[b] # NoSnap /\ snaps'[b].id = snaps[b].id
        BY <2>1, <2>2, <2>4, SnapshotAssumption DEF UpsertSnapshot, TypeInv, SnapshotTypeOK, Row
      <4>. QED
        BY <2>1, <3>1, <4>1, <4>2, <4>3 DEF HasBatch, Same, Full, Done, Graduated, RunsOf
    <3>3. CallOK(l[p])'
      BY <3>1, <3>2 DEF CallOK
    <3>. QED
      BY <1>a, <2>1, <2>2, <3>1, <3>3, WholeUpsert
  <2>5. CASE row.status # "captured"
    <3>1. l' = [l EXCEPT ![p] = l'[p]] /\ l'[p].pc = l[p].then /\ l'[p].todo = l[p].todo
      BY <1>0, <1>3, <2>5 DEF StoreSnapshot, Return, Local
    <3>2. l'[p].pc \notin Calling
      BY <2>1, <3>1, ReturnsTo DEF Between
    <3>3. CallOK(l[p])'
      BY <3>2, OutOfCall
    <3>. QED
      BY <1>a, <2>1, <2>2, <2>5, <3>1, <3>3, WholeUpsert
  <2>. QED
    BY <2>4, <2>5
<1>. QED
  BY <1>1, <1>2, <1>3 DEF ApplySnapshotState

\* An aggregate of a batch that is projected is replaced.
Replaced(b) ==
    \/ overview' = With(overview, snaps[b].id, Graduated(b)) /\ views' = views
    \/ views' = With(views, snaps[b].id, Graduated(b)) /\ overview' = overview

LEMMA Aggregates ==
    ASSUME TypeInv, RowsInv, NEW b \in Batches, snaps[b] # NoSnap, Replaced(b),
           UNCHANGED <<jobs, seen, snaps>>
    PROVE  Grows
<1>. DEFINE id == snaps[b].id
<1>0. \A c \in Batches : (Done(c) => Done(c)') /\ Graduated(c)' = Graduated(c)
  BY DEF jobs, Done, Graduated, RunsOf
<1>1. ASSUME NEW f, NEW g, g = With(f, id, Graduated(b))
      PROVE  \A c \in Batches :
                snaps[c] # NoSnap /\ snaps[c].id \in DOMAIN f /\ f[snaps[c].id] = Graduated(c)
                   => snaps[c].id \in DOMAIN g /\ g[snaps[c].id] = Graduated(c)
  <2>1. DOMAIN g = DOMAIN f \cup {id} /\ g[id] = Graduated(b)
        /\ \A x \in DOMAIN f : x # id => g[x] = f[x]
    BY <1>1 DEF With
  <2>2. \A c \in Batches : snaps[c] # NoSnap /\ snaps[c].id = id => c = b
    BY DEF RowsInv
  <2>. QED
    BY <2>1, <2>2
<1>2. \A c \in Batches : /\ OverviewWhole(c) => OverviewWhole(c)'
                         /\ ViewsWhole(c) => ViewsWhole(c)'
  BY <1>0, <1>1 DEF Replaced, OverviewWhole, ViewsWhole
<1>4. \A c \in Batches : (HasBatch(c) => HasBatch(c)') /\ (Full(c) => Full(c)')
                         /\ \A row \in Row : Same(c, row) => Same(c, row)'
  BY <1>0 DEF jobs, HasBatch, Full, Same
<1>. QED
  BY <1>0, <1>2, <1>4 DEF Grows

LEMMA WholeReplace ==
    ASSUME TypeInv, WholeInv, NEW p \in Procs, l' = [l EXCEPT ![p] = l'[p]],
           NEW b \in Batches, snaps[b] # NoSnap, Replaced(b),
           UNCHANGED <<jobs, seen, snaps, nextId>>,
           CallOK(l[p])', p = Loop => l'[p].todo = l[p].todo, p # Admin
    PROVE  WholeInv'
<1>1. RowsInv /\ RetireInv /\ CapturedInv /\ CallInv
  BY DEF WholeInv
<1>2. Grows
  BY <1>1, Aggregates
<1>3. RowsInv' /\ CapturedInv'
  BY <1>1, <1>2 DEF RowsInv, CapturedInv, Captured, Grows, Aggregated, Full, HasBatch, jobs
<1>4. l'[Loop].todo = l[Loop].todo /\ l'[Admin] = l[Admin]
  BY Holds, WhoIsWho
<1>5. (\A i \in l[Loop].todo : Same(i.batch, i.snap))'
  BY <1>1, <1>4 DEF CallInv, Same
<1>6. CallInv'
  BY <1>1, <1>2, <1>5, CallFrame
<1>7. RetireInv'
  BY <1>1, <1>4 DEF RetireInv
<1>. QED
  BY <1>3, <1>6, <1>7 DEF WholeInv

LEMMA WholeMaterialize ==
    ASSUME TypeInv, JobInv, KeptInv, Mild, WholeInv, NEW p \in Procs, MaterializeSnapshot(p)
    PROVE  WholeInv'
<1>. USE DEF Calling, Applying, Aggregating, Capturing
<1>. DEFINE b == l[p].batch
<1>0. /\ l[p] \in Local /\ l \in [Procs -> Local] /\ NeedsOf(l[p]) /\ CallOK(l[p])
      /\ RowsInv /\ RetireInv /\ Placed(p, l[p])
  BY Holds DEF Placed, WholeInv, CallInv
<1>a. l[p].pc \in Aggregating =>
        /\ p # Admin /\ b \in Batches /\ HasBatch(b) /\ seen # {} /\ Same(b, l[p].snap) /\ Full(b)
        /\ l[p].snap \in Row /\ Counted(b) = Graduated(b)
        /\ l[p].after = "promote" => l[p].snap.runs = Graduated(b)
  BY <1>0, AllSeen DEF RetireInv, NeedsOf, CallOK
<1>1. ASSUME Compute(p, "overview", "write overview") \/ Compute(p, "views", "write views")
      PROVE  WholeInv'
  <2>1. /\ l' = [l EXCEPT ![p] = l'[p]] /\ UNCHANGED <<jobs, rows>>
        /\ l'[p].batch = b /\ l'[p].snap = l[p].snap /\ l'[p].todo = l[p].todo
        /\ l'[p].after = l[p].after /\ l'[p].held = Counted(b)
        /\ \/ l[p].pc = "overview" /\ l'[p].pc = "write overview"
           \/ l[p].pc = "views" /\ l'[p].pc = "write views"
    <3>1. ASSUME NEW from, NEW to, Compute(p, from, to)
          PROVE  /\ l' = [l EXCEPT ![p] = l'[p]] /\ UNCHANGED <<jobs, rows>>
                 /\ l'[p].batch = b /\ l'[p].snap = l[p].snap /\ l'[p].todo = l[p].todo
                 /\ l'[p].after = l[p].after /\ l'[p].held = Counted(b)
                 /\ l[p].pc = from /\ l'[p].pc = to
      BY <1>0, <3>1 DEF Compute, At, Local
    <3>. QED
      BY <1>1, <3>1
  <2>2. l[p].pc = "views" => OverviewWhole(b)
    BY <1>0 DEF CallOK
  <2>. HIDE DEF b
  <2>3. CallOK(l'[p])
    BY <1>a, <2>1, <2>2 DEF CallOK
  <2>. QED
    BY <1>a, <2>1, <2>3, Reads
<1>s. ASSUME UNCHANGED <<jobs, seen, snaps>>, l[p].pc \in Aggregating,
             l'[p].batch = b, l'[p].snap = l[p].snap
      PROVE  HasBatch(b)' /\ (seen # {})' /\ Same(b, l[p].snap)' /\ Full(b)' /\ Graduated(b)' = Graduated(b)
  <2>1. Graduated(b)' = Graduated(b) /\ (Done(b) => Done(b)')
    BY <1>s DEF jobs, Graduated, Done, RunsOf
  <2>. QED
    BY <1>a, <1>s, <2>1 DEF jobs, HasBatch, Same, Full
<1>2. ASSUME ReplaceOverview(p) PROVE WholeInv'
  <2>1. /\ l' = [l EXCEPT ![p] = l'[p]] /\ l[p].pc = "write overview" /\ l'[p].pc = "views"
        /\ l'[p].batch = b /\ l'[p].snap = l[p].snap /\ l'[p].todo = l[p].todo
        /\ l'[p].after = l[p].after
        /\ UNCHANGED <<jobs, seen, snaps, nextId, views>>
    BY <1>0, <1>2 DEF ReplaceOverview, At, Local
  <2>2. /\ overview' = With(overview, snaps[b].id, Graduated(b)) /\ snaps[b] # NoSnap
    BY <1>0, <1>2, <1>a, <2>1 DEF ReplaceOverview, CallOK, Same
  <2>3. Replaced(b)
    BY <2>1, <2>2 DEF Replaced
  <2>5. HasBatch(b)' /\ (seen # {})' /\ Same(b, l[p].snap)' /\ Full(b)' /\ Graduated(b)' = Graduated(b)
    BY <1>s, <2>1
  <2>4. OverviewWhole(b)'
    BY <2>1, <2>2, <2>5 DEF OverviewWhole, Full, Same, With
  <2>6. CallOK(l[p])'
    BY <1>a, <2>1, <2>4, <2>5 DEF CallOK
  <2>. QED
    BY <1>a, <2>1, <2>2, <2>3, <2>6, WholeReplace
<1>3. ASSUME ReplaceViews(p) PROVE WholeInv'
  <2>. DEFINE to == IF l[p].after = "return" THEN l[p].then ELSE l[p].after
              row == IF l[p].after = "return" THEN NoSnap ELSE l[p].snap
  <2>1. /\ l' = [l EXCEPT ![p] = l'[p]] /\ l[p].pc = "write views"
        /\ l'[p] = [l[p] EXCEPT !.held = {}, !.after = "idle", !.pc = to, !.snap = row]
        /\ UNCHANGED <<jobs, seen, snaps, nextId, overview>>
    BY <1>0, <1>3 DEF ReplaceViews, At
  <2>2. \/ to \in Between \cup {"stamp"}
        \/ to = "promote" /\ row = l[p].snap /\ l[p].after = "promote"
    <3>. USE DEF Serving, Clearing, Between
    <3>1. CASE p \in Workers
      BY <1>0, <2>1, <3>1 DEF Placed, WorkerAt
    <3>2. CASE p = Loop
      BY <1>0, <2>1, <3>2 DEF Placed, LoopAt
    <3>3. CASE p = Repair
      BY <1>0, <2>1, <3>3 DEF Placed, RepairAt, RebuildAt
    <3>. QED
      BY <1>a, <2>1, <3>1, <3>2, <3>3 DEF Procs
  <2>. HIDE DEF to, row
  <2>3. l'[p].pc = to /\ l'[p].batch = b /\ l'[p].snap = row /\ l'[p].todo = l[p].todo
    BY <1>0, <2>1 DEF Local
  <2>4. views' = With(views, snaps[b].id, Graduated(b)) /\ snaps[b] # NoSnap /\ OverviewWhole(b)
    BY <1>0, <1>3, <1>a, <2>1 DEF ReplaceViews, CallOK, Same
  <2>5. Replaced(b)
    BY <2>1, <2>4 DEF Replaced
  <2>8. Done(b)' /\ Graduated(b)' = Graduated(b)
    <3>1. Done(b)
      BY <2>4 DEF OverviewWhole
    <3>. QED
      BY <2>1, <2>3, <3>1 DEF Done, Graduated, RunsOf, jobs
  <2>6. ViewsWhole(b)' /\ OverviewWhole(b)'
    BY <2>1, <2>3, <2>4, <2>8 DEF OverviewWhole, ViewsWhole, With
  <2>7. CallOK(l[p])'
    <3>1. CASE to \in Between \cup {"stamp"}
      BY <2>3, <3>1, OutOfCall DEF Between
    <3>2. CASE to = "promote" /\ row = l[p].snap /\ l[p].after = "promote"
      <4>1. l[p].snap.runs = Graduated(b)
        BY <1>a, <2>1, <3>2
      <4>2. HasBatch(b)' /\ (seen # {})' /\ Same(b, l[p].snap)' /\ Full(b)'
        BY <1>s, <2>1, <2>3, <3>2
      <4>. QED
        BY <2>3, <2>6, <2>8, <3>2, <4>1, <4>2 DEF CallOK, Aggregated
    <3>. QED
      BY <2>2, <3>1, <3>2
  <2>. QED
    BY <1>a, <2>1, <2>3, <2>4, <2>5, <2>7, WholeReplace
<1>. QED
  BY <1>1, <1>2, <1>3 DEF MaterializeSnapshot

LEMMA WholeCapture ==
    ASSUME TypeInv, JobInv, KeptInv, Mild, WholeInv, NEW p \in Procs, CaptureSnapshot(p)
    PROVE  WholeInv'
<1>. USE DEF Calling, Applying, Aggregating, Capturing
<1>. DEFINE b == l[p].batch
<1>0. /\ l[p] \in Local /\ l \in [Procs -> Local] /\ NeedsOf(l[p]) /\ CallOK(l[p])
      /\ RowsInv /\ RetireInv
  BY Holds DEF Placed, WholeInv, CallInv
<1>a. l[p].pc \in Capturing =>
        /\ p # Admin /\ b \in Batches /\ HasBatch(b) /\ seen # {} /\ Same(b, l[p].snap)
        /\ l[p].snap \in Row
  BY <1>0 DEF RetireInv, NeedsOf, CallOK
<1>r. ASSUME Return(p), l[p].pc \in Capturing
      PROVE  l' = [l EXCEPT ![p] = l'[p]] /\ l'[p].todo = l[p].todo /\ l'[p].pc \notin Calling
  <2>1. l' = [l EXCEPT ![p] = l'[p]] /\ l'[p].todo = l[p].todo /\ l'[p].pc = l[p].then
    BY <1>0, <1>r DEF Return, Local
  <2>. QED
    BY <1>r, <2>1, ReturnsTo DEF Between
<1>q. ASSUME Return(p), l[p].pc \in Capturing, UNCHANGED <<jobs, rows>> PROVE WholeInv'
  <2>1. JobsGrow /\ UNCHANGED <<snaps, nextId, overview, views>>
    BY <1>q DEF JobsGrow, HasBatch, jobs, rows
  <2>2. p = Loop => (\A i \in l[Loop].todo : Same(i.batch, i.snap))'
    BY <1>q, <1>r, <2>1 DEF WholeInv, CallInv, Same
  <2>. QED
    BY <1>a, <1>q, <1>r, <2>1, <2>2, OutOfCall, WholeFrame
<1>g. ASSUME NEW to \in {"unprojected", "tally"}, Goto(p, to), l[p].pc \in Capturing,
             UNCHANGED <<jobs, rows>>, Done(b), to = "tally" => Full(b)
      PROVE  WholeInv'
  <2>1. /\ l' = [l EXCEPT ![p] = l'[p]] /\ l'[p].todo = l[p].todo /\ l'[p].pc = to
        /\ l'[p].batch = b /\ l'[p].snap = l[p].snap
    BY <1>0, <1>g DEF Goto, Local
  <2>. HIDE DEF b
  <2>2. CallOK(l'[p])
    BY <1>a, <1>g, <2>1 DEF CallOK
  <2>. QED
    BY <1>a, <1>g, <2>1, <2>2, Reads
<1>1. ASSUME CheckOutstanding(p) PROVE WholeInv'
  <2>1. l[p].pc = "outstanding" /\ UNCHANGED <<jobs, rows>>
    BY <1>1 DEF CheckOutstanding, Check, At
  <2>2. CASE Outstanding(b) = {}
    <3>1. Done(b)
      <4>1. \A r \in RunsOf(b) : r \in Runs /\ job[r] \in {"none", "open", "running", "parked", "done"}
        BY DEF Graduated, RunsOf, TypeInv, SnapshotTypeOK
      <4>2. \A r \in RunsOf(b) : job[r] # "none"
        BY <1>a, <2>1 DEF JobInv, HasBatch, TypeInv, SnapshotTypeOK
      <4>. QED
        BY <2>2, <4>1, <4>2 DEF Outstanding, Done
    <3>. QED
      BY <1>1, <1>g, <2>1, <2>2, <3>1 DEF CheckOutstanding, Check
  <2>3. CASE Outstanding(b) # {}
    BY <1>1, <1>q, <2>1, <2>3 DEF CheckOutstanding, Check
  <2>. QED
    BY <2>2, <2>3
<1>2. ASSUME CheckUnprojected(p) PROVE WholeInv'
  <2>1. l[p].pc = "unprojected" /\ UNCHANGED <<jobs, rows>>
    BY <1>2 DEF CheckUnprojected, Check, At
  <2>2. CASE Unprojected(b) = {}
    <3>1. Done(b) /\ Full(b)
      <4>1. Done(b)
        BY <1>0, <2>1 DEF CallOK
      <4>2. \A r \in Graduated(b) : r \in RunsOf(b) /\ run[r] # "none"
        BY DEF JobInv, Graduated, RunsOf
      <4>. QED
        BY <2>2, <4>1, <4>2, AllSeen DEF Unprojected, Full
    <3>. QED
      BY <1>2, <1>g, <2>1, <2>2, <3>1 DEF CheckUnprojected, Check
  <2>3. CASE Unprojected(b) # {}
    BY <1>2, <1>q, <2>1, <2>3 DEF CheckUnprojected, Check
  <2>. QED
    BY <2>2, <2>3
<1>3. ASSUME TallyRuns(p) PROVE WholeInv'
  <2>1. l[p].pc = "tally" /\ UNCHANGED <<jobs, rows>>
    BY <1>3 DEF TallyRuns, At
  <2>2. Full(b) /\ Counted(b) = Graduated(b)
    BY <1>0, <1>a, <2>1, AllSeen DEF CallOK
  <2>3. CASE Return(p)
    BY <1>q, <2>1, <2>3
  <2>4. CASE ~Return(p)
    <3>. DEFINE row == [l[p].snap EXCEPT !.runs = Counted(b)]
    <3>1. l' = [l EXCEPT ![p] = l'[p]]
          /\ l'[p] = [l[p] EXCEPT !.pc = "overview", !.after = "promote", !.snap = row]
      BY <1>0, <1>3, <2>4 DEF TallyRuns, Local
    <3>2. row.id = l[p].snap.id /\ row.runs = Graduated(b)
      BY <1>a, <2>1, <2>2 DEF Row
    <3>. HIDE DEF row
    <3>3. l'[p].pc = "overview" /\ l'[p].batch = b /\ l'[p].snap = row /\ l'[p].todo = l[p].todo
      BY <1>0, <3>1 DEF Local
    <3>4. Same(b, row)
      BY <1>a, <2>1, <3>2 DEF Same
    <3>. HIDE DEF b
    <3>5. CallOK(l'[p])
      BY <1>a, <2>1, <2>2, <3>2, <3>3, <3>4 DEF CallOK
    <3>. QED
      BY <1>a, <2>1, <3>1, <3>3, <3>5, Reads
  <2>. QED
    BY <2>3, <2>4
<1>4. ASSUME PromoteToCaptured(p) PROVE WholeInv'
  <2>. DEFINE row == [l[p].snap EXCEPT !.status = "captured"]
  <2>1. /\ l[p].pc = "promote" /\ UpsertSnapshot(b, row) /\ Return(p)
        /\ UNCHANGED <<sub, job, seen, overview, views>>
    BY <1>4 DEF PromoteToCaptured, At, jobs
  <2>2. row \in Row /\ row.runs = l[p].snap.runs
    BY <1>a, <2>1 DEF Row
  <2>3. snaps[b] # NoSnap /\ Full(b) /\ Aggregated(b) /\ row.runs = Graduated(b)
    BY <1>0, <1>a, <2>1, <2>2 DEF CallOK, Same
  <2>. HIDE DEF row
  <2>. QED
    BY <1>a, <1>r, <2>1, <2>2, <2>3, OutOfCall, WholeUpsert
<1>. QED
  BY <1>1, <1>2, <1>3, <1>4 DEF CaptureSnapshot

LEMMA WholeLoop ==
    ASSUME TypeInv, WholeInv, ListPending \/ NextPending PROVE WholeInv'
<1>. USE DEF jobs, rows
<1>0. /\ Loop \in Procs /\ l \in [Procs -> Local] /\ l[Loop] \in Local /\ LoopAt(l[Loop])
      /\ RowsInv /\ Loop # Admin
      /\ snaps \in [Batches -> Row \cup {NoSnap}]
  BY WhoIsWho, Holds DEF Placed, WholeInv, TypeInv, SnapshotTypeOK
<1>t. \A i \in l[Loop].todo : Same(i.batch, i.snap) /\ i.batch \in Batches /\ i.snap \in Row
  BY <1>0 DEF WholeInv, CallInv, LoopAt, Item
<1>1. UNCHANGED <<jobs, rows>> /\ JobsGrow /\ UNCHANGED <<snaps, nextId, overview, views>>
  BY DEF ListPending, NextPending, JobsGrow, HasBatch
<1>s. ASSUME \A i \in l'[Loop].todo : Same(i.batch, i.snap)
      PROVE  (\A i \in l[Loop].todo : Same(i.batch, i.snap))'
  BY <1>1, <1>s DEF Same
<1>2. ASSUME ListPending PROVE WholeInv'
  <2>1. l' = [l EXCEPT ![Loop] = l'[Loop]] /\ l'[Loop].pc = "next" /\ l'[Loop].todo = PendingSnapshots
    BY <1>0, <1>2 DEF ListPending, Idle
  <2>2. \A i \in PendingSnapshots : Same(i.batch, i.snap)
    BY DEF PendingSnapshots, Same
  <2>3. l'[Loop].pc \notin Calling
    BY <2>1 DEF Calling, Applying, Aggregating, Capturing
  <2>. QED
    BY <1>0, <1>1, <1>s, <2>1, <2>2, <2>3, OutOfCall, WholeFrame
<1>3. ASSUME Finish(Loop) PROVE WholeInv'
  <2>1. l' = [l EXCEPT ![Loop] = l'[Loop]] /\ l'[Loop].pc = "idle" /\ l'[Loop].todo = {}
    BY <1>0, <1>3 DEF Finish, Idle
  <2>3. l'[Loop].pc \notin Calling
    BY <2>1 DEF Calling, Applying, Aggregating, Capturing
  <2>. QED
    BY <1>0, <1>1, <1>s, <2>1, <2>3, OutOfCall, WholeFrame
<1>4. ASSUME NextPending, ~Finish(Loop) PROVE WholeInv'
  <2>1. PICK i \in l[Loop].todo :
          l' = [l EXCEPT ![Loop].pc = "outstanding", ![Loop].batch = i.batch,
                         ![Loop].snap = i.snap, ![Loop].todo = @ \ {i}]
    BY <1>4 DEF NextPending
  <2>2. /\ l' = [l EXCEPT ![Loop] = l'[Loop]] /\ l'[Loop].pc = "outstanding"
        /\ l'[Loop].batch = i.batch /\ l'[Loop].snap = i.snap
        /\ l'[Loop].todo \subseteq l[Loop].todo
    BY <1>0, <2>1 DEF Local
  <2>3. Same(i.batch, i.snap) /\ HasBatch(i.batch) /\ seen # {}
    BY <1>0, <1>t DEF RowsInv, Same
  <2>4. CallOK(l'[Loop])
    BY <2>2, <2>3 DEF CallOK, Calling, Applying, Aggregating, Capturing
  <2>. QED
    BY <1>0, <1>1, <2>2, <2>4, Reads DEF Calling, Capturing
<1>. QED
  BY <1>2, <1>3, <1>4

\* No process moves and no row is written.
LEMMA Aside ==
    ASSUME TypeInv, WholeInv, JobsGrow, UNCHANGED <<snaps, nextId, overview, views, l>>
    PROVE  WholeInv'
<1>1. \A v \in Local : NeedsOf(v) /\ CallOK(v) => CallOK(v)'
  BY GrowsWhen, CallStays
<1>2. \A p \in Procs : CallOK(l[p])'
  BY <1>1, Holds DEF Placed, WholeInv, CallInv
<1>3. CallInv'
  BY <1>2 DEF WholeInv, CallInv, Same
<1>4. RowsInv' /\ CapturedInv'
  BY RowsFrame DEF WholeInv
<1>5. RetireInv'
  BY DEF WholeInv, RetireInv
<1>. QED
  BY <1>3, <1>4, <1>5 DEF WholeInv

LEMMA WholeSubmit == ASSUME TypeInv, WholeInv, SubmitStep PROVE WholeInv'
<1>1. UNCHANGED <<seen, snaps, nextId, overview, views, l>>
  BY DEF SubmitStep, CreateJob, CreateBatch, rows
<1>2. JobsGrow
  BY <1>1 DEF SubmitStep, CreateJob, CreateBatch, JobsGrow, HasBatch, TypeInv, SnapshotTypeOK
<1>. QED
  BY <1>1, <1>2, Aside

LEMMA WholeWorker ==
    ASSUME TypeInv, JobInv, KeptInv, WholeInv, NEW w \in Workers, WorkerStep(w) PROVE WholeInv'
<1>. USE DEF jobs, rows
<1>0. /\ w \in Procs /\ l \in [Procs -> Local] /\ l[w] \in Local /\ WorkerAt(l[w]) /\ SnapshotTypeOK
      /\ w # Loop /\ w # Admin /\ SeenInv
  BY WhoIsWho, Holds DEF Placed, TypeInv, KeptInv
<1>f. ASSUME l' = [l EXCEPT ![w] = l'[w]], JobsGrow, UNCHANGED <<snaps, nextId, overview, views>>,
             CallOK(l[w])'
      PROVE  WholeInv'
  BY <1>0, <1>f, WholeFrame
<1>o. ASSUME l'[w].pc \in {"run", "graduate", "load", "project", "idle"} PROVE CallOK(l[w])'
  BY <1>0, <1>o, OutOfCall DEF Calling, Applying, Aggregating, Capturing
<1>1. ASSUME NEW r \in Runs, TakeJob(w, r) PROVE WholeInv'
  <2>1. /\ l' = [l EXCEPT ![w] = l'[w]] /\ l'[w].pc = "run" /\ UNCHANGED rows
    BY <1>0, <1>1 DEF TakeJob, Idle
  <2>2. JobsGrow
    BY <1>0, <1>1 DEF TakeJob, JobsGrow, HasBatch, SnapshotTypeOK
  <2>. QED
    BY <1>f, <1>o, <2>1, <2>2
<1>2. ASSUME EndJob(w) PROVE WholeInv'
  <2>1. l' = [l EXCEPT ![w] = l'[w]] /\ l'[w].pc = "graduate" /\ UNCHANGED <<rows, sub, job>>
    BY <1>0, <1>2 DEF EndJob, Goto, Local
  <2>. QED
    BY <1>f, <1>o, <2>1 DEF JobsGrow, HasBatch
<1>3. ASSUME GraduateJob(w) PROVE WholeInv'
  <2>1. l' = [l EXCEPT ![w] = l'[w]] /\ l'[w].pc = "load" /\ UNCHANGED <<rows, sub>>
    BY <1>0, <1>3 DEF GraduateJob, Goto, Local
  <2>2. job[l[w].run] = "running"
    BY <1>3 DEF GraduateJob, At, JobInv
  <2>3. JobsGrow
    BY <1>0, <1>3, <2>2 DEF GraduateJob, JobsGrow, HasBatch, SnapshotTypeOK
  <2>. QED
    BY <1>f, <1>o, <2>1, <2>3
<1>4. ASSUME LoadRun(w) PROVE WholeInv'
  <2>1. l' = [l EXCEPT ![w] = l'[w]] /\ l'[w].pc \in {"project", "idle"} /\ UNCHANGED <<rows, sub, job>>
    BY <1>0, <1>4 DEF LoadRun, Finish, Idle, Local
  <2>. QED
    BY <1>f, <1>o, <2>1 DEF JobsGrow, HasBatch
<1>5. ASSUME ProjectLoaded(w) PROVE WholeInv'
  <2>1. /\ l' = [l EXCEPT ![w] = l'[w]] /\ l'[w].pc = "find" /\ l[w].pc = "project"
        /\ l'[w].batch = l[w].batch /\ l'[w].snap = l[w].snap
        /\ UNCHANGED <<sub, job, snaps, nextId, overview, views>>
        /\ seen' = seen \cup {l[w].run}
    BY <1>0, <1>5 DEF ProjectLoaded, WriteFacts, Goto, At, Local
  <2>2. HasBatch(l[w].batch)' /\ (seen # {})'
    BY <1>0, <2>1 DEF SeenInv, HasBatch
  <2>3. CallOK(l[w])'
    BY <2>1, <2>2 DEF CallOK, Calling, Applying, Aggregating, Capturing
  <2>. QED
    BY <1>f, <2>1, <2>3 DEF JobsGrow, HasBatch
<1>6. ASSUME StampCohort(w) PROVE WholeInv'
  <2>1. /\ l' = [l EXCEPT ![w] = l'[w]] /\ l'[w].pc = "idle"
        /\ UNCHANGED <<sub, job, seen, snaps, nextId, overview, views>>
    BY SMTT(40), <1>0, <1>6 DEF StampCohort, Finish, Idle
  <2>. QED
    BY <1>f, <1>o, <2>1 DEF JobsGrow, HasBatch
<1>. QED
  BY <1>1, <1>2, <1>3, <1>4, <1>5, <1>6 DEF WorkerStep

\* The repair pass clears a cohort of which nothing was projected, and the
\* administrator does not rebuild.
LEMMA WholeRebuild ==
    ASSUME TypeInv, KeptInv, Mild, WholeInv, NEW p \in {Admin, Repair}, RebuildStep(p)
    PROVE  WholeInv'
<1>. USE DEF jobs, rows
<1>0. /\ p \in Procs /\ l \in [Procs -> Local] /\ l[p] \in Local /\ Placed(p, l[p])
      /\ RowsInv /\ RetireInv /\ CapturedInv /\ CallInv
      /\ Loop # Repair /\ Admin # Repair /\ Loop \in Procs /\ Admin \in Procs
  BY SMTT(40), WhoIsWho, Holds DEF WholeInv
<1>1. /\ l[p].pc \in {"lookup", "list", "projecting", "apply", "capture", "rebuilt", "set pending"}
                     \cup Clearing
  BY DEF RebuildStep, LookupCohort, SetPending, ClearState, ClearFacts, ClearSnapshots, EndClear,
     ListRuns, ProjectForRebuild, ApplyNext, CaptureNext, EndRebuild, At, Clearing
<1>2. p = Repair
  BY <1>0, <1>1 DEF RetireInv, Clearing
<1>3. Kept
  BY DEF Kept, Mild, Untouched
<1>4. l[p].pc = "lookup" \/ (l[p].pc \in Clearing /\ l[p].task = "clear" /\ seen = {})
  <2>1. l[p].pc = "lookup" \/ l[p].task # "rebuild"
    BY <1>0, <1>2, <1>3, KeptRole
  <2>2. l[p].pc = "lookup" \/ (l[p].pc \in Clearing /\ l[p].task = "clear")
    BY <1>0, <1>1, <1>2, <2>1 DEF Placed, RepairAt, RebuildAt, Calling, Applying, Aggregating,
       Capturing, Clearing
  <2>. QED
    BY <1>2, <1>3, <2>2, KeptRole
<1>5. ASSUME LookupCohort(p) \/ ClearState(p) \/ ClearFacts(p) \/ EndClear(p) PROVE WholeInv'
  <2>1. l' = [l EXCEPT ![p] = l'[p]]
        /\ l'[p].pc \in {"set pending", "clear state", "clear facts", "clear snapshots", "idle"}
    <3>1. CASE LookupCohort(p)
      BY <1>0, <3>1 DEF LookupCohort, Local
    <3>2. CASE ClearState(p)
      BY <1>0, <3>2 DEF ClearState, Goto, Local
    <3>3. CASE ClearFacts(p)
      BY <1>0, <3>3 DEF ClearFacts, Goto, Local
    <3>4. CASE EndClear(p)
      BY <1>0, <3>4 DEF EndClear, Finish, Idle
    <3>. QED
      BY <1>5, <3>1, <3>2, <3>3, <3>4
  <2>2. UNCHANGED <<sub, job, seen, snaps, nextId, overview, views>>
    BY <1>5 DEF LookupCohort, ClearState, ClearFacts, EndClear
  <2>3. CallOK(l[p])'
    BY <1>0, <2>1, OutOfCall DEF Calling, Applying, Aggregating, Capturing
  <2>. QED
    BY <1>0, <1>2, <2>1, <2>2, <2>3, WholeFrame DEF JobsGrow, HasBatch
<1>6. ASSUME ClearSnapshots(p) PROVE WholeInv'
  <2>1. l' = [l EXCEPT ![p] = l'[p]] /\ l'[p].pc \in {"list", "cleared"}
    BY <1>0, <1>6 DEF ClearSnapshots, Goto, Local
  <2>2. UNCHANGED <<sub, job, seen, nextId>> /\ \A b \in Batches : snaps'[b] = NoSnap
    BY <1>6 DEF ClearSnapshots
  <2>3. \A b \in Batches : snaps[b] = NoSnap
    BY <1>0, <1>4, <1>6 DEF RowsInv, ClearSnapshots, At
  <2>4. Grows
    BY <2>2, <2>3, GrowsWhen DEF JobsGrow, HasBatch
  <2>5. l'[Loop] = l[Loop] /\ l'[Admin] = l[Admin]
    BY <1>0, <1>2, <2>1
  <2>6. \A i \in l[Loop].todo : i.batch \in Batches /\ Same(i.batch, i.snap)
    BY <1>0, Holds DEF Placed, LoopAt, Item, CallInv
  <2>7. l[Loop].todo = {}
    BY <2>3, <2>6 DEF Same
  <2>8. CallOK(l[p])'
    BY <1>0, <2>1, OutOfCall DEF Calling, Applying, Aggregating, Capturing
  <2>9. CallInv'
    BY <1>0, <2>1, <2>4, <2>5, <2>7, <2>8, CallFrame
  <2>10. l[Admin].pc = "rewrite" => l[Admin].batch \in Batches
    BY <1>0, Holds DEF Placed, NeedsOf
  <2>11. RetireInv'
    BY <1>0, <2>3, <2>5, <2>10 DEF RetireInv
  <2>. QED
    BY <2>2, <2>9, <2>11 DEF WholeInv, RowsInv, CapturedInv, Captured
<1>. QED
  BY <1>4, <1>5, <1>6 DEF RebuildStep, SetPending, ListRuns, ProjectForRebuild, ApplyNext, CaptureNext,
     EndRebuild, At, Clearing

LEMMA WholeRepair == ASSUME TypeInv, WholeInv, RepairStep PROVE WholeInv'
<1>. USE DEF jobs, rows
<1>0. /\ Repair \in Procs /\ l \in [Procs -> Local] /\ l[Repair] \in Local
      /\ Loop # Repair /\ Admin # Repair
  BY WhoIsWho, Holds
<1>f. ASSUME l' = [l EXCEPT ![Repair] = l'[Repair]], JobsGrow,
             UNCHANGED <<snaps, nextId, overview, views>>, CallOK(l[Repair])'
      PROVE  WholeInv'
  BY <1>0, <1>f, WholeFrame
<1>o. ASSUME l'[Repair].pc \in {"catchup", "lookup", "idle"} PROVE CallOK(l[Repair])'
  BY <1>0, <1>o, OutOfCall DEF Calling, Applying, Aggregating, Capturing
<1>1. ASSUME BeginRepair \/ CaughtUp \/ EndCatchUp PROVE WholeInv'
  <2>1. l' = [l EXCEPT ![Repair] = l'[Repair]] /\ l'[Repair].pc \in {"catchup", "lookup", "idle"}
    <3>1. CASE BeginRepair
      BY <1>0, <3>1 DEF BeginRepair, Idle
    <3>2. CASE CaughtUp
      BY <1>0, <3>2 DEF CaughtUp, Local
    <3>3. CASE EndCatchUp
      BY <1>0, <3>3 DEF EndCatchUp, Finish, Idle
    <3>. QED
      BY <1>1, <3>1, <3>2, <3>3
  <2>2. UNCHANGED <<sub, job, seen, snaps, nextId, overview, views>>
    BY <1>1 DEF BeginRepair, CaughtUp, EndCatchUp
  <2>. QED
    BY <1>f, <1>o, <2>1, <2>2 DEF JobsGrow, HasBatch
<1>2. ASSUME NEW r \in Runs, CatchUpRun(r) PROVE WholeInv'
  <2>1. CASE Wanted(r)
    <3>1. /\ l' = [l EXCEPT ![Repair] = l'[Repair]] /\ l'[Repair].pc = "find"
          /\ l'[Repair].batch = BatchOf[r]
      BY <1>0, <1>2, <2>1 DEF CatchUpRun, Local
    <3>2. seen' = seen \cup {r} /\ UNCHANGED <<sub, job, snaps, nextId, overview, views>>
      BY <1>2, <2>1 DEF CatchUpRun, WriteFacts
    <3>3. HasBatch(BatchOf[r])' /\ (seen # {})'
      BY <2>1, <3>2 DEF Wanted, HasBatch
    <3>4. CallOK(l[Repair])'
      BY <3>1, <3>3 DEF CallOK, Calling, Applying, Aggregating, Capturing
    <3>. QED
      BY <1>f, <3>1, <3>2, <3>4 DEF JobsGrow, HasBatch
  <2>2. CASE ~Wanted(r)
    <3>1. /\ l' = [l EXCEPT ![Repair] = l'[Repair]] /\ l'[Repair].pc = "catchup"
          /\ UNCHANGED <<jobs, rows>>
      BY <1>0, <1>2, <2>2 DEF CatchUpRun, At, Local
    <3>. QED
      BY <1>f, <1>o, <3>1 DEF JobsGrow, HasBatch
  <2>. QED
    BY <2>1, <2>2
<1>. QED
  BY <1>1, <1>2 DEF RepairStep

LEMMA WholeAdmin ==
    ASSUME TypeInv, TypeInv', WholeInv, Mild', AdminStep PROVE WholeInv'
<1>. USE DEF jobs, rows
<1>0. /\ Admin \in Procs /\ l \in [Procs -> Local] /\ l[Admin] \in Local /\ NeedsOf(l[Admin])
      /\ Loop # Admin /\ RowsInv /\ RetireInv
      /\ snaps \in [Batches -> Row \cup {NoSnap}]
  BY WhoIsWho, Holds DEF Placed, WholeInv, TypeInv, SnapshotTypeOK
<1>d. ASSUME NEW d, Disturb(d)
      PROVE  d \notin {"clear", "disable", "enable", "rebuild", "rematerialize", "purge"}
  BY SMTT(40), <1>d, FirstOne DEF Mild
<1>1. ~RequestRebuild /\ ~RequestClear /\ ~RequestEnabled("disable", FALSE)
      /\ ~RequestEnabled("enable", TRUE)
      /\ \A b \in Batches : ~RequestRematerialize(b) /\ ~RequestPurge(b)
  BY <1>d DEF RequestRebuild, RequestClear, RequestEnabled, RequestRematerialize, RequestPurge
<1>2. ~PatchCohort /\ ~PurgeRow
  BY <1>0 DEF PatchCohort, PurgeRow, At, RetireInv
<1>3. ASSUME NEW b \in Batches, RequestRetire(b) PROVE WholeInv'
  <2>. DEFINE row == [snaps[b] EXCEPT !.status = "retired"]
  <2>1. /\ l' = [l EXCEPT ![Admin] = l'[Admin]] /\ l'[Admin].pc = "rewrite"
        /\ l'[Admin].batch = b /\ l'[Admin].snap = row
        /\ snaps[b] # NoSnap /\ UNCHANGED <<jobs, rows>>
    BY <1>0, <1>3 DEF RequestRetire, Idle
  <2>2. row.status = "retired"
    BY <1>0, <2>1 DEF Row
  <2>. HIDE DEF row
  <2>3. CallOK(l[Admin])'
    BY <1>0, <2>1, OutOfCall DEF Calling, Applying, Aggregating, Capturing
  <2>4. RetireInv'
    BY <2>1, <2>2 DEF RetireInv
  <2>. QED
    BY <1>0, <2>1, <2>3, <2>4, WholeFrame DEF JobsGrow, HasBatch
<1>4. ASSUME NEW b \in Batches, RequestIntent(b) PROVE WholeInv'
  BY <1>4, Aside DEF RequestIntent, JobsGrow, HasBatch
<1>5. ASSUME RewriteRow PROVE WholeInv'
  <2>. DEFINE b == l[Admin].batch
              row == l[Admin].snap
  <2>1. /\ l[Admin].pc = "rewrite" /\ UpsertSnapshot(b, row)
        /\ UNCHANGED <<sub, job, seen, overview, views>>
    BY <1>5 DEF RewriteRow, At
  <2>2. b \in Batches /\ row \in Row /\ row.status = "retired" /\ snaps[b] # NoSnap
    BY <1>0, <2>1 DEF NeedsOf, RetireInv
  <2>3. HasBatch(b) /\ seen # {}
    BY <1>0, <2>2 DEF RowsInv
  <2>4. l' = [l EXCEPT ![Admin] = l'[Admin]] /\ l'[Admin].pc = "idle"
    BY <1>0, <1>5 DEF RewriteRow, Finish, Idle
  <2>5. CallOK(l[Admin])'
    BY <1>0, <2>4, OutOfCall DEF Calling, Applying, Aggregating, Capturing
  <2>. QED
    BY <1>0, <2>1, <2>2, <2>3, <2>4, <2>5, WholeUpsert
<1>. QED
  BY <1>1, <1>2, <1>3, <1>4, <1>5 DEF AdminStep

LEMMA WholeFault ==
    ASSUME TypeInv, WholeInv, NEW p \in Procs \ {Admin}, StoreFault(p) PROVE WholeInv'
<1>1. /\ l' = [l EXCEPT ![p] = l'[p]] /\ l'[p].pc = "idle" /\ l'[p].todo = {}
      /\ p # Admin /\ UNCHANGED <<sub, job, seen, snaps, nextId, overview, views>>
  BY Holds DEF StoreFault, Finish, Idle, jobs
<1>2. CallOK(l[p])'
  BY <1>1, OutOfCall DEF Calling, Applying, Aggregating, Capturing
<1>. QED
  BY <1>1, <1>2, WholeFrame DEF JobsGrow, HasBatch

\* The row that was not found is written anew, pending.
LEMMA WholeFindFails ==
    ASSUME TypeInv, WholeInv, NEW p \in Procs \ {Admin}, FindFails(p) PROVE WholeInv'
<1>. USE DEF Calling, Applying, Aggregating, Capturing
<1>1. l[p] \in Local /\ l \in [Procs -> Local] /\ CallOK(l[p]) /\ LoopAt(l[Loop])
  BY Holds, WhoIsWho DEF Placed, WholeInv, CallInv
<1>2. /\ l' = [l EXCEPT ![p] = l'[p]] /\ l[p].pc = "find" /\ l'[p].pc = "count"
      /\ l'[p].batch = l[p].batch /\ l'[p].snap = NoSnap /\ l'[p].todo = l[p].todo
      /\ UNCHANGED <<jobs, rows>>
  BY <1>1 DEF FindFails, At, Local
<1>3. CallOK(l'[p])
  BY <1>1, <1>2 DEF CallOK
<1>. QED
  BY <1>2, <1>3, Reads

LEMMA WholeGraduateFails ==
    ASSUME TypeInv, JobInv, WholeInv, NEW w \in Workers, GraduateFails(w) PROVE WholeInv'
<1>1. w \in Procs /\ w # Admin /\ w # Loop /\ l \in [Procs -> Local]
  BY WhoIsWho, Holds
<1>2. /\ l' = [l EXCEPT ![w] = l'[w]] /\ l'[w].pc = "idle"
      /\ UNCHANGED <<sub, seen, snaps, nextId, overview, views>>
  BY <1>1 DEF GraduateFails, Finish, Idle, rows
<1>3. job[l[w].run] = "running"
  BY DEF GraduateFails, At, JobInv
<1>4. JobsGrow
  BY <1>2, <1>3 DEF GraduateFails, JobsGrow, HasBatch, TypeInv, SnapshotTypeOK
<1>5. CallOK(l[w])'
  BY <1>1, <1>2, OutOfCall DEF Calling, Applying, Aggregating, Capturing
<1>. QED
  BY <1>1, <1>2, <1>4, <1>5, WholeFrame

\* A crash that is the only disturbance finds no parked rows to graduate.
LEMMA WholeCrash ==
    ASSUME TypeInv, TypeInv', ParkInv, WholeInv, Mild', Crash PROVE WholeInv'
<1>1. \A p \in Procs : l'[p].pc \in {"idle", "boot"} /\ l'[p].todo = {}
  BY DEF Crash, Idle
<1>2. l'[Admin].pc = "idle"
  BY WhoIsWho DEF Crash, Idle
<1>3. UNCHANGED <<seen, snaps, nextId, overview, views>>
  BY DEF Crash, rows
<1>9. \A r \in Runs : job[r] # "parked"
  <2>1. used \subseteq {"crash"}
    BY FirstOne DEF Crash, Mild
  <2>. QED
    BY <2>1 DEF ParkInv
<1>4. JobsGrow
  BY <1>3, <1>9 DEF Crash, JobsGrow, HasBatch
<1>5. RowsInv' /\ CapturedInv'
  BY <1>3, <1>4, RowsFrame DEF WholeInv
<1>6. \A p \in Procs : CallOK(l[p])'
  BY <1>1, OutOfCall DEF Calling, Applying, Aggregating, Capturing
<1>7. CallInv'
  BY <1>1, <1>6, WhoIsWho DEF CallInv
<1>8. RetireInv'
  BY <1>2 DEF RetireInv
<1>. QED
  BY <1>5, <1>7, <1>8 DEF WholeInv

LEMMA ParkStep == ASSUME TypeInv, ParkInv, [Next]_vars PROVE ParkInv'
<1>. SUFFICES \A r \in Runs : job'[r] = "parked" => job[r] = "parked" \/ "fault" \in used'
  BY UsedGrows DEF ParkInv
<1>1. ASSUME NEW w \in Workers, GraduateFails(w) PROVE "fault" \in used'
  BY <1>1 DEF GraduateFails, Disturb
<1>2. ASSUME SubmitStep \/ Crash PROVE \A r \in Runs : job'[r] = "parked" => job[r] = "parked"
  BY <1>2 DEF SubmitStep, CreateJob, CreateBatch, Crash, TypeInv, SnapshotTypeOK
<1>3. ASSUME NEW w \in Workers, WorkerStep(w)
      PROVE  \A r \in Runs : job'[r] = "parked" => job[r] = "parked"
  BY <1>3 DEF WorkerStep, TakeJob, EndJob, GraduateJob, LoadRun, ProjectLoaded, StampCohort, jobs,
     TypeInv, SnapshotTypeOK
<1>4. ASSUME NEW p \in Procs, StoreFault(p) \/ FindFails(p) PROVE UNCHANGED job
  BY <1>4 DEF StoreFault, FindFails, jobs
<1>5. ASSUME AdminStep PROVE UNCHANGED job
  BY <1>5 DEF AdminStep, RequestRebuild, RequestClear, RequestEnabled, PatchCohort,
     RequestRematerialize, RequestRetire, RequestPurge, RequestIntent, RewriteRow, PurgeRow, jobs
<1>6. ASSUME NEW p \in Procs, ApplySnapshotState(p) \/ MaterializeSnapshot(p) \/ CaptureSnapshot(p)
      PROVE  UNCHANGED job
  BY <1>6 DEF ApplySnapshotState, FindSnapshot, CountRuns, StoreSnapshot, MaterializeSnapshot,
     Compute, ReplaceOverview, ReplaceViews, CaptureSnapshot, CheckOutstanding, CheckUnprojected,
     Check, TallyRuns, PromoteToCaptured, jobs
<1>7. ASSUME NEW p \in {Admin, Repair}, RebuildStep(p) PROVE UNCHANGED job
  BY <1>7 DEF RebuildStep, LookupCohort, SetPending, ClearState, ClearFacts, ClearSnapshots,
     EndClear, ListRuns, ProjectForRebuild, ApplyNext, CaptureNext, EndRebuild, jobs
<1>8. ASSUME ListPending \/ NextPending \/ RepairStep PROVE UNCHANGED job
  BY <1>8 DEF ListPending, NextPending, RepairStep, BeginRepair, CatchUpRun, CaughtUp, EndCatchUp, jobs
<1>. QED
  BY <1>1, <1>2, <1>3, <1>4, <1>5, <1>6, <1>7, <1>8 DEF Next, vars, jobs

WholeCore == KeptCore /\ ParkInv /\ (Mild => WholeInv)

LEMMA WholeStep == WholeCore /\ [Next]_vars => WholeCore'
<1>. SUFFICES ASSUME WholeCore, [Next]_vars PROVE WholeCore'
  OBVIOUS
<1>1. KeptCore' /\ TypeInv /\ TypeInv' /\ JobInv /\ ParkInv /\ ParkInv'
  BY KeptStep, ParkStep DEF WholeCore, KeptCore
<1>2. ASSUME Mild' PROVE WholeInv'
  <2>1. Mild /\ WholeInv
    BY <1>1, <1>2, UsedGrows, StillUntouched DEF WholeCore, Mild
  <2>2. KeptInv
    BY <2>1 DEF WholeCore, KeptCore, Kept, Mild, Untouched
  <2>3. CASE UNCHANGED vars
    BY <1>1, <2>1, <2>3, Aside DEF vars, jobs, rows, JobsGrow, HasBatch
  <2>. QED
    BY <1>1, <1>2, <2>1, <2>2, <2>3, WholeSubmit, WholeWorker, WholeApply, WholeMaterialize,
       WholeCapture, WholeLoop, WholeRebuild, WholeRepair, WholeAdmin, WholeFault, WholeFindFails,
       WholeGraduateFails, WholeCrash DEF Next
<1>. QED
  BY <1>1, <1>2 DEF WholeCore

LEMMA WholeStart == Init => WholeCore
<1>. SUFFICES ASSUME Init PROVE WholeCore
  OBVIOUS
<1>1. PICK s \in Scenarios : InitScene(s)
  BY DEF Init
<1>2. \A p \in Procs : l[p].pc = "idle" /\ l[p].todo = {}
  BY DEF Init, Idle
<1>3. RowsInv
  <2>1. \A b \in Batches : s.warm \cap RunsOf(b) # {} => HasBatch(b)
    BY <1>1 DEF InitScene, HasBatch
  <2>2. seen = IF s.enabled THEN s.warm ELSE {}
    BY <1>1 DEF InitScene
  <2>. QED
    BY <1>1, <2>1, <2>2, InitRows DEF RowsInv
<1>4. CapturedInv
  BY <1>1, InitRows DEF CapturedInv, Captured
<1>5. CallInv
  <2>1. \A p \in Procs : CallOK(l[p])
    BY <1>2 DEF CallOK, Calling, Applying, Aggregating, Capturing
  <2>. QED
    BY <1>2, <2>1, WhoIsWho DEF CallInv
<1>6. RetireInv
  BY <1>2, WhoIsWho DEF RetireInv
<1>7. ParkInv
  BY <1>1 DEF InitScene, ParkInv
<1>. QED
  BY <1>3, <1>4, <1>5, <1>6, <1>7, KeptStart DEF WholeCore, WholeInv

\* Late projections, stale rows, a failed store call, a retirement and a
\* restart do not leave a captured snapshot that does not cover what its batch
\* produced; without a failed call that is a run of every job.
THEOREM CapturedCoversBatch == Spec => []CapturedIsWhole
<1>1. WholeCore => CapturedIsWhole
  <2>. SUFFICES ASSUME WholeCore, Mild, NEW b \in Batches, Captured(b)
                PROVE  /\ \A r \in RunsOf(b) : job[r] \in {"done", "parked"}
                       /\ "fault" \notin used => Graduated(b) = RunsOf(b)
                       /\ snaps[b].runs = Graduated(b) /\ Graduated(b) \subseteq facts \cap state
                       /\ snaps[b].id \in DOMAIN overview \cap DOMAIN views
                       /\ overview[snaps[b].id] = Graduated(b) /\ views[snaps[b].id] = Graduated(b)
    BY DEF CapturedIsWhole, Mild
  <2>1. TypeInv /\ JobInv /\ ParkInv /\ KeptInv /\ WholeInv
    BY DEF WholeCore, KeptCore, Kept, Mild, Untouched
  <2>2. facts = seen /\ state = seen
    BY <2>1, AllSeen
  <2>3. Full(b) /\ Aggregated(b) /\ snaps[b].runs = Graduated(b)
    BY <2>1 DEF WholeInv, CapturedInv
  <2>4. "fault" \notin used => Graduated(b) = RunsOf(b)
    BY <2>1, <2>3 DEF ParkInv, Full, Done, Graduated, RunsOf
  <2>. QED
    BY <2>2, <2>3, <2>4 DEF Full, Done, Aggregated, OverviewWhole, ViewsWhole
<1>. QED
  BY <1>1, WholeStart, WholeStep, PTL DEF Spec
=============================================================================
