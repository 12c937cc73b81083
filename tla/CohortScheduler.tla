-------------------------- MODULE CohortScheduler --------------------------
(***************************************************************************)
(* The cohort scheduler (server/scheduler.go) over the schedule rows of    *)
(* the store, with the handlers that change the rows and the submission    *)
(* of a batch (submitBatch in server/handlers.go).  Every server has one   *)
(* scheduler goroutine; between two of its store calls the other servers,  *)
(* the API and the clock may move, and its process may end.                *)
(*                                                                         *)
(* A recurrence rule is the set of its occurrences; what                   *)
(* server/recurrence computes from days and time zones is in the module    *)
(* Recurrence.  The stored outcome text is left out: of an outcome only    *)
(* the batch id is ever read back.                                         *)
(***************************************************************************)
EXTENDS Integers, FiniteSets

CONSTANTS
    None,
    Servers,            \* server processes on one database
    Cohorts,            \* analysis cohorts, each with at most one schedule
    Rules,              \* recurrence rules, each a set of times
    Batches,            \* batch ids that newID may still return
    MaxDomains,         \* domains of a source tag
    Grace,              \* missedRunGrace
    Forms,              \* the enabled and catch_up fields of the PUT requests
    MaxTime, MaxRequests, MaxFaults,        \* bounds of the runs
    FaultKinds          \* what may fail: store calls, the process, a time zone

Times == 0 .. MaxTime

ASSUME ScheduleAssumption ==
    /\ MaxTime \in Nat /\ MaxRequests \in Nat /\ MaxFaults \in Nat
    /\ MaxDomains \in Nat /\ Grace \in Nat
    /\ Rules \subseteq SUBSET Nat
    /\ Forms \subseteq [enabled: BOOLEAN, catchUp: BOOLEAN]
    /\ None \notin Batches /\ None \notin [cohort: Cohorts, gen: Nat]

\* Next of a rule is its least later occurrence; there is one if there is any.
ASSUME RuleAssumption ==
    \A r \in Rules, t \in Times :
        (\E o \in r : o > t) => \E o \in r : o > t /\ \A p \in r : p > t => o <= p

VARIABLES
    now,                    \* the clock all servers read
    sched,                  \* analysis_cohort_schedules: cohort -> row or None
    cohort,                 \* the cohort catalog: "on", "off" (disabled), "gone"
    broken,                 \* rules that no longer compute (their zone is gone)
    outstanding,            \* batch -> its queued, running and paused jobs
    pc, todo, cur, tnow,    \* the scheduler of a server: the rows it listed,
                            \* the one it is on, the time of its tick
    left, batch, named,     \* its submission: domains to do, batch, answer
    enabled, stopping,      \* schedulerEnabled; the worker context is done
    put,                    \* a PUT request that has computed next_run_at
    reqs, faults,           \* counted against the bounds
    epoch, gen,             \* history: writes and creations of a row,
    owner,                  \* the cohort and gen a batch was fired for,
    fires, open, last,      \* claims, claims with no answer stored, last claim,
    serial                  \* did every claim read the answer of the one before?

rows == <<sched, cohort, epoch, gen>>
loop == <<pc, todo, cur, tnow, left, batch, named>>
history == <<fires, open, last, serial, owner>>
control == <<enabled, stopping, broken>>
requests == <<put, reqs>>
vars == <<now, rows, loop, history, control, requests, outstanding, faults>>

PCs == {"idle", "next", "disable", "cohort", "count", "resolve", "submit", "record"}

Row == [enabled: BOOLEAN, rule: Rules, catchUp: BOOLEAN, next: Nat,
        lastBatch: Batches \cup {None}]

\* A row as the scheduler holds it, and (history) the claims so far and those
\* of them without a stored answer at the moment it was read.
Copy == [cohort: Cohorts, row: Row, fires: Nat, open: Int]

NoClaim == [epoch |-> 0, due |-> 0, at |-> 0]

SchedTypeOK ==
    /\ now \in Times
    /\ sched \in [Cohorts -> Row \cup {None}]
    /\ cohort \in [Cohorts -> {"on", "off", "gone"}]
    /\ broken \subseteq Rules
    /\ outstanding \in [Batches -> Nat]
    /\ pc \in [Servers -> PCs]
    /\ todo \in [Servers -> SUBSET Copy]
    /\ cur \in [Servers -> Copy \cup {None}]
    /\ \A s \in Servers : pc[s] \notin {"idle", "next"} => cur[s] \in Copy
    /\ tnow \in [Servers -> Times]
    /\ left \in [Servers -> 0 .. MaxDomains]
    /\ batch \in [Servers -> Batches \cup {None}]
    /\ named \in [Servers -> Batches \cup {None}]
    /\ enabled \in [Servers -> BOOLEAN] /\ stopping \in [Servers -> BOOLEAN]
    /\ put = None \/ put \in [cohort: Cohorts, row: Row]
    /\ reqs \in Nat /\ faults \in Nat
    /\ epoch \in [Cohorts -> Nat] /\ gen \in [Cohorts -> Nat]
    /\ owner \in [Batches -> [cohort: Cohorts, gen: Nat] \cup {None}]
    /\ fires \in [Cohorts -> Nat] /\ open \in [Cohorts -> Int]
    /\ last \in [Cohorts -> [epoch: Nat, due: Nat, at: Nat]]
    /\ serial \in [Cohorts -> BOOLEAN]

-----------------------------------------------------------------------------
(* Recurrence and the store's operations on schedule rows.                 *)

HasNext(r, t) == r \notin broken /\ \E o \in r : o > t

NextOf(r, t) == CHOOSE o \in r : o > t /\ \A p \in r : p > t => o <= p

NewRow(f, r, t) == [enabled |-> f.enabled, rule |-> r, catchUp |-> f.catchUp,
                    next |-> NextOf(r, t), lastBatch |-> None]

Due(c, t) == sched[c] # None /\ sched[c].enabled /\ sched[c].next <= t

\* PutAnalysisCohortSchedule: an existing row keeps its last run.
Put(c, row) ==
    /\ sched' = [sched EXCEPT ![c] = [row EXCEPT !.lastBatch =
                    IF sched[c] = None THEN None ELSE sched[c].lastBatch]]
    /\ epoch' = [epoch EXCEPT ![c] = @ + 1]
    /\ gen' = IF sched[c] = None THEN [gen EXCEPT ![c] = @ + 1] ELSE gen
    /\ UNCHANGED cohort

\* ClaimAnalysisCohortSchedule succeeds only on the row the caller expects.
Matches(c, expected) ==
    sched[c] # None /\ sched[c].enabled /\ sched[c].next = expected

Claim_NoCompare(c, expected, next) ==
    /\ sched[c] # None /\ sched[c].enabled
    /\ sched' = [sched EXCEPT ![c].next = next]
    /\ UNCHANGED <<cohort, epoch, gen>>

Claim(c, expected, next) ==
    /\ Matches(c, expected)
    /\ sched' = [sched EXCEPT ![c].next = next]
    /\ UNCHANGED <<cohort, epoch, gen>>

RecordOutcome_Clears(c, b) ==
    /\ sched' = IF sched[c] = None THEN sched ELSE [sched EXCEPT ![c].lastBatch = b]
    /\ UNCHANGED <<cohort, epoch, gen>>

\* RecordAnalysisCohortScheduleOutcome: an empty batch id keeps the last one.
RecordOutcome(c, b) ==
    /\ sched' = IF sched[c] = None \/ b = None THEN sched
                ELSE [sched EXCEPT ![c].lastBatch = b]
    /\ UNCHANGED <<cohort, epoch, gen>>

\* Something fails.
Fault(kind) ==
    /\ kind \in FaultKinds /\ faults < MaxFaults
    /\ faults' = faults + 1

-----------------------------------------------------------------------------
(* The scheduler goroutine.                                                *)

Goto(s, label) == pc' = [pc EXCEPT ![s] = label]

\* fireSchedule returns to the loop; its variables are gone.
Return(s) ==
    /\ Goto(s, "next")
    /\ cur' = [cur EXCEPT ![s] = None]
    /\ batch' = [batch EXCEPT ![s] = None]
    /\ named' = [named EXCEPT ![s] = None]
    /\ left' = [left EXCEPT ![s] = 0]
    /\ UNCHANGED <<todo, tnow>>

\* The goroutine is back at its ticker, or its process is gone.
Leave(s) ==
    /\ Goto(s, "idle")
    /\ todo' = [todo EXCEPT ![s] = {}]
    /\ cur' = [cur EXCEPT ![s] = None]
    /\ tnow' = [tnow EXCEPT ![s] = 0]
    /\ batch' = [batch EXCEPT ![s] = None]
    /\ named' = [named EXCEPT ![s] = None]
    /\ left' = [left EXCEPT ![s] = 0]

\* scheduleTick: list the due rows at the time of the tick.
Tick(s) ==
    /\ pc[s] = "idle" /\ enabled[s] /\ ~stopping[s]
    /\ \E c \in Cohorts : Due(c, now)
    /\ Goto(s, "next")
    /\ tnow' = [tnow EXCEPT ![s] = now]
    /\ todo' = [todo EXCEPT ![s] =
                  {[cohort |-> c, row |-> sched[c], fires |-> fires[c], open |-> open[c]]
                     : c \in {d \in Cohorts : Due(d, now)}}]
    /\ UNCHANGED <<now, rows, cur, left, batch, named, history, control, requests,
                   outstanding, faults>>

\* The loop of runDueSchedules ends, at its end or because the server stops.
TickEnds(s) ==
    /\ pc[s] = "next" /\ (todo[s] = {} \/ stopping[s])
    /\ Leave(s)
    /\ UNCHANGED <<now, rows, history, control, requests, outstanding, faults>>

\* The listed rows come oldest first.
First(s, k) ==
    /\ pc[s] = "next" /\ ~stopping[s]
    /\ k \in todo[s]
    /\ \A m \in todo[s] : k.row.next <= m.row.next

Take(s, k) ==
    /\ todo' = [todo EXCEPT ![s] = @ \ {k}]
    /\ cur' = [cur EXCEPT ![s] = k]
    /\ UNCHANGED <<tnow, left, batch, named>>

\* fireSchedule wins the occurrence: next_run_at moves past the tick's time.
ClaimWon(s, k) ==
    LET c == k.cohort IN
    /\ First(s, k) /\ HasNext(k.row.rule, tnow[s])
    /\ Claim(c, k.row.next, NextOf(k.row.rule, tnow[s]))
    /\ Take(s, k)
    /\ Goto(s, "cohort")
    /\ fires' = [fires EXCEPT ![c] = @ + 1]
    /\ open' = [open EXCEPT ![c] = @ + 1]
    /\ last' = [last EXCEPT ![c] =
                  [epoch |-> epoch[c], due |-> k.row.next, at |-> tnow[s]]]
    /\ serial' = [serial EXCEPT ![c] = @ /\ k.open = 0 /\ k.fires = fires[c]]
    /\ UNCHANGED <<now, owner, control, requests, outstanding, faults>>

\* Another check, a PUT or a DELETE has moved the row, or the update fails.
ClaimLost(s, k) ==
    /\ First(s, k) /\ HasNext(k.row.rule, tnow[s])
    /\ \/ ~Matches(k.cohort, k.row.next) /\ UNCHANGED faults
       \/ Fault("claim")
    /\ todo' = [todo EXCEPT ![s] = @ \ {k}]
    /\ UNCHANGED <<now, rows, pc, cur, tnow, left, batch, named, history, control,
                   requests, outstanding>>

\* The stored rule no longer yields an occurrence.
RuleBroken(s, k) ==
    /\ First(s, k) /\ ~HasNext(k.row.rule, tnow[s])
    /\ Take(s, k)
    /\ Goto(s, "disable")
    /\ UNCHANGED <<now, rows, history, control, requests, outstanding, faults>>

DisableBroken_Forgets(s) ==
    /\ pc[s] = "disable"
    /\ Return(s)
    /\ UNCHANGED <<now, rows, history, control, requests, outstanding, faults>>

\* disableBrokenSchedule writes the row it read back, disabled (the error it
\* then records has no batch id and changes nothing that is modelled).
DisableBroken(s) ==
    /\ pc[s] = "disable"
    /\ \/ Put(cur[s].cohort, [cur[s].row EXCEPT !.enabled = FALSE]) /\ UNCHANGED faults
       \/ Fault("put") /\ UNCHANGED rows
    /\ Return(s)
    /\ UNCHANGED <<now, history, control, requests, outstanding>>

\* scheduledRun reads the cohort: too late without catch-up, or no analysis
\* for the cohort, ends the firing.
ReadCohort(s) ==
    LET k == cur[s] IN
    /\ pc[s] = "cohort"
    /\ IF \/ ~k.row.catchUp /\ tnow[s] - k.row.next > Grace
          \/ cohort[k.cohort] # "on"
       THEN Goto(s, "record") ELSE Goto(s, "count")
    /\ UNCHANGED <<now, rows, todo, cur, tnow, left, batch, named, history, control,
                   requests, outstanding, faults>>

\* The last batch of the row that was listed is still active, the count
\* fails, or the server stops: nothing is submitted.
CountOutstanding(s) ==
    LET b == cur[s].row.lastBatch IN
    /\ pc[s] = "count"
    /\ \/ /\ IF (b # None /\ outstanding[b] > 0) \/ stopping[s]
             THEN Goto(s, "record") ELSE Goto(s, "resolve")
          /\ UNCHANGED faults
       \/ b # None /\ Fault("count") /\ Goto(s, "record")
    /\ UNCHANGED <<now, rows, todo, cur, tnow, left, batch, named, history, control,
                   requests, outstanding>>

\* newID returns an id that no batch has; which one makes no difference.
Unused == {b \in Batches : owner[b] = None}
NewId == CHOOSE b \in Unused : TRUE

\* submitBatch up to its first job: the tag has no domains, the tag or the
\* profile is gone, or n domains get jobs under a new batch id.
ResolveDomains(s) ==
    /\ pc[s] = "resolve"
    /\ \/ /\ Goto(s, "record")
          /\ UNCHANGED <<left, batch, owner>>
       \/ \E n \in 1 .. MaxDomains : LET b == NewId IN
            /\ Unused # {}
            /\ owner' = [owner EXCEPT ![b] =
                           [cohort |-> cur[s].cohort, gen |-> gen[cur[s].cohort]]]
            /\ batch' = [batch EXCEPT ![s] = b]
            /\ left' = [left EXCEPT ![s] = n]
            /\ Goto(s, "submit")
    /\ UNCHANGED <<now, rows, todo, cur, tnow, named, fires, open, last, serial, control,
                   requests, outstanding, faults>>

CreateJob_OneMore(s) ==
    /\ pc[s] = "submit"
    /\ left' = [left EXCEPT ![s] = @ - 1]
    /\ outstanding' = [outstanding EXCEPT ![batch[s]] = @ + 1]
    /\ UNCHANGED <<now, rows, pc, todo, cur, tnow, batch, named, history, control,
                   requests, faults>>

\* One domain: Create and Enqueue, which a worker may overtake.
CreateJob(s) ==
    /\ pc[s] = "submit" /\ left[s] > 0
    /\ left' = [left EXCEPT ![s] = @ - 1]
    /\ outstanding' = [outstanding EXCEPT ![batch[s]] = @ + 1]
    /\ UNCHANGED <<now, rows, pc, todo, cur, tnow, batch, named, history, control,
                   requests, faults>>

\* A job is not created: submitBatch returns an error and no batch id,
\* whatever it has created by then.
CreateFails(s) ==
    /\ pc[s] = "submit" /\ left[s] > 0
    /\ Fault("create")
    /\ Goto(s, "record")
    /\ UNCHANGED <<now, rows, todo, cur, tnow, left, batch, named, history, control,
                   requests, outstanding>>

\* The Batch row and the promote intent (both unread here), then the answer.
Submitted(s) ==
    /\ pc[s] = "submit" /\ left[s] = 0
    /\ named' = [named EXCEPT ![s] = batch[s]]
    /\ Goto(s, "record")
    /\ UNCHANGED <<now, rows, todo, cur, tnow, left, batch, history, control, requests,
                   outstanding, faults>>

\* The outcome is stored, or the store call fails and is only logged.
Record(s) ==
    LET c == cur[s].cohort IN
    /\ pc[s] = "record"
    /\ \/ /\ RecordOutcome(c, named[s])
          /\ open' = IF batch[s] = named[s] THEN [open EXCEPT ![c] = @ - 1] ELSE open
          /\ UNCHANGED faults
       \/ Fault("record") /\ UNCHANGED <<rows, open>>
    /\ Return(s)
    /\ UNCHANGED <<now, fires, last, serial, owner, control, requests, outstanding>>

\* The process ends at any step and is started again (a panic, which ends
\* the tick only, leaves the same state); or it stops, and its goroutine sees
\* the context before it is gone.
ProcessEnds(s) ==
    /\ \/ stopping[s] /\ UNCHANGED faults
       \/ Fault("exit")
    /\ Leave(s)
    /\ stopping' = [stopping EXCEPT ![s] = FALSE]
    /\ UNCHANGED <<now, rows, history, enabled, broken, requests, outstanding>>

Stop(s) ==
    /\ ~stopping[s] /\ Fault("stop")
    /\ stopping' = [stopping EXCEPT ![s] = TRUE]
    /\ UNCHANGED <<now, rows, loop, history, enabled, broken, requests, outstanding>>

-----------------------------------------------------------------------------
(* The API, the jobs and the clock.                                        *)

Request == reqs < MaxRequests /\ reqs' = reqs + 1

\* PUT computes the first occurrence from the current time ...
PutCompute(c, r, f) ==
    /\ put = None /\ Request
    /\ cohort[c] = "on" /\ HasNext(r, now)
    /\ put' = [cohort |-> c,
               row |-> NewRow(f, r, now)]
    /\ UNCHANGED <<now, rows, loop, history, control, outstanding, faults>>

\* ... and stores the row in a later call.
PutStore ==
    /\ put # None
    /\ Put(put.cohort, put.row)
    /\ put' = None
    /\ UNCHANGED <<now, loop, history, control, reqs, outstanding, faults>>

DeleteSchedule(c) ==
    /\ sched[c] # None /\ Request
    /\ sched' = [sched EXCEPT ![c] = None]
    /\ UNCHANGED <<now, cohort, epoch, gen, loop, history, control, put, outstanding,
                   faults>>

\* PATCH of analysis_enabled.
ToggleCohort(c) ==
    /\ cohort[c] # "gone" /\ Request
    /\ cohort' = [cohort EXCEPT ![c] = IF @ = "on" THEN "off" ELSE "on"]
    /\ UNCHANGED <<now, sched, epoch, gen, loop, history, control, put, outstanding,
                   faults>>

\* DELETE of a cohort takes its schedule with it.
DeleteCohort(c) ==
    /\ cohort[c] # "gone" /\ Request
    /\ cohort' = [cohort EXCEPT ![c] = "gone"]
    /\ sched' = [sched EXCEPT ![c] = None]
    /\ UNCHANGED <<now, epoch, gen, loop, history, control, put, outstanding, faults>>

\* The scheduler_enabled setting of one server.
ToggleScheduler(s) ==
    /\ Request
    /\ enabled' = [enabled EXCEPT ![s] = ~@]
    /\ UNCHANGED <<now, rows, loop, history, stopping, broken, put, outstanding,
                   faults>>

\* The time zone database drops the zone of a rule.
BreakRule(r) ==
    /\ r \notin broken /\ Fault("zone")
    /\ broken' = broken \cup {r}
    /\ UNCHANGED <<now, rows, loop, history, enabled, stopping, requests, outstanding>>

\* A job of the batch ends or is deleted.
JobEnds(b) ==
    /\ outstanding[b] > 0
    /\ outstanding' = [outstanding EXCEPT ![b] = @ - 1]
    /\ UNCHANGED <<now, rows, loop, history, control, requests, faults>>

Advance ==
    /\ now < MaxTime
    /\ now' = now + 1
    /\ UNCHANGED <<rows, loop, history, control, requests, outstanding, faults>>

-----------------------------------------------------------------------------
\* The rows a PUT at time 0 may have left.
Stored ==
    LET forms == [enabled: {TRUE}, catchUp: BOOLEAN]
    IN  UNION {{NewRow(f, r, 0) : f \in forms} : r \in {q \in Rules : \E o \in q : o > 0}}

Init ==
    /\ now = 0
    /\ sched \in [Cohorts -> Stored \cup {None}]
    /\ cohort = [c \in Cohorts |-> "on"]
    /\ broken = {}
    /\ outstanding = [b \in Batches |-> 0]
    /\ pc = [s \in Servers |-> "idle"]
    /\ todo = [s \in Servers |-> {}]
    /\ cur = [s \in Servers |-> None]
    /\ tnow = [s \in Servers |-> 0]
    /\ left = [s \in Servers |-> 0]
    /\ batch = [s \in Servers |-> None]
    /\ named = [s \in Servers |-> None]
    /\ enabled = [s \in Servers |-> TRUE]
    /\ stopping = [s \in Servers |-> FALSE]
    /\ put = None
    /\ reqs = 0 /\ faults = 0
    /\ epoch = [c \in Cohorts |-> 0] /\ gen = [c \in Cohorts |-> 0]
    /\ owner = [b \in Batches |-> None]
    /\ fires = [c \in Cohorts |-> 0] /\ open = [c \in Cohorts |-> 0]
    /\ last = [c \in Cohorts |-> NoClaim]
    /\ serial = [c \in Cohorts |-> TRUE]

Scheduler(s) ==
    \/ Tick(s) \/ TickEnds(s)
    \/ \E k \in todo[s] : ClaimWon(s, k) \/ ClaimLost(s, k) \/ RuleBroken(s, k)
    \/ DisableBroken(s) \/ ReadCohort(s) \/ CountOutstanding(s) \/ ResolveDomains(s)
    \/ CreateJob(s) \/ CreateFails(s) \/ Submitted(s) \/ Record(s)

Api ==
    \/ \E c \in Cohorts, r \in Rules, f \in Forms : PutCompute(c, r, f)
    \/ PutStore
    \/ \E c \in Cohorts : DeleteSchedule(c) \/ ToggleCohort(c) \/ DeleteCohort(c)
    \/ \E s \in Servers : ToggleScheduler(s)

Next ==
    \/ \E s \in Servers : Scheduler(s) \/ ProcessEnds(s) \/ Stop(s)
    \/ Api
    \/ \E r \in Rules : BreakRule(r)
    \/ \E b \in Batches : JobEnds(b)
    \/ Advance

Spec == Init /\ [][Next]_vars

\* The scheduler goroutines run (the ticker ticks for ever), and a process
\* that stops is started again.
LiveSpec ==
    /\ Spec
    /\ \A s \in Servers : WF_vars(Scheduler(s)) /\ WF_vars(stopping[s] /\ ProcessEnds(s))

-----------------------------------------------------------------------------
\* "The claim makes a firing at most once" (docs/architecture.md), and
\* downtime yields one run: between two writes of a row by the API, a
\* claimed occurrence lies after the time of the tick that made the claim
\* before it, whichever server that was and however stale its copy is.
FiresOnce ==
    [][\A c \in Cohorts :
         fires'[c] # fires[c] /\ last[c].epoch = epoch[c] /\ fires[c] > 0
           => last'[c].due > last[c].at]_vars

Active(c, g) ==
    {b \in Batches : owner[b] = [cohort |-> c, gen |-> g] /\ outstanding[b] > 0}

\* Runs do not overlap as long as each firing has read what the one before
\* it stored: skipping keeps the last batch, so a chain of skipped firings
\* still waits for the batch that is active, and a PUT keeps it too.
SerialRunsDoNotOverlap ==
    \A c \in Cohorts : serial[c] => \A g \in 0 .. gen[c] : Cardinality(Active(c, g)) <= 1

\* A due row does not stay due: it is claimed, disabled or removed, by any
\* server that is left with its scheduler on, whatever failed before.
DueIsHandled ==
    (\E s \in Servers : <>[](enabled[s]))
      => \A c \in Cohorts : Due(c, now) ~> ~Due(c, now)
=============================================================================
