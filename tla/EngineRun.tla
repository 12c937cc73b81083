----------------------------- MODULE EngineRun -----------------------------
(***************************************************************************)
(* One run of the engine for a job: the test plan (engine/plan.go and the  *)
(* All function of every test module), test cases that query the servers   *)
(* of a zone in parallel (engine/internal/parallel, test/internal/runner), *)
(* the log that collects their entries and calls back (engine/logger,      *)
(* test/internal/testcase), and what the server makes of the callbacks and *)
(* of the result (worker.go).                                              *)
(*                                                                         *)
(* A test case logs its start, asks its servers, one task for each, logs   *)
(* its verdict and its end.  What a case finds is a choice of `world'.     *)
(* Of the queries only the log entry remains; what the query layer does is *)
(* in NameserverQuery.  All callers of the parallel runner leave           *)
(* CancelOnError off.  Entries are captured at every level.                *)
(***************************************************************************)
EXTENDS Integers, Sequences, FiniteSets, SequencesExt

CONSTANTS
    None,
    Profile,            \* the test cases that the profile selects, at least one
    Scenarios,          \* [req, world, faults]: runs to look at (below)
    Width,              \* case -> the servers it asks
    MaxParallel,        \* the largest resolver.defaults.parallel
    FaultKinds          \* of panics, errors, failing callbacks, a cancelled or overdue job

-----------------------------------------------------------------------------
(* The test plan.                                                          *)

moduleOrder == <<"basic", "address", "connectivity", "consistency", "delegation", "dnssec",
                 "nameserver", "syntax", "zone">>

BasicAll == <<"basic01", "basic02", "basic03">>
AddressAll == <<"address01", "address02", "address03">>
ConnectivityAll == <<"connectivity01", "connectivity02", "connectivity03", "connectivity04",
                     "connectivity05">>
ConsistencyAll == <<"consistency01", "consistency02", "consistency03", "consistency04",
                    "consistency05", "consistency06">>
DelegationAll == <<"delegation01", "delegation02", "delegation03", "delegation04",
                   "delegation05", "delegation06", "delegation07">>
DNSSECAll == <<"dnssec07", "dnssec11", "dnssec19", "dnssec01", "dnssec02", "dnssec03",
               "dnssec04", "dnssec05", "dnssec06", "dnssec08", "dnssec09", "dnssec10",
               "dnssec13", "dnssec14", "dnssec15", "dnssec16", "dnssec17", "dnssec18",
               "dnssec20", "dnssec21", "dnssec22", "dnssec23", "dnssec24">>
NameserverAll == <<"nameserver01", "nameserver02", "nameserver03", "nameserver04",
                   "nameserver05", "nameserver06", "nameserver07", "nameserver08",
                   "nameserver09", "nameserver10", "nameserver11", "nameserver12",
                   "nameserver13", "nameserver15", "nameserver16", "nameserver17",
                   "nameserver18">>
SyntaxAll == <<"syntax01", "syntax02", "syntax03", "syntax04", "syntax05", "syntax06",
               "syntax07", "syntax08">>
ZoneAll == <<"zone01", "zone02", "zone03", "zone04", "zone05", "zone06", "zone07", "zone08",
             "zone09", "zone10", "zone11", "zone12", "zone13", "zone14", "zone15">>

moduleTestcases ==
    [basic |-> BasicAll, address |-> AddressAll, connectivity |-> ConnectivityAll,
     consistency |-> ConsistencyAll, delegation |-> DelegationAll, dnssec |-> DNSSECAll,
     nameserver |-> NameserverAll, syntax |-> SyntaxAll, zone |-> ZoneAll]
Modules == Range(moduleOrder)
Order == FlattenSeq([i \in DOMAIN moduleOrder |-> moduleTestcases[moduleOrder[i]]])
Cases == Range(Order)

ExpandExclusions(names) ==
    UNION {IF n \in Modules THEN Range(moduleTestcases[n]) ELSE {n} : n \in names}

\* The selection, or {} when the request is refused: it names a case that it
\* excludes or that is not of its module, or nothing is left.
PlannedTestcases(r) ==
    LET excluded == ExpandExclusions(r.exclude)
        ofModule == IF r.module = None THEN Cases ELSE Range(moduleTestcases[r.module])
    IN  IF r.cases # {}
        THEN IF r.cases \subseteq ofModule \ excluded THEN r.cases ELSE {}
        ELSE (IF r.module = None THEN Profile ELSE ofModule) \ excluded

\* What a case finds is never one of the engine's own entries.
ASSUME EngineAssumption ==
    /\ \A s \in Scenarios, c \in Cases :
           s.world.verdict[c] \notin {"EXTERNAL_QUERY", "LOGGER_CALLBACK_ERROR"}
    /\ Width \in [Cases -> Nat] /\ MaxParallel \in Nat

VARIABLES
    req,                        \* [module, cases, exclude, parallel]: a module or
                                \* None, explicit cases, cases or modules to leave out
    world,                      \* [verdict, answers]: the tag that a case has reason
                                \* to log, or None; what a server asked in parallel answers
    mpc, at,                    \* the run: its place, the case of the plan it is at,
    entries, results,           \* the entries of the case and of the run,
    failed, status,             \* None, "error" or "panic"; the status of the job
    next, tpc, job,             \* parallel runner: the task to dispatch, the place
                                \* and the task of a goroutine,
    outs, errs, caught,         \* the tasks' results and errors, a caught panic
    cause, fanDone,             \* why the job's context is done, or None; the runner's
    log, pending,               \* the case's logger: entries, entries to call back,
    running, live, runLive,     \* callbackRunning; Callback of it and of the run's
    ticks,                      \* the clock that stamps entries, from the start of a case
    cb, counted,                \* the callback a goroutine is in; dnsQueryCounter
    sent, broke, faults         \* history: queries sent; did a callback fail? faults to come

plan == <<req, world>>
run == <<mpc, at, entries, results, failed, status>>
fan == <<next, tpc, job, outs, errs, caught, fanDone>>
callbacks == <<pending, running, live, runLive, cb>>
history == <<sent, broke, faults>>
vars == <<plan, run, fan, cause, log, callbacks, ticks, counted, history>>

Main == 0
Workers == IF req.parallel > 1 THEN 1..req.parallel ELSE {}
Goroutines == 0..MaxParallel

Selected == PlannedTestcases(req)
jobDone == cause # None
ShouldRunTest(c) == c \in Selected
Full == req.cases = {} /\ req.module = None

Fault(kind) == kind \in FaultKinds /\ faults > 0 /\ faults' = faults - 1

-----------------------------------------------------------------------------
(* Which cases run: a case may depend on what earlier ones of its module    *)
(* have found.  rs are the entries so far.                                  *)

Module(c) == CHOOSE m \in Modules : c \in Range(moduleTestcases[m])
Upto(c) ==
    LET cs == moduleTestcases[Module(c)]
    IN  {cs[i] : i \in 1..CHOOSE i \in DOMAIN cs : cs[i] = c}
HasTag(rs, tag, last) == \E i \in DOMAIN rs : rs[i].tag = tag /\ rs[i].case \in Upto(last)

\* Basic.All ends without a child zone; Basic03 is for a zone without a SOA.
BasicGate(c, rs) ==
    c # "basic01" /\ ShouldRunTest("basic01") => HasTag(rs, "B01_CHILD_FOUND", "basic01")
SkipsBasic03(c, rs) ==
    c = "basic03" /\ ShouldRunTest("basic02") /\ HasTag(rs, "B02_AUTH_RESPONSE_SOA", "basic02")

AddressGate(c, rs) ==
    c = "address03" /\ ShouldRunTest("address02") =>
        HasTag(rs, "NAMESERVERS_IP_WITH_REVERSE", "address02")

DNSSECGate(c, rs) ==
    c \notin {"dnssec07", "dnssec11"} => ~HasTag(rs, "DS07_NOT_SIGNED", "dnssec11")

SyntaxGate(c, rs) ==
    /\ c \notin {"syntax01", "syntax02", "syntax03"} /\ ShouldRunTest("syntax01") =>
           HasTag(rs, "ONLY_ALLOWED_CHARS", "syntax01")
    /\ c \in {"syntax06", "syntax07"} /\ ShouldRunTest("syntax05") =>
           ~HasTag(rs, "NO_RESPONSE_SOA_QUERY", "syntax05")

spfPolicyAccepted(rs) ==
    \E tag \in {"Z11_SPF_SYNTAX_OK", "Z11_NULL_SPF_NON_MAIL_DOMAIN",
                "Z11_NON_NULL_SPF_NON_MAIL_DOMAIN"} : HasTag(rs, tag, "zone12")
ZoneGate(c, rs) ==
    /\ c = "zone09" => ~HasTag(rs, "NO_RESPONSE_MX_QUERY", "zone08")
    /\ c \in {"zone10", "zone11", "zone12", "zone13"} =>
           ~HasTag(rs, "NO_RESPONSE_SOA_QUERY", "zone09")
    /\ c = "zone13" => spfPolicyAccepted(rs) \/ ~ShouldRunTest("zone11")

Gate(c, rs) ==
    CASE Module(c) = "basic"   -> BasicGate(c, rs)
      [] Module(c) = "address" -> AddressGate(c, rs)
      [] Module(c) = "dnssec"  -> DNSSECGate(c, rs)
      [] Module(c) = "syntax"  -> SyntaxGate(c, rs)
      [] Module(c) = "zone"    -> ZoneGate(c, rs)
      [] OTHER -> TRUE

\* After Basic a full run goes on only with a zone that answers.
CanContinue(rs) ==
    ShouldRunTest("basic02") =>
        /\ ~HasTag(rs, "B02_NO_DELEGATION", "basic03")
        /\ HasTag(rs, "B02_AUTH_RESPONSE_SOA", "basic03")
IsDNAMEAlias(rs) == HasTag(rs, "B01_CHILD_IS_ALIAS", "basic03")

-----------------------------------------------------------------------------
(* The logger: one goroutine at a time runs callbacks; what is logged       *)
(* meanwhile waits for it.  The callback of a job counts the queries, with  *)
(* no lock of its own.                                                      *)

Entry(c, tag, t) == [case |-> c, tag |-> tag, task |-> t, ts |-> ticks]
Item(c, tag, t) == [case |-> c, tag |-> tag, task |-> t]
Bare(es) == [i \in DOMAIN es |-> Item(es[i].case, es[i].tag, es[i].task)]
NoCall == [on |-> FALSE, tag |-> None, read |-> -1]
Call(e) == [on |-> TRUE, tag |-> e.tag, read |-> -1]
Free(g) == ~cb[g].on

AddTo_Overlaps(g, old, e, alive) ==
    /\ log' = Append(old, e) /\ ticks' = e.ts + 1
    /\ running' = alive
    /\ cb' = IF alive THEN [cb EXCEPT ![g] = Call(e)] ELSE cb
    /\ UNCHANGED pending

\* Add to a logger with the entries old, whose Callback is set if alive.
AddTo(g, old, e, alive) ==
    /\ log' = Append(old, e) /\ ticks' = e.ts + 1
    /\ running' = alive
    /\ cb' = IF alive /\ ~running THEN [cb EXCEPT ![g] = Call(e)] ELSE cb
    /\ pending' = IF alive /\ running THEN Append(pending, e) ELSE pending

Add(g, e) == AddTo(g, log, e, live) /\ UNCHANGED <<live, runLive>>

QueryCounterReads(g) ==
    /\ ~Free(g) /\ cb[g].read = -1
    /\ cb' = [cb EXCEPT ![g].read = counted]
    /\ UNCHANGED <<plan, run, fan, cause, log, pending, running, live, runLive, ticks, counted,
                   history>>

\* The counter is written, and the next entry that waits is called back.
CallbackReturns(g) ==
    /\ ~Free(g) /\ cb[g].read # -1
    /\ counted' = cb[g].read + IF cb[g].tag = "EXTERNAL_QUERY" THEN 1 ELSE 0
    /\ running' = (pending # <<>>)
    /\ cb' = [cb EXCEPT ![g] = IF pending = <<>> THEN NoCall ELSE Call(Head(pending))]
    /\ pending' = IF pending = <<>> THEN <<>> ELSE Tail(pending)
    /\ UNCHANGED <<plan, run, fan, cause, log, live, runLive, ticks, history>>

\* The callback fails or panics: it is dropped, with the entries that wait.
CallbackFails(g) ==
    /\ ~Free(g) /\ cb[g].read = -1 /\ Fault("callback")
    /\ running' = FALSE /\ cb' = [cb EXCEPT ![g] = NoCall] /\ pending' = <<>>
    /\ live' = FALSE /\ runLive' = (runLive /\ mpc # "plan")
    /\ log' = Append(log, Entry(None, "LOGGER_CALLBACK_ERROR", 0)) /\ ticks' = ticks + 1
    /\ broke' = TRUE
    /\ UNCHANGED <<plan, run, fan, cause, counted, sent>>

-----------------------------------------------------------------------------
(* The run: one case of the plan after the other.                           *)

Due ==
    {i \in DOMAIN Order :
        /\ i > at /\ ShouldRunTest(Order[i]) /\ Gate(Order[i], results)
        /\ Full /\ i > Len(BasicAll) => CanContinue(results)}
Earliest(is) == {i \in is : \A j \in is : i <= j}
Case == Order[at]
Servers == 1..Width[Case]

\* testcase.Run starts a case with a logger of its own, which calls back as the
\* run's does; the case logs its start and has its tasks made.
StartCase ==
    /\ mpc = "plan" /\ Free(Main)
    /\ \E i \in Earliest(Due) :
       LET c == Order[i]
           e == [Entry(c, "TEST_CASE_START", 0) EXCEPT !.ts = 0]
       IN  /\ ~SkipsBasic03(c, results)
           /\ at' = i
           /\ entries' = <<e>>
           /\ AddTo(Main, <<>>, e, runLive) /\ live' = runLive
           /\ mpc' = IF Width[c] = 0 THEN "close" ELSE "gate"
           /\ next' = 1 /\ caught' = FALSE /\ fanDone' = FALSE /\ errs' = {}
           /\ outs' = [t \in 1..Width[c] |-> [ok |-> FALSE, log |-> <<>>]]
           /\ tpc' = [w \in Goroutines |-> IF w \in Workers /\ w <= Width[c] THEN "idle" ELSE "off"]
    /\ UNCHANGED <<plan, results, failed, job, cause, runLive, counted, status, history>>

\* With an answer to the SOA query, Basic.All only logs that there is no Basic03.
SkipBasic03 ==
    /\ mpc = "plan" /\ Free(Main)
    /\ \E i \in Earliest(Due) :
       LET c == Order[i]
           e == [Entry(c, "HAS_NAMESERVER_NO_WWW_A_TEST", 0) EXCEPT !.ts = 0]
       IN  /\ SkipsBasic03(c, results)
           /\ at' = i
           /\ results' = Append(results, Item(e.case, e.tag, 0))
           /\ AddTo(Main, <<>>, e, runLive)
    /\ UNCHANGED <<plan, mpc, entries, failed, status, fan, cause, live, runLive, counted, history>>

\* After the last case, or after Basic when the zone does not answer.
PlanEnds ==
    /\ mpc = "plan" /\ Free(Main) /\ Due = {}
    /\ mpc' = "returned"
    /\ failed' = IF Selected = {} THEN "error" ELSE None
    /\ results' = IF Full /\ Selected # {} /\ ~CanContinue(results) /\ ~IsDNAMEAlias(results)
                  THEN Append(results, Item(None, "CANNOT_CONTINUE", 0)) ELSE results
    /\ UNCHANGED <<plan, at, entries, status, fan, cause, log, callbacks, ticks, counted, history>>

-----------------------------------------------------------------------------
(* RunOrdered: the run dispatches the tasks in order to a pool of workers,  *)
(* or does them itself one by one.                                          *)

FanDone == jobDone \/ fanDone

\* The dispatcher looks at the context before every task; with it done, the
\* tasks that are left fail with its error.
DispatcherChecks ==
    /\ mpc = "gate" /\ Free(Main)
    /\ mpc' = IF FanDone \/ next \notin Servers THEN "wait" ELSE "send"
    /\ errs' = errs \cup {t \in Servers : FanDone /\ t >= next}
    /\ UNCHANGED <<plan, at, entries, results, failed, status, next, tpc, job, outs, caught, fanDone,
                   cause, log, callbacks, ticks, counted, history>>

\* A worker receives the task, also when the context is done by now.  Without
\* workers the run does it itself.
Receive(g) ==
    /\ mpc = "send" /\ IF Workers = {} THEN g = Main ELSE tpc[g] = "idle"
    /\ tpc' = [tpc EXCEPT ![g] = "query"] /\ job' = [job EXCEPT ![g] = next]
    /\ next' = next + 1
    /\ mpc' = IF g = Main THEN "self" ELSE "gate"
    /\ UNCHANGED <<plan, at, entries, results, failed, status, outs, errs, caught, fanDone,
                   cause, log, callbacks, ticks, counted, history>>

\* A query, which is logged with the logger of the case.
SendQuery(g) ==
    /\ tpc[g] = "query"
    /\ tpc' = [tpc EXCEPT ![g] = "answer"]
    /\ Add(g, Entry(Case, "EXTERNAL_QUERY", job[g])) /\ sent' = sent + 1
    /\ UNCHANGED <<plan, run, next, job, outs, errs, caught, fanDone, cause, counted, broke, faults>>

\* With the context done no query leaves.
QueryRefused(g) ==
    /\ tpc[g] = "query" /\ FanDone
    /\ tpc' = [tpc EXCEPT ![g] = "answer"]
    /\ UNCHANGED <<plan, run, next, job, outs, errs, caught, fanDone, cause, log, callbacks, ticks,
                   counted, history>>

\* Where a goroutine is after its task: a worker looks for panics, the run
\* itself goes on.
TaskDone(g) ==
    /\ tpc' = [tpc EXCEPT ![g] = IF g = Main THEN "off" ELSE "check"]
    /\ mpc' = IF g = Main THEN "gate" ELSE mpc

\* A server that answers without authority is a finding; one that does not
\* answer, also because the query was cut off, is none.  Findings are logged with
\* a logger of the task, which calls nothing back.
TaskReturns(g) ==
    /\ tpc[g] = "answer" /\ Free(g)
    /\ \E a \in {world.answers[job[g]]} \cup IF FanDone THEN {"none"} ELSE {} :
           outs' = [outs EXCEPT ![job[g]] =
               [ok |-> a = "authority",
                log |-> IF a = "no_authority"
                        THEN <<Entry(Case, "IS_NOT_AUTHORITATIVE", job[g])>> ELSE <<>>]]
    /\ ticks' = IF outs'[job[g]].log = <<>> THEN ticks ELSE ticks + 1
    /\ TaskDone(g)
    /\ UNCHANGED <<plan, at, entries, results, failed, status, next, job, errs, caught, fanDone,
                   cause, log, callbacks, counted, history>>

TaskFails(g) ==
    /\ tpc[g] = "answer" /\ Free(g)
    /\ Fault("error") \/ (FanDone /\ UNCHANGED faults)
    /\ errs' = errs \cup {job[g]}
    /\ TaskDone(g)
    /\ UNCHANGED <<plan, at, entries, results, failed, status, next, job, outs, caught, fanDone,
                   cause, log, callbacks, ticks, counted, sent, broke>>

\* A panic of a worker is caught; one of the run itself ends it.
TaskPanics(g) ==
    /\ tpc[g] = "answer" /\ Free(g) /\ Fault("panic")
    /\ IF g = Main
       THEN failed' = "panic" /\ mpc' = "returned" /\ UNCHANGED caught
       ELSE caught' = TRUE /\ UNCHANGED <<failed, mpc>>
    /\ tpc' = [tpc EXCEPT ![g] = IF g = Main THEN "off" ELSE "check"]
    /\ UNCHANGED <<plan, at, entries, results, status, next, job, outs, errs, fanDone,
                   cause, log, callbacks, ticks, counted, sent, broke>>

WorkerChecks_Leaves(w) ==
    /\ tpc[w] = "check"
    /\ tpc' = [tpc EXCEPT ![w] = IF caught THEN "off" ELSE "idle"]
    /\ fanDone' = (fanDone \/ caught)
    /\ UNCHANGED <<plan, run, next, job, outs, errs, caught, cause, log, callbacks, ticks, counted,
                   history>>

\* After a panic the worker cancels the rest, and goes on reading tasks.
WorkerChecks(w) ==
    /\ tpc[w] = "check"
    /\ tpc' = [tpc EXCEPT ![w] = "idle"]
    /\ fanDone' = (fanDone \/ caught)
    /\ UNCHANGED <<plan, run, next, job, outs, errs, caught, cause, log, callbacks, ticks, counted,
                   history>>

\* runner.Run: the entries in the order of the tasks, and whether one failed.
Collected(ts) ==
    [error |-> errs # {}, log |-> FlattenSeq([t \in 1..Cardinality(ts) |-> outs[t].log])]

\* All workers have left.  A caught panic is raised again and ends the run; an
\* error ends the case with the entries it has.
Collect ==
    /\ mpc = "wait" /\ \A w \in Workers : tpc[w] \in {"idle", "off"}
    /\ tpc' = [g \in Goroutines |-> "off"]
    /\ LET c == Collected(Servers)
       IN  \/ /\ caught
              /\ failed' = "panic" /\ mpc' = "returned" /\ UNCHANGED entries
           \/ /\ ~caught /\ c.error
              /\ failed' = "error" /\ mpc' = "merge" /\ UNCHANGED entries
           \/ /\ ~caught /\ ~c.error
              /\ entries' = entries \o c.log /\ mpc' = "close" /\ UNCHANGED failed
    /\ UNCHANGED <<plan, at, results, status, next, job, outs, errs, caught, fanDone, cause, log,
                   callbacks, ticks, counted, history>>

-----------------------------------------------------------------------------
(* The end of a case, of the run and of the job.                            *)

\* A case that asks in parallel has a verdict when no server was found at fault
\* and one was not.
Verdict(c, es, oks) ==
    IF Width[c] = 0 THEN world.verdict[c]
    ELSE IF oks # {} /\ \A i \in DOMAIN es : es[i].tag # "IS_NOT_AUTHORITATIVE"
         THEN "ARE_AUTHORITATIVE" ELSE None

\* Once the job is cancelled queries fail, and the case may find nothing to log.
LogVerdict ==
    /\ mpc = "close" /\ Free(Main)
    /\ mpc' = "end"
    /\ \E v \in {Verdict(Case, entries, {t \in Servers : outs[t].ok})} \cup
                    IF jobDone THEN {None} ELSE {} :
           LET e == Entry(Case, v, 0)
           IN  IF v = None THEN UNCHANGED <<entries, log, ticks, callbacks>>
               ELSE entries' = Append(entries, e) /\ Add(Main, e)
    /\ UNCHANGED <<plan, at, results, failed, status, fan, cause, counted, history>>

CaseFails ==
    /\ mpc = "close" /\ Free(Main)
    /\ Fault("error") \/ (jobDone /\ UNCHANGED faults)
    /\ failed' = "error" /\ mpc' = "merge"
    /\ UNCHANGED <<plan, at, entries, results, status, fan, cause, log, callbacks, ticks, counted,
                   sent, broke>>

CasePanics ==
    /\ mpc = "close" /\ Free(Main) /\ Fault("panic")
    /\ failed' = "panic" /\ mpc' = "returned"
    /\ UNCHANGED <<plan, at, entries, results, status, fan, cause, log, callbacks, ticks, counted,
                   sent, broke>>

LogEnd ==
    /\ mpc = "end" /\ Free(Main)
    /\ LET e == Entry(Case, "TEST_CASE_END", 0)
       IN  entries' = Append(entries, e) /\ Add(Main, e)
    /\ mpc' = "merge"
    /\ UNCHANGED <<plan, at, results, failed, status, fan, cause, counted, history>>

\* The extras, in the order of their stamps, are put before the first entry that is
\* later than they are.
MergeExtras(es, unsorted) ==
    LET extras == SortSeq(unsorted, LAMBDA x, y : x.ts < y.ts)
        insert(acc, e) ==
            [out |-> acc.out \o SelectSeq(acc.left, LAMBDA x : x.ts < e.ts) \o <<e>>,
             left |-> SelectSeq(acc.left, LAMBDA x : x.ts >= e.ts)]
        merged == FoldLeft(insert, [out |-> <<>>, left |-> extras], es)
    IN  merged.out \o merged.left

\* The case's parallel runner is no more.
FanGone ==
    /\ next' = 1 /\ outs' = <<>> /\ errs' = {} /\ caught' = FALSE /\ fanDone' = FALSE
    /\ tpc' = [g \in Goroutines |-> "off"] /\ job' = [g \in Goroutines |-> 1]

\* testcase.Run: what the logger has and the case did not return is merged in by
\* its time; an error ends the run.  The run's logger calls back for the entries
\* of tasks, which the query counter ignores.
MergeCase ==
    /\ mpc = "merge" /\ Free(Main)
    /\ results' = results \o
           Bare(MergeExtras(entries, SelectSeq(log, LAMBDA x : x \notin Range(entries))))
    /\ mpc' = IF failed = None THEN "plan" ELSE "returned"
    /\ entries' = <<>> /\ log' = <<>> /\ FanGone
    /\ UNCHANGED <<plan, at, failed, status, cause, callbacks, ticks, counted, history>>

Outcome_Unchecked(why, how) == IF how # None THEN "failed" ELSE "succeeded"

\* runJob: a job that was cut off has not succeeded, whatever the run returned.
Outcome(why, how) ==
    CASE why = "timeout" -> "failed"
      [] why = "cancel"  -> "canceled"
      [] OTHER -> IF how # None THEN "failed" ELSE "succeeded"

Finish ==
    /\ mpc = "returned" /\ status = "running"
    /\ status' = Outcome(cause, failed)
    /\ UNCHANGED <<plan, mpc, at, entries, results, failed, fan, cause, log, callbacks, ticks, counted,
                   history>>

\* The job is cancelled, or its time is up; the first of them is the cause.
Cancel ==
    /\ status = "running" /\ ~jobDone
    /\ \E why \in {"cancel", "timeout"} : Fault(why) /\ cause' = why
    /\ UNCHANGED <<plan, run, fan, log, callbacks, ticks, counted, sent, broke>>

-----------------------------------------------------------------------------

Init ==
    /\ \E s \in Scenarios : req = s.req /\ world = s.world /\ faults = s.faults
    /\ mpc = "plan" /\ at = 0 /\ entries = <<>> /\ results = <<>> /\ failed = None
    /\ status = "running"
    /\ next = 1 /\ tpc = [g \in Goroutines |-> "off"] /\ job = [g \in Goroutines |-> 1]
    /\ outs = <<>> /\ errs = {} /\ caught = FALSE /\ fanDone = FALSE /\ cause = None
    /\ log = <<>> /\ pending = <<>> /\ running = FALSE /\ live = TRUE /\ runLive = TRUE
    /\ cb = [g \in Goroutines |-> NoCall] /\ ticks = 0
    /\ counted = 0 /\ sent = 0 /\ broke = FALSE

TaskStep(g) ==
    SendQuery(g) \/ QueryRefused(g) \/ TaskReturns(g) \/ TaskFails(g) \/ TaskPanics(g)
Callback(g) == QueryCounterReads(g) \/ CallbackReturns(g) \/ CallbackFails(g)
RunStep ==
    \/ StartCase \/ SkipBasic03 \/ PlanEnds \/ DispatcherChecks \/ Collect
    \/ LogVerdict \/ CaseFails \/ CasePanics \/ LogEnd \/ MergeCase \/ Finish
WorkerStep(w) == Receive(w) \/ WorkerChecks(w)

Next ==
    \/ \E g \in Goroutines : Callback(g) \/ TaskStep(g) \/ WorkerStep(g)
    \/ RunStep \/ Cancel

Spec == Init /\ [][Next]_vars

\* Goroutines go on running; queries return (QueriesReturn of NameserverQuery).
Fairness ==
    /\ WF_vars(RunStep)
    /\ \A g \in Goroutines : WF_vars(Callback(g) \/ TaskStep(g) \/ WorkerStep(g))
LiveSpec == Spec /\ Fairness

-----------------------------------------------------------------------------
(* Properties.                                                             *)

\* What a run of the plan, one task after the other, finds in this world.
Findings(c) ==
    [t \in 1..Width[c] |-> IF world.answers[t] = "no_authority"
                           THEN <<Item(c, "IS_NOT_AUTHORITATIVE", t)>> ELSE <<>>]
CaseAlone(c) ==
    LET found == FlattenSeq(Findings(c))
        v == Verdict(c, found, {t \in 1..Width[c] : world.answers[t] = "authority"})
    IN  <<Item(c, "TEST_CASE_START", 0)>> \o found
            \o (IF v = None THEN <<>> ELSE <<Item(c, v, 0)>>) \o <<Item(c, "TEST_CASE_END", 0)>>
Sequential ==
    LET step(rs, c) ==
            IF \/ ~ShouldRunTest(c) \/ ~Gate(c, rs)
               \/ Full /\ Module(c) # "basic" /\ ~CanContinue(rs)
            THEN rs
            ELSE rs \o IF SkipsBasic03(c, rs) THEN <<Item(c, "HAS_NAMESERVER_NO_WWW_A_TEST", 0)>>
                       ELSE CaseAlone(c)
        all == FoldLeft(step, <<>>, Order)
    IN  IF Full /\ ~CanContinue(all) /\ ~IsDNAMEAlias(all)
        THEN Append(all, Item(None, "CANNOT_CONTINUE", 0)) ELSE all

IsExtra(e) == e.tag \in {"EXTERNAL_QUERY", "LOGGER_CALLBACK_ERROR"}

\* A job that succeeded has what a sequential run would have found, in its order,
\* and every query once: whatever the order in which the tasks ran and logged,
\* and although panics, errors, a failing callback, a cancellation or the job's
\* timeout may cut tasks off (RunOrdered, runner.Run "merges log entries deterministically",
\* testcase.Run, runJob).
SucceededAsSequential ==
    status = "succeeded" =>
        LET queries == {i \in DOMAIN results : results[i].tag = "EXTERNAL_QUERY"}
        IN  /\ SelectSeq(results, LAMBDA e : ~IsExtra(e)) = Sequential
            /\ Cardinality(queries) = sent
            /\ \A i, j \in queries : i # j => results[i] # results[j]

\* Every query is counted once: the counter of a job has no lock and relies on the
\* logger to run one callback at a time and none too few (Logger.Add,
\* runCallbacks), unless the callback itself has failed.
QueriesCounted == status # "running" /\ ~broke => counted = sent

\* A run ends and leaves no goroutine behind, with panics in workers, in the run
\* itself, failing callbacks and a cancelled context (RunOrdered: the dispatcher
\* blocks on a channel that only workers read).
RunEnds == <>[](status # "running" /\ \A g \in Goroutines : tpc[g] = "off" /\ Free(g))
=============================================================================
