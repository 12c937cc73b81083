----------------------- MODULE CohortSchedulerProofs -----------------------
(***************************************************************************)
(* Proofs about CohortScheduler, for any servers, cohorts, rules and       *)
(* bounds: types; a claimed occurrence lies after the tick that made the   *)
(* claim before it; and runs of one schedule do not overlap while each     *)
(* firing has read the answer of the one before.                           *)
(***************************************************************************)
EXTENDS CohortScheduler, FiniteSetTheorems, TLAPS

\* Next of a rule, where there is one, is an occurrence after t.
LEMMA NextIsLater ==
    ASSUME NEW r \in Rules, NEW t \in Times, \E o \in r : o > t
    PROVE  NextOf(r, t) \in Nat /\ NextOf(r, t) > t
<1>1. \E o \in r : o > t /\ \A p \in r : p > t => o <= p
  BY RuleAssumption
<1>2. NextOf(r, t) \in r /\ NextOf(r, t) > t
  BY <1>1 DEF NextOf
<1>. QED
  BY <1>2, ScheduleAssumption

LEMMA NewRowType ==
    ASSUME NEW r \in Rules, NEW t \in Times, \E o \in r : o > t,
           NEW f \in [enabled: BOOLEAN, catchUp: BOOLEAN]
    PROVE  NewRow(f, r, t) \in Row
  BY NextIsLater DEF NewRow, Row

\* A write of a schedule keeps the types of the rows.
LEMMA PutType ==
    ASSUME SchedTypeOK, NEW c \in Cohorts, NEW row \in Row, Put(c, row)
    PROVE  /\ sched' \in [Cohorts -> Row \cup {None}]
           /\ cohort' = cohort
           /\ epoch' \in [Cohorts -> Nat] /\ gen' \in [Cohorts -> Nat]
<1>1. [row EXCEPT !.lastBatch = IF sched[c] = None THEN None ELSE sched[c].lastBatch] \in Row
  BY DEF SchedTypeOK, Row
<1>. QED
  BY <1>1 DEF SchedTypeOK, Put

\* The initial states have the types.
LEMMA SchedTypeInit == Init => SchedTypeOK
<1>. SUFFICES ASSUME Init PROVE SchedTypeOK
  OBVIOUS
<1>1. 0 \in Times
  BY ScheduleAssumption DEF Times
<1>2. Stored \subseteq Row
  <2>. SUFFICES ASSUME NEW x \in Stored PROVE x \in Row
    OBVIOUS
  <2>1. PICK r \in {q \in Rules : \E o \in q : o > 0} :
            x \in {NewRow(f, r, 0) : f \in [enabled: {TRUE}, catchUp: BOOLEAN]}
    BY DEF Stored
  <2>2. PICK f \in [enabled: {TRUE}, catchUp: BOOLEAN] : x = NewRow(f, r, 0)
    BY <2>1
  <2>3. f \in [enabled: BOOLEAN, catchUp: BOOLEAN]
    OBVIOUS
  <2>. QED
    BY <1>1, <2>1, <2>2, <2>3, NewRowType
<1>. QED
  BY <1>1, <1>2, ScheduleAssumption DEF Init, SchedTypeOK, PCs, NoClaim

\* Every step keeps the types.
LEMMA SchedTypeStep == SchedTypeOK /\ [Next]_vars => SchedTypeOK'
<1>. SUFFICES ASSUME SchedTypeOK, [Next]_vars PROVE SchedTypeOK'
  OBVIOUS
<1>. USE ScheduleAssumption DEF SchedTypeOK, rows, loop, history, control, requests, Goto, PCs
<1>1. ASSUME NEW s \in Servers, Tick(s) PROVE SchedTypeOK'
  <2>1. \A c \in Cohorts : Due(c, now) =>
          [cohort |-> c, row |-> sched[c], fires |-> fires[c], open |-> open[c]] \in Copy
    BY DEF Due, Copy
  <2>2. todo' \in [Servers -> SUBSET Copy]
    BY <1>1, <2>1 DEF Tick
  <2>. QED
    BY <1>1, <2>2 DEF Tick
<1>2. ASSUME NEW s \in Servers, TickEnds(s) PROVE SchedTypeOK'
  <2>1. 0 \in Times /\ 0 \in 0 .. MaxDomains
    BY DEF Times
  <2>. QED
    BY <1>2, <2>1 DEF TickEnds, Leave
<1>3. ASSUME NEW s \in Servers, NEW k \in todo[s], ClaimWon(s, k) PROVE SchedTypeOK'
  <2>1. k \in Copy /\ k.cohort \in Cohorts /\ k.row \in Row /\ k.row.rule \in Rules
        /\ k.row.next \in Nat
    BY DEF Copy, Row
  <2>2. tnow[s] \in Times /\ tnow[s] \in Nat
    BY DEF Times
  <2>3. NextOf(k.row.rule, tnow[s]) \in Nat
    BY <1>3, <2>1, <2>2, NextIsLater DEF ClaimWon, HasNext
  <2>4. sched' \in [Cohorts -> Row \cup {None}]
    <3>1. sched[k.cohort] \in Row
      BY <1>3, <2>1 DEF ClaimWon, Claim, Matches
    <3>2. [sched[k.cohort] EXCEPT !.next = NextOf(k.row.rule, tnow[s])] \in Row
      BY <3>1, <2>3 DEF Row
    <3>. QED
      BY <1>3, <2>1, <3>2 DEF ClaimWon, Claim
  <2>5. last' \in [Cohorts -> [epoch: Nat, due: Nat, at: Nat]]
    BY <1>3, <2>1, <2>2 DEF ClaimWon
  <2>6. serial' \in [Cohorts -> BOOLEAN]
    BY <1>3, <2>1 DEF ClaimWon
  <2>7. todo' \in [Servers -> SUBSET Copy] /\ cur' \in [Servers -> Copy \cup {None}]
    BY <1>3, <2>1 DEF ClaimWon, Take
  <2>8. \A t \in Servers : pc'[t] \notin {"idle", "next"} => cur'[t] \in Copy
    BY <1>3, <2>1 DEF ClaimWon, Take
  <2>. QED
    BY <1>3, <2>4, <2>5, <2>6, <2>7, <2>8 DEF ClaimWon, Claim, Take
<1>4. ASSUME NEW s \in Servers, NEW k \in todo[s], ClaimLost(s, k) PROVE SchedTypeOK'
  BY <1>4 DEF ClaimLost, Fault
<1>5. ASSUME NEW s \in Servers, NEW k \in todo[s], RuleBroken(s, k) PROVE SchedTypeOK'
  BY <1>5 DEF RuleBroken, Take
<1>6. ASSUME NEW s \in Servers, DisableBroken(s) PROVE SchedTypeOK'
  <2>1. cur[s].cohort \in Cohorts /\ [cur[s].row EXCEPT !.enabled = FALSE] \in Row
    <3>1. cur[s] \in Copy
      BY <1>6 DEF DisableBroken
    <3>. QED
      BY <3>1 DEF Copy, Row
  <2>2. /\ sched' \in [Cohorts -> Row \cup {None}] /\ cohort' = cohort
        /\ epoch' \in [Cohorts -> Nat] /\ gen' \in [Cohorts -> Nat] /\ faults' \in Nat
    <3>1. CASE Put(cur[s].cohort, [cur[s].row EXCEPT !.enabled = FALSE]) /\ UNCHANGED faults
      BY <2>1, <3>1, PutType
    <3>2. CASE Fault("put") /\ UNCHANGED rows
      BY <3>2 DEF Fault
    <3>. QED
      BY <1>6, <3>1, <3>2 DEF DisableBroken
  <2>3. /\ pc' \in [Servers -> PCs] /\ cur' \in [Servers -> Copy \cup {None}]
        /\ \A t \in Servers : pc'[t] \notin {"idle", "next"} => cur'[t] \in Copy
    BY <1>6 DEF DisableBroken, Return
  <2>4. batch' \in [Servers -> Batches \cup {None}] /\ named' \in [Servers -> Batches \cup {None}]
    BY <1>6 DEF DisableBroken, Return
  <2>. QED
    BY <1>6, <2>2, <2>3, <2>4 DEF DisableBroken, Return
<1>7. ASSUME NEW s \in Servers, ReadCohort(s) PROVE SchedTypeOK'
  <2>1. PICK label \in {"record", "count"} : Goto(s, label)
    BY <1>7 DEF ReadCohort
  <2>2. pc' \in [Servers -> PCs] /\ cur[s] \in Copy
    BY <1>7, <2>1 DEF ReadCohort
  <2>. QED
    BY <1>7, <2>1, <2>2 DEF ReadCohort
<1>8. ASSUME NEW s \in Servers, CountOutstanding(s) PROVE SchedTypeOK'
  <2>1. PICK label \in {"record", "resolve"} : Goto(s, label)
    BY <1>8 DEF CountOutstanding
  <2>2. pc' \in [Servers -> PCs] /\ cur[s] \in Copy
    BY <1>8, <2>1 DEF CountOutstanding
  <2>3. faults' \in Nat
    BY <1>8 DEF CountOutstanding, Fault
  <2>. QED
    BY <1>8, <2>1, <2>2, <2>3 DEF CountOutstanding
<1>9. ASSUME NEW s \in Servers, ResolveDomains(s) PROVE SchedTypeOK'
  <2>1. cur[s].cohort \in Cohorts
    BY <1>9 DEF ResolveDomains, Copy
  <2>2. Unused # {} => NewId \in Batches
    BY DEF Unused, NewId
  <2>. QED
    <3>1. CASE Goto(s, "record") /\ UNCHANGED <<left, batch, owner>>
      BY <1>9, <3>1 DEF ResolveDomains
    <3>2. CASE \E n \in 1 .. MaxDomains :
                 /\ Unused # {}
                 /\ owner' = [owner EXCEPT ![NewId] =
                                [cohort |-> cur[s].cohort, gen |-> gen[cur[s].cohort]]]
                 /\ batch' = [batch EXCEPT ![s] = NewId]
                 /\ left' = [left EXCEPT ![s] = n]
                 /\ Goto(s, "submit")
      <4>1. PICK n \in 1 .. MaxDomains : left' = [left EXCEPT ![s] = n]
        BY <3>2
      <4>2. owner' \in [Batches -> [cohort: Cohorts, gen: Nat] \cup {None}]
        <5>. DEFINE e == [cohort |-> cur[s].cohort, gen |-> gen[cur[s].cohort]]
        <5>1. e \in [cohort: Cohorts, gen: Nat]
          BY <2>1
        <5>2. owner' = [owner EXCEPT ![NewId] = e]
          BY <3>2
        <5>. HIDE DEF e
        <5>. QED
          BY <5>1, <5>2
      <4>3. batch' \in [Servers -> Batches \cup {None}] /\ left' \in [Servers -> 0 .. MaxDomains]
        <5>1. NewId \in Batches /\ n \in 0 .. MaxDomains
          BY <2>2, <3>2
        <5>. QED
          BY <3>2, <4>1, <5>1
      <4>. QED
        BY <1>9, <3>2, <4>2, <4>3 DEF ResolveDomains
    <3>. QED
      BY <1>9, <3>1, <3>2 DEF ResolveDomains
<1>10. ASSUME NEW s \in Servers, CreateJob(s) PROVE SchedTypeOK'
  <2>1. left' \in [Servers -> 0 .. MaxDomains]
    BY <1>10 DEF CreateJob
  <2>2. outstanding' \in [Batches -> Nat]
    <3>1. \A b \in Batches : outstanding'[b] = IF b = batch[s] THEN outstanding[b] + 1 ELSE outstanding[b]
      BY <1>10 DEF CreateJob
    <3>2. \A b \in Batches : outstanding'[b] \in Nat
      BY <3>1
    <3>. QED
      BY <1>10, <3>2 DEF CreateJob
  <2>. QED
    BY <1>10, <2>1, <2>2 DEF CreateJob
<1>11. ASSUME NEW s \in Servers, CreateFails(s) PROVE SchedTypeOK'
  BY <1>11 DEF CreateFails, Fault
<1>12. ASSUME NEW s \in Servers, Submitted(s) PROVE SchedTypeOK'
  BY <1>12 DEF Submitted
<1>13. ASSUME NEW s \in Servers, Record(s) PROVE SchedTypeOK'
  <2>1. cur[s].cohort \in Cohorts
    BY <1>13 DEF Record, Copy
  <2>2. sched' \in [Cohorts -> Row \cup {None}]
    <3>1. CASE UNCHANGED sched
      BY <3>1
    <3>2. CASE /\ sched[cur[s].cohort] # None /\ named[s] # None
               /\ sched' = [sched EXCEPT ![cur[s].cohort].lastBatch = named[s]]
      <4>1. PICK row \in Row : row = sched[cur[s].cohort]
        BY <2>1, <3>2
      <4>2. [row EXCEPT !.lastBatch = named[s]] \in Row
        BY DEF Row
      <4>. QED
        <5>1. \A d \in Cohorts : sched'[d] \in Row \cup {None}
          BY <2>1, <3>2, <4>1, <4>2
        <5>. QED
          BY <3>2, <5>1
    <3>. QED
      BY <1>13, <3>1, <3>2 DEF Record, RecordOutcome
  <2>. QED
    BY <1>13, <2>1, <2>2 DEF Record, RecordOutcome, Return, Fault
<1>14. ASSUME NEW s \in Servers, ProcessEnds(s) \/ Stop(s) PROVE SchedTypeOK'
  <2>1. 0 \in Times /\ 0 \in 0 .. MaxDomains
    BY DEF Times
  <2>. QED
    <3>1. CASE ProcessEnds(s)
      <4>1. faults' \in Nat
        BY <3>1 DEF ProcessEnds, Fault
      <4>. QED
        BY <2>1, <3>1, <4>1 DEF ProcessEnds, Leave
    <3>2. CASE Stop(s)
      BY <3>2 DEF Stop, Fault
    <3>. QED
      BY <1>14, <3>1, <3>2
<1>15. ASSUME NEW c \in Cohorts, NEW r \in Rules, NEW f \in Forms, PutCompute(c, r, f)
       PROVE  SchedTypeOK'
  <2>1. NewRow(f, r, now) \in Row
    BY <1>15, NewRowType DEF PutCompute, HasNext
  <2>. QED
    BY <1>15, <2>1 DEF PutCompute, Request
<1>16. ASSUME PutStore PROVE SchedTypeOK'
  BY <1>16, PutType DEF PutStore
<1>17. ASSUME NEW c \in Cohorts, DeleteSchedule(c) \/ ToggleCohort(c) \/ DeleteCohort(c)
       PROVE  SchedTypeOK'
  <2>1. CASE DeleteSchedule(c)
    BY <2>1 DEF DeleteSchedule, Request
  <2>2. CASE ToggleCohort(c)
    BY <2>2 DEF ToggleCohort, Request
  <2>3. CASE DeleteCohort(c)
    BY <2>3 DEF DeleteCohort, Request
  <2>. QED
    BY <1>17, <2>1, <2>2, <2>3
<1>18. ASSUME NEW s \in Servers, ToggleScheduler(s) PROVE SchedTypeOK'
  BY <1>18 DEF ToggleScheduler, Request
<1>19. ASSUME NEW r \in Rules, BreakRule(r) PROVE SchedTypeOK'
  BY <1>19 DEF BreakRule, Fault
<1>20. ASSUME NEW b \in Batches, JobEnds(b) PROVE SchedTypeOK'
  BY <1>20 DEF JobEnds
<1>21. ASSUME Advance PROVE SchedTypeOK'
  BY <1>21 DEF Advance, Times
<1>22. ASSUME UNCHANGED vars PROVE SchedTypeOK'
  BY <1>22 DEF vars
<1>. QED
  BY <1>1, <1>2, <1>3, <1>4, <1>5, <1>6, <1>7, <1>8, <1>9, <1>10, <1>11, <1>12, <1>13,
     <1>14, <1>15, <1>16, <1>17, <1>18, <1>19, <1>20, <1>21, <1>22
     DEF Next, Scheduler, Api

\* Type correctness of the scheduler, its rows and its requests.
THEOREM SchedTypeCorrect == Spec => []SchedTypeOK
  BY SchedTypeInit, SchedTypeStep, PTL DEF Spec

-----------------------------------------------------------------------------
\* Since the last write by the API, next_run_at lies after the tick of the
\* last claim; a write makes the last claim one of an earlier epoch.
ClaimInv ==
    \A c \in Cohorts :
        /\ last[c].epoch <= epoch[c]
        /\ fires[c] > 0 /\ last[c].epoch = epoch[c] /\ sched[c] # None
             => last[c].at < sched[c].next

\* Every step keeps ClaimInv, and a step that claims finds the row's
\* next_run_at, which is what it claims, after the claim before it.
LEMMA ClaimStep ==
    ASSUME SchedTypeOK, ClaimInv, [Next]_vars
    PROVE  /\ ClaimInv'
           /\ \A c \in Cohorts :
                fires'[c] # fires[c] /\ last[c].epoch = epoch[c] /\ fires[c] > 0
                  => last'[c].due > last[c].at
<1>. DEFINE Good == /\ ClaimInv'
                    /\ \A c \in Cohorts :
                         fires'[c] # fires[c] /\ last[c].epoch = epoch[c] /\ fires[c] > 0
                           => last'[c].due > last[c].at
<1>1. ASSUME UNCHANGED <<sched, epoch, fires, last>> PROVE Good
  BY <1>1 DEF ClaimInv
<1>2. ASSUME NEW c \in Cohorts, NEW row \in Row, Put(c, row), UNCHANGED <<fires, last>>
      PROVE  Good
  BY <1>2 DEF ClaimInv, Put, SchedTypeOK
<1>3. ASSUME NEW c \in Cohorts, sched' = [sched EXCEPT ![c] = None],
             UNCHANGED <<epoch, fires, last>>
      PROVE  Good
  BY <1>3 DEF ClaimInv, SchedTypeOK
<1>4. ASSUME NEW s \in Servers, NEW k \in todo[s], ClaimWon(s, k) PROVE Good
  <2>1. k \in Copy /\ k.cohort \in Cohorts /\ k.row.rule \in Rules /\ tnow[s] \in Times
        /\ tnow[s] \in Nat
    BY ScheduleAssumption DEF SchedTypeOK, Copy, Row, Times
  <2>. DEFINE c == k.cohort
              n == NextOf(k.row.rule, tnow[s])
  <2>2. n \in Nat /\ n > tnow[s]
    BY <1>4, <2>1, NextIsLater DEF ClaimWon, HasNext
  <2>3. sched[c] \in Row /\ sched[c].next = k.row.next
    BY <1>4, <2>1 DEF ClaimWon, Claim, Matches, SchedTypeOK
  <2>4. /\ sched'[c].next = n
        /\ last'[c] = [epoch |-> epoch[c], due |-> k.row.next, at |-> tnow[s]]
        /\ \A d \in Cohorts \ {c} : sched'[d] = sched[d] /\ last'[d] = last[d]
                                    /\ fires'[d] = fires[d]
        /\ epoch' = epoch
    BY <1>4, <2>1, <2>3 DEF ClaimWon, Claim, SchedTypeOK, Row
  <2>5. ClaimInv'
    BY <2>1, <2>2, <2>4 DEF ClaimInv, SchedTypeOK
  <2>6. fires[c] > 0 /\ last[c].epoch = epoch[c] => last'[c].due > last[c].at
    BY <1>4, <2>1, <2>3, <2>4 DEF ClaimInv, SchedTypeOK, Row, ClaimWon, Claim, Matches
  <2>. QED
    BY <2>1, <2>4, <2>5, <2>6
<1>5. ASSUME NEW s \in Servers, Record(s) PROVE Good
  <2>1. /\ UNCHANGED <<epoch, fires, last>>
        /\ \A d \in Cohorts : sched[d] = None \/ sched'[d].next = sched[d].next
        /\ \A d \in Cohorts : sched[d] = None => sched'[d] = None
    <3>1. CASE UNCHANGED <<sched, epoch, fires, last>>
      BY <3>1
    <3>2. CASE /\ sched[cur[s].cohort] # None
               /\ sched' = [sched EXCEPT ![cur[s].cohort].lastBatch = named[s]]
               /\ UNCHANGED <<epoch, fires, last>>
      <4>1. cur[s].cohort \in Cohorts /\ sched[cur[s].cohort] \in Row
        BY <1>5, <3>2 DEF Record, SchedTypeOK, Copy
      <4>2. [sched[cur[s].cohort] EXCEPT !.lastBatch = named[s]].next = sched[cur[s].cohort].next
        BY <4>1 DEF Row
      <4>. QED
        BY <3>2, <4>1, <4>2 DEF SchedTypeOK
    <3>. QED
      BY <1>5, <3>1, <3>2 DEF Record, RecordOutcome, rows
  <2>. QED
    BY <2>1 DEF ClaimInv
<1>6. ASSUME NEW s \in Servers, DisableBroken(s) PROVE Good
  <2>1. cur[s].cohort \in Cohorts /\ [cur[s].row EXCEPT !.enabled = FALSE] \in Row
    BY ZenonT(60), <1>6 DEF DisableBroken, SchedTypeOK, Copy, Row
  <2>. QED
    BY <1>1, <1>2, <1>6, <2>1 DEF DisableBroken, rows, history
<1>7. ASSUME PutStore PROVE Good
  BY <1>2, <1>7 DEF PutStore, history, SchedTypeOK
<1>8. ASSUME NEW c \in Cohorts, DeleteSchedule(c) \/ DeleteCohort(c) PROVE Good
  BY <1>3, <1>8 DEF DeleteSchedule, DeleteCohort, history
<1>9. ASSUME NEW s \in Servers, NEW k \in todo[s], ClaimLost(s, k) \/ RuleBroken(s, k)
      PROVE  Good
  BY <1>1, <1>9 DEF ClaimLost, RuleBroken, rows, history
<1>10. ASSUME NEW s \in Servers,
              \/ Tick(s) \/ TickEnds(s) \/ ReadCohort(s) \/ CountOutstanding(s)
              \/ ResolveDomains(s) \/ CreateJob(s) \/ CreateFails(s) \/ Submitted(s)
              \/ ProcessEnds(s) \/ Stop(s) \/ ToggleScheduler(s)
       PROVE  Good
  BY <1>1, <1>10 DEF Tick, TickEnds, ReadCohort, CountOutstanding, ResolveDomains,
     CreateJob, CreateFails, Submitted, ProcessEnds, Stop, ToggleScheduler, rows, history
<1>11. ASSUME NEW c \in Cohorts,
              ToggleCohort(c) \/ \E r \in Rules, f \in Forms : PutCompute(c, r, f)
       PROVE  Good
  BY <1>1, <1>11 DEF ToggleCohort, PutCompute, rows, history
<1>12. ASSUME \/ \E r \in Rules : BreakRule(r)
              \/ \E b \in Batches : JobEnds(b)
              \/ Advance \/ UNCHANGED vars
       PROVE  Good
  BY <1>1, <1>12 DEF BreakRule, JobEnds, Advance, vars, rows, history
<1>. HIDE DEF Good
<1>13. Good
  BY <1>4, <1>5, <1>6, <1>7, <1>8, <1>9, <1>10, <1>11, <1>12 DEF Next, Scheduler, Api
<1>. QED
  BY <1>13 DEF Good

\* No occurrence is claimed twice between two writes of a schedule by the
\* API, and downtime yields one firing, whatever the number of servers.
THEOREM OccurrenceClaimedOnce == Spec => FiresOnce
<1>1. Init => ClaimInv
  BY DEF Init, ClaimInv, NoClaim
<1>2. SchedTypeOK /\ ClaimInv /\ [Next]_vars => ClaimInv'
  BY ClaimStep
<1>3. SchedTypeOK /\ ClaimInv /\ [Next]_vars =>
        [\A c \in Cohorts :
           fires'[c] # fires[c] /\ last[c].epoch = epoch[c] /\ fires[c] > 0
             => last'[c].due > last[c].at]_vars
  BY ClaimStep
<1>. QED
  BY <1>1, <1>2, <1>3, SchedTypeCorrect, PTL DEF Spec, FiresOnce

-----------------------------------------------------------------------------
(* Runs that do not overlap.  The argument follows one cohort whose claims *)
(* were all serial: at most one server is between its claim and its        *)
(* answer, and unless one is, the stored last batch is the only one that   *)
(* may still be active.                                                    *)

\* What a submission under way knows of its batch.
SubmitsOwn ==
    \A s \in Servers :
        /\ pc[s] \notin {"submit", "record"} => batch[s] = None /\ named[s] = None
        /\ pc[s] = "submit" =>
             /\ batch[s] \in Batches /\ named[s] = None
             /\ owner[batch[s]] # None /\ owner[batch[s]].cohort = cur[s].cohort
        /\ pc[s] = "record" => named[s] = None \/ named[s] = batch[s]

OwnedOnly ==
    \A b \in Batches :
        /\ owner[b] = None => outstanding[b] = 0
        /\ owner[b] # None => owner[b].gen <= gen[owner[b].cohort]

CopiesOld == \A s \in Servers : \A k \in todo[s] : k.fires <= fires[k.cohort]

SubmitInv == SubmitsOwn /\ OwnedOnly /\ CopiesOld

\* A submission starts under an id that no batch has.
NewBatch(s, b) ==
    /\ owner[b] = None
    /\ owner' = [owner EXCEPT ![b] =
                   [cohort |-> cur[s].cohort, gen |-> gen[cur[s].cohort]]]
    /\ batch' = [batch EXCEPT ![s] = b]
    /\ Goto(s, "submit")

LEMMA ResolveCases ==
    ASSUME NEW s \in Servers, ResolveDomains(s)
    PROVE  \/ Goto(s, "record") /\ UNCHANGED <<batch, owner>>
           \/ \E b \in Batches : NewBatch(s, b)
<1>1. Unused # {} => NewId \in Batches /\ owner[NewId] = None
  BY DEF Unused, NewId
<1>. QED
  BY <1>1 DEF ResolveDomains, NewBatch

LEMMA SubmitInit == Init => SubmitInv
  BY DEF Init, SubmitInv, SubmitsOwn, OwnedOnly, CopiesOld

LEMMA SubmitStep ==
    ASSUME SchedTypeOK, SubmitInv, [Next]_vars
    PROVE  SubmitInv'
<1>. USE ScheduleAssumption
     DEF SchedTypeOK, SubmitInv, SubmitsOwn, OwnedOnly, CopiesOld, rows, loop, history, control, requests, Goto
<1>1. ASSUME NEW s \in Servers, Tick(s) PROVE SubmitInv'
  BY <1>1 DEF Tick, Due
<1>2. ASSUME NEW s \in Servers, TickEnds(s) PROVE SubmitInv'
  BY <1>2 DEF TickEnds, Leave
<1>3. ASSUME NEW s \in Servers, NEW k \in todo[s], ClaimWon(s, k) PROVE SubmitInv'
  <2>1. k.cohort \in Cohorts /\ \A d \in Cohorts : fires[d] <= fires'[d]
    BY <1>3 DEF ClaimWon, Copy
  <2>. QED BY <1>3, <2>1 DEF ClaimWon, Claim, Take, First, Copy
<1>4. ASSUME NEW s \in Servers, NEW k \in todo[s], ClaimLost(s, k) \/ RuleBroken(s, k)
      PROVE  SubmitInv'
  <2>1. CASE ClaimLost(s, k)
    BY <2>1 DEF ClaimLost, First
  <2>2. CASE RuleBroken(s, k)
    BY <2>2 DEF RuleBroken, Take, First
  <2>. QED BY <1>4, <2>1, <2>2
<1>5. ASSUME NEW c \in Cohorts, NEW row, Put(c, row)
      PROVE  \A d \in Cohorts : gen[d] <= gen'[d]
  BY <1>5 DEF Put
<1>6. ASSUME NEW s \in Servers, DisableBroken(s) PROVE SubmitInv'
  <2>1. cur[s].cohort \in Cohorts
    BY <1>6 DEF DisableBroken, Copy
  <2>2. \A d \in Cohorts : gen[d] <= gen'[d] /\ gen'[d] \in Nat
    BY <1>5, <1>6, <2>1 DEF DisableBroken, Put
  <2>. QED BY <1>6, <2>2 DEF DisableBroken, Return
<1>7. ASSUME NEW s \in Servers, ReadCohort(s) \/ CountOutstanding(s) PROVE SubmitInv'
  BY <1>7 DEF ReadCohort, CountOutstanding
<1>8. ASSUME NEW s \in Servers, ResolveDomains(s) PROVE SubmitInv'
  <2>1. CASE Goto(s, "record") /\ UNCHANGED <<batch, owner>>
    BY <1>8, <2>1 DEF ResolveDomains
  <2>2. CASE \E b \in Batches : NewBatch(s, b)
    <3>1. PICK b \in Batches : NewBatch(s, b)
      BY <2>2
    <3>. DEFINE e == [cohort |-> cur[s].cohort, gen |-> gen[cur[s].cohort]]
    <3>2. e \in [cohort: Cohorts, gen: Nat] /\ e # None
      <4>1. cur[s].cohort \in Cohorts
        BY <1>8 DEF ResolveDomains, Copy
      <4>2. gen[cur[s].cohort] \in Nat
        BY <4>1
      <4>. QED BY <4>1, <4>2
    <3>3. e.cohort = cur[s].cohort /\ e.gen = gen[cur[s].cohort] /\ gen[e.cohort] = e.gen
      OBVIOUS
    <3>4. /\ owner' = [owner EXCEPT ![b] = e] /\ batch' = [batch EXCEPT ![s] = b]
          /\ pc' = [pc EXCEPT ![s] = "submit"]
      BY <3>1 DEF NewBatch
    <3>. HIDE DEF e
    <3>5. UNCHANGED <<cur, named, gen, outstanding, todo, fires>> /\ pc[s] = "resolve"
      BY <1>8 DEF ResolveDomains
    <3>6. /\ \A r \in Servers \ {s} : pc'[r] = pc[r] /\ batch'[r] = batch[r]
          /\ pc'[s] = "submit" /\ batch'[s] = b /\ owner'[b] = e
          /\ \A d \in Batches \ {b} : owner'[d] = owner[d]
      BY <3>4
    <3>7. owner[b] = None /\ \A r \in Servers : pc[r] = "submit" => batch[r] # b
      BY <3>1 DEF NewBatch
    <3>. HIDE DEF SchedTypeOK
    <3>8. OwnedOnly'
      <4>1. e.gen <= gen[e.cohort]
        BY <3>2, <3>3
      <4>. QED BY <3>2, <3>5, <3>6, <4>1
    <3>9. SubmitsOwn'
      BY <3>2, <3>3, <3>5, <3>6, <3>7
    <3>10. CopiesOld'
      BY <3>5
    <3>. HIDE DEF SubmitsOwn, OwnedOnly, CopiesOld
    <3>. QED BY <3>8, <3>9, <3>10
  <2>. QED BY <1>8, <2>1, <2>2, ResolveCases
<1>9. ASSUME NEW s \in Servers, CreateJob(s) PROVE SubmitInv'
  BY <1>9 DEF CreateJob
<1>10. ASSUME NEW s \in Servers, CreateFails(s) \/ Submitted(s) PROVE SubmitInv'
  BY <1>10 DEF CreateFails, Submitted
<1>11. ASSUME NEW s \in Servers, Record(s) PROVE SubmitInv'
  BY <1>11 DEF Record, RecordOutcome, Return
<1>12. ASSUME NEW s \in Servers, ProcessEnds(s) \/ Stop(s) PROVE SubmitInv'
  <2>1. CASE ProcessEnds(s)
    BY <2>1 DEF ProcessEnds, Leave
  <2>2. CASE Stop(s)
    BY <2>2 DEF Stop
  <2>. QED BY <1>12, <2>1, <2>2
<1>13. ASSUME PutStore PROVE SubmitInv'
  <2>1. \A d \in Cohorts : gen[d] <= gen'[d] /\ gen'[d] \in Nat
    BY <1>5, <1>13 DEF PutStore, Put
  <2>. QED BY <1>13, <2>1 DEF PutStore
<1>14. ASSUME NEW b \in Batches, JobEnds(b) PROVE SubmitInv'
  BY <1>14 DEF JobEnds
<1>15. ASSUME UNCHANGED <<gen, loop, history, outstanding>> PROVE SubmitInv'
  BY <1>15
<1>16. ASSUME \/ \E c \in Cohorts, r \in Rules, f \in Forms : PutCompute(c, r, f)
              \/ \E c \in Cohorts : DeleteSchedule(c) \/ ToggleCohort(c) \/ DeleteCohort(c)
              \/ \E s \in Servers : ToggleScheduler(s)
              \/ \E r \in Rules : BreakRule(r)
              \/ Advance \/ UNCHANGED vars
       PROVE  SubmitInv'
  BY <1>15, <1>16 DEF PutCompute, DeleteSchedule, ToggleCohort, DeleteCohort, ToggleScheduler,
       BreakRule, Advance, vars
<1>. QED
  BY <1>1, <1>2, <1>3, <1>4, <1>6, <1>7, <1>8, <1>9, <1>10, <1>11, <1>12, <1>13, <1>14,
     <1>16
  DEF Next, Scheduler, Api

\* A server between its claim for cohort c and the answer to it.
Busy(s, c) ==
    pc[s] \in {"cohort", "count", "resolve", "submit", "record"} /\ cur[s].cohort = c

\* No batch fired for generation g of the schedule of c is active but x.
Only(c, g, x) ==
    \A b \in Batches :
        owner[b] # None /\ owner[b].cohort = c /\ owner[b].gen = g /\ outstanding[b] > 0 => b = x

\* The stored row names the batch that may be active.
Clean(c) == sched[c] # None => Only(c, gen[c], sched[c].lastBatch)

BusyKnows(s, c) ==
    /\ open[c] = 1
    /\ \A r \in Servers : Busy(r, c) => r = s
    /\ pc[s] \in {"cohort", "count"} => Only(c, gen[c], cur[s].row.lastBatch)
    /\ batch[s] = None => Clean(c)
    /\ pc[s] = "resolve" => Only(c, gen[c], None)
    /\ pc[s] = "submit" => Only(c, owner[batch[s]].gen, batch[s])
    /\ batch[s] # None => Only(c, gen[c], batch[s])

\* A copy read when every claim was answered, and no claim since.
CopyKnows(k, c) ==
    k.cohort = c /\ k.open = 0 /\ k.fires = fires[c]
      => open[c] = 0 /\ Only(c, gen[c], k.row.lastBatch)

SerialFor(c) ==
    /\ open[c] \in {0, 1}
    /\ open[c] = 0 => Clean(c)
    /\ \A g \in Nat : \E x : Only(c, g, x)
    /\ \A s \in Servers : Busy(s, c) => BusyKnows(s, c)
    /\ \A s \in Servers : \A k \in todo[s] : CopyKnows(k, c)

SerialInv == \A c \in Cohorts : serial[c] => SerialFor(c)

\* Batches only end: what was known of a generation stays known.
LEMMA OnlyKept ==
    ASSUME NEW c, owner' = owner,
           \A b \in Batches : outstanding'[b] > 0 => outstanding[b] > 0
    PROVE  \A g, x : Only(c, g, x) => Only(c, g, x)'
  BY DEF Only

\* Steps that touch neither the loops of the servers nor the claims, and
\* of the rows only what the argument does not look at.
LEMMA SerialFrame ==
    ASSUME NEW c \in Cohorts, SerialFor(c), SubmitInv, SchedTypeOK,
           UNCHANGED <<loop, owner, open, fires, gen>>,
           sched'[c] # None => sched[c] # None /\ sched'[c].lastBatch = sched[c].lastBatch,
           \A b \in Batches : outstanding'[b] > 0 => outstanding[b] > 0
    PROVE  SerialFor(c)'
<1>1. \A g, x : Only(c, g, x) => Only(c, g, x)'
  BY OnlyKept
<1>2. Clean(c) => Clean(c)'
  BY <1>1 DEF Clean
<1>3. ASSUME NEW s \in Servers, Busy(s, c)' PROVE BusyKnows(s, c)'
  <2>1. Busy(s, c) /\ \A r \in Servers : Busy(r, c)' => Busy(r, c)
    BY <1>3 DEF Busy, loop
  <2>2. BusyKnows(s, c)
    BY <2>1 DEF SerialFor
  <2>. QED BY <1>1, <1>2, <2>1, <2>2 DEF BusyKnows, loop
<1>4. ASSUME NEW s \in Servers, NEW k \in todo'[s] PROVE CopyKnows(k, c)'
  <2>1. CopyKnows(k, c)
    BY <1>4 DEF SerialFor, loop
  <2>. QED BY <1>1, <2>1 DEF CopyKnows
<1>. QED
  BY <1>1, <1>2, <1>3, <1>4 DEF SerialFor

\* A write of the row keeps its last batch; a new row starts a generation.
LEMMA SerialPut ==
    ASSUME NEW c \in Cohorts, SerialFor(c), SubmitInv, SchedTypeOK,
           NEW d \in Cohorts, NEW row \in Row, Put(d, row),
           UNCHANGED <<owner, open, fires, outstanding>>,
           \A s \in Servers : Busy(s, c)' => /\ Busy(s, c) /\ pc'[s] = pc[s]
                                             /\ cur'[s] = cur[s] /\ batch'[s] = batch[s],
           \A s \in Servers : todo'[s] \subseteq todo[s]
    PROVE  SerialFor(c)'
<1>1. \A g, x : Only(c, g, x) => Only(c, g, x)'
  BY OnlyKept
<1>2. gen'[c] = gen[c] \/ \A x : Only(c, gen[c], x)'
  <2>. SUFFICES ASSUME gen'[c] # gen[c], NEW x PROVE Only(c, gen[c], x)'
    OBVIOUS
  <2>1. gen'[c] = gen[c] + 1 /\ gen[c] \in Nat
    BY DEF Put, SchedTypeOK
  <2>2. \A b \in Batches : owner[b] # None /\ owner[b].cohort = c => owner[b].gen <= gen[c]
    BY DEF SubmitInv, OwnedOnly
  <2>3. \A b \in Batches : owner[b] # None => owner[b].gen \in Nat
    BY DEF SchedTypeOK
  <2>. QED BY <2>1, <2>2, <2>3 DEF Only
<1>3. sched[c] = None /\ sched'[c] # None => gen'[c] # gen[c]
  BY DEF Put, SchedTypeOK
<1>4. sched[c] # None => sched'[c].lastBatch = sched[c].lastBatch
  <2>1. CASE c = d
    <3>1. sched[c] # None =>
            sched'[c] = [row EXCEPT !.lastBatch = sched[c].lastBatch]
      BY <2>1 DEF Put, SchedTypeOK
    <3>. QED BY <3>1 DEF Row
  <2>2. CASE c # d
    BY <2>2 DEF Put, SchedTypeOK
  <2>. QED BY <2>1, <2>2
<1>5. Clean(c) => Clean(c)'
  BY <1>1, <1>2, <1>3, <1>4 DEF Clean
<1>6. ASSUME NEW s \in Servers, Busy(s, c)' PROVE BusyKnows(s, c)'
  <2>1. BusyKnows(s, c)
    BY <1>6 DEF SerialFor
  <2>. QED BY <1>1, <1>2, <1>5, <1>6, <2>1 DEF BusyKnows
<1>7. ASSUME NEW s \in Servers, NEW k \in todo'[s] PROVE CopyKnows(k, c)'
  <2>1. CopyKnows(k, c)
    BY <1>7 DEF SerialFor
  <2>. QED BY <1>1, <1>2, <2>1 DEF CopyKnows
<1>. QED
  BY <1>1, <1>5, <1>6, <1>7 DEF SerialFor

\* Steps of the loop of one server that touch neither the row of c nor its
\* claims.
LEMMA SerialLoop ==
    ASSUME NEW c \in Cohorts, SerialFor(c), NEW s \in Servers,
           UNCHANGED <<gen, owner, outstanding, fires>>,
           sched'[c] = sched[c] /\ open'[c] = open[c],
           \A r \in Servers \ {s} : /\ pc'[r] = pc[r] /\ cur'[r] = cur[r]
                                    /\ batch'[r] = batch[r],
           \A r \in Servers : todo'[r] \subseteq todo[r],
           Busy(s, c)' => Busy(s, c),
           Busy(s, c)' /\ BusyKnows(s, c) =>
               /\ pc'[s] \in {"cohort", "count"} => Only(c, gen[c], cur'[s].row.lastBatch)
               /\ batch'[s] = None => Clean(c)
               /\ pc'[s] = "resolve" => Only(c, gen[c], None)
               /\ pc'[s] # "submit"
               /\ batch'[s] # None => Only(c, gen[c], batch'[s])
    PROVE  SerialFor(c)'
<1>1. \A g, x : Only(c, g, x)' = Only(c, g, x)
  BY DEF Only
<1>2. Clean(c)' = Clean(c)
  BY <1>1 DEF Clean
<1>3. \A r \in Servers : Busy(r, c)' => Busy(r, c)
  BY DEF Busy
<1>4. ASSUME NEW r \in Servers, Busy(r, c)' PROVE BusyKnows(r, c)'
  <2>1. BusyKnows(r, c)
    BY <1>3, <1>4 DEF SerialFor
  <2>2. CASE r = s
    BY <1>1, <1>2, <1>3, <1>4, <2>1, <2>2 DEF BusyKnows
  <2>3. CASE r # s
    BY <1>1, <1>2, <1>3, <2>1, <2>3 DEF BusyKnows
  <2>. QED BY <2>2, <2>3
<1>5. ASSUME NEW r \in Servers, NEW k \in todo'[r] PROVE CopyKnows(k, c)'
  <2>1. CopyKnows(k, c)
    BY <1>5 DEF SerialFor
  <2>. QED BY <1>1, <2>1 DEF CopyKnows
<1>. QED
  BY <1>1, <1>2, <1>4, <1>5 DEF SerialFor

LEMMA SerialTick ==
    ASSUME NEW c \in Cohorts, SerialFor(c), SchedTypeOK, NEW s \in Servers, Tick(s)
    PROVE  SerialFor(c)'
<1>1. /\ UNCHANGED <<sched, gen, owner, outstanding, open, fires, cur, batch>>
      /\ pc' = [pc EXCEPT ![s] = "next"] /\ pc[s] = "idle"
  BY DEF Tick, rows, history, Goto
<1>2. (\A g, x : Only(c, g, x)' = Only(c, g, x)) /\ Clean(c)' = Clean(c)
  BY <1>1 DEF Only, Clean
<1>3. \A r \in Servers : Busy(r, c)' => Busy(r, c) /\ pc'[r] = pc[r]
  BY <1>1 DEF Busy, SchedTypeOK
<1>4. ASSUME NEW r \in Servers, Busy(r, c)' PROVE BusyKnows(r, c)'
  <2>1. BusyKnows(r, c)
    BY <1>3, <1>4 DEF SerialFor
  <2>. QED BY <1>1, <1>2, <1>3, <1>4, <2>1 DEF BusyKnows
<1>5. ASSUME NEW r \in Servers, NEW k \in todo'[r] PROVE CopyKnows(k, c)'
  <2>1. CASE k \in todo[r]
    <3>1. CopyKnows(k, c)
      BY <2>1 DEF SerialFor
    <3>. QED BY <1>1, <1>2, <3>1 DEF CopyKnows
  <2>2. CASE k \notin todo[r]
    <3>1. PICK d \in Cohorts :
            /\ Due(d, now)
            /\ k = [cohort |-> d, row |-> sched[d], fires |-> fires[d], open |-> open[d]]
      BY <1>5, <2>2 DEF Tick, SchedTypeOK
    <3>2. d = c /\ open[c] = 0 => Only(c, gen[c], sched[c].lastBatch)
      BY <3>1 DEF SerialFor, Clean, Due
    <3>. QED BY <1>1, <1>2, <3>1, <3>2 DEF CopyKnows
  <2>. QED BY <2>1, <2>2
<1>. QED
  BY <1>1, <1>2, <1>4, <1>5 DEF SerialFor

\* A claim: a serial one finds every claim before it answered and nobody
\* busy; one for another cohort changes nothing.
LEMMA SerialClaim ==
    ASSUME NEW c \in Cohorts, SerialFor(c), SubmitInv, SchedTypeOK, serial'[c],
           NEW s \in Servers, NEW k \in todo[s], ClaimWon(s, k)
    PROVE  SerialFor(c)'
<1>0. k.cohort \in Cohorts /\ k \in Copy
  BY DEF SchedTypeOK, Copy
<1>1. /\ UNCHANGED <<gen, owner, outstanding, batch>>
      /\ pc' = [pc EXCEPT ![s] = "cohort"] /\ pc[s] = "next"
      /\ cur' = [cur EXCEPT ![s] = k] /\ todo' = [todo EXCEPT ![s] = @ \ {k}]
      /\ fires' = [fires EXCEPT ![k.cohort] = @ + 1]
      /\ open' = [open EXCEPT ![k.cohort] = @ + 1]
  BY DEF ClaimWon, Claim, Take, First, Goto
<1>2. /\ \A g, x : Only(c, g, x)' = Only(c, g, x)
      /\ sched'[c] # None => sched[c] # None /\ sched'[c].lastBatch = sched[c].lastBatch
  <2>1. sched[k.cohort] \in Row
           /\ sched' = [sched EXCEPT ![k.cohort].next = NextOf(k.row.rule, tnow[s])]
    BY <1>0 DEF ClaimWon, Claim, Matches, SchedTypeOK
  <2>2. sched'[k.cohort].lastBatch = sched[k.cohort].lastBatch
    BY <1>0, <2>1 DEF Row, SchedTypeOK
  <2>3. sched[k.cohort] # None
    BY DEF ClaimWon, Claim, Matches
  <2>4. c # k.cohort => sched'[c] = sched[c]
    BY <1>0, <2>1 DEF SchedTypeOK
  <2>. QED BY <1>1, <2>2, <2>3, <2>4 DEF Only
<1>3. Clean(c) => Clean(c)'
  BY <1>1, <1>2 DEF Clean
<1>4. /\ pc'[s] = "cohort" /\ cur'[s] = k
      /\ \A r \in Servers \ {s} : pc'[r] = pc[r] /\ cur'[r] = cur[r]
      /\ \A r \in Servers : todo'[r] \subseteq todo[r]
  BY <1>1 DEF SchedTypeOK
<1>5. batch'[s] = None
  BY <1>1 DEF SubmitInv, SubmitsOwn
<1>6. CASE k.cohort = c
  <2>1. k.open = 0 /\ k.fires = fires[c]
    BY <1>6 DEF ClaimWon, SchedTypeOK
  <2>2. CopyKnows(k, c)
    BY DEF SerialFor
  <2>3. open[c] = 0 /\ Only(c, gen[c], k.row.lastBatch) /\ Clean(c)
    BY <1>6, <2>1, <2>2 DEF CopyKnows, SerialFor
  <2>4. open'[c] = 1 /\ fires'[c] = fires[c] + 1 /\ fires[c] \in Nat
    BY <1>1, <1>6, <2>3 DEF SchedTypeOK
  <2>5. \A r \in Servers : Busy(r, c)' => r = s
    BY <1>4, <2>3 DEF Busy, SerialFor, BusyKnows
  <2>6. BusyKnows(s, c)'
    BY <1>1, <1>2, <1>3, <1>4, <1>5, <2>3, <2>4, <2>5 DEF BusyKnows
  <2>7. ASSUME NEW r \in Servers, NEW m \in todo'[r] PROVE CopyKnows(m, c)'
    <3>1. m.cohort = c => m.fires <= fires[c]
      BY <1>4, <2>7 DEF SubmitInv, CopiesOld
    <3>2. m.fires \in Nat
      BY <1>4, <2>7 DEF SchedTypeOK, Copy
    <3>3. m.cohort = c => m.fires # fires'[c]
      BY <2>4, <3>1, <3>2
    <3>. QED BY <3>3 DEF CopyKnows
  <2>. QED BY <1>2, <2>4, <2>5, <2>6, <2>7 DEF SerialFor
<1>7. CASE k.cohort # c
  <2>1. open'[c] = open[c] /\ fires'[c] = fires[c]
    BY <1>0, <1>1, <1>7 DEF SchedTypeOK
  <2>2. \A r \in Servers : Busy(r, c)' => r # s /\ Busy(r, c)
    BY <1>4, <1>7 DEF Busy
  <2>3. ASSUME NEW r \in Servers, Busy(r, c)' PROVE BusyKnows(r, c)'
    <3>1. BusyKnows(r, c)
      BY <2>2, <2>3 DEF SerialFor
    <3>. QED BY <1>1, <1>2, <1>3, <1>4, <2>1, <2>2, <2>3, <3>1 DEF BusyKnows
  <2>4. ASSUME NEW r \in Servers, NEW m \in todo'[r] PROVE CopyKnows(m, c)'
    <3>1. CopyKnows(m, c)
      BY <1>4, <2>4 DEF SerialFor
    <3>. QED BY <1>1, <1>2, <2>1, <3>1 DEF CopyKnows
  <2>. QED BY <1>2, <1>3, <2>1, <2>3, <2>4 DEF SerialFor
<1>. QED
  BY <1>6, <1>7

\* A new batch has no job yet.
LEMMA SerialResolve ==
    ASSUME NEW c \in Cohorts, SerialFor(c), SubmitInv, SchedTypeOK,
           NEW s \in Servers, ResolveDomains(s)
    PROVE  SerialFor(c)'
<1>0. /\ UNCHANGED <<sched, gen, todo, cur, outstanding, open, fires>> /\ pc[s] = "resolve"
      /\ cur[s].cohort \in Cohorts /\ batch[s] = None
  BY DEF ResolveDomains, rows, SchedTypeOK, Copy, SubmitInv, SubmitsOwn
<1>1. CASE Goto(s, "record") /\ UNCHANGED <<batch, owner>>
  <2>1. /\ pc'[s] = "record" /\ \A r \in Servers \ {s} : pc'[r] = pc[r]
    BY <1>1 DEF Goto, SchedTypeOK
  <2>2. Busy(s, c)' => Busy(s, c)
    BY <1>0 DEF Busy
  <2>. QED BY <1>0, <1>1, <2>1, <2>2, SerialLoop DEF BusyKnows
<1>2. CASE \E b \in Batches : NewBatch(s, b)
  <2>1. PICK b \in Batches : NewBatch(s, b)
    BY <1>2
  <2>. DEFINE e == [cohort |-> cur[s].cohort, gen |-> gen[cur[s].cohort]]
  <2>2. e.cohort = cur[s].cohort /\ e.gen = gen[cur[s].cohort]
    OBVIOUS
  <2>3. owner' = [owner EXCEPT ![b] = e] /\ owner[b] = None
    BY <2>1 DEF NewBatch
  <2>. HIDE DEF e
  <2>4. /\ pc'[s] = "submit" /\ batch'[s] = b /\ owner'[b] = e /\ outstanding[b] = 0
        /\ \A r \in Servers \ {s} : pc'[r] = pc[r] /\ batch'[r] = batch[r]
        /\ \A d \in Batches \ {b} : owner'[d] = owner[d]
    BY <2>1, <2>3 DEF NewBatch, Goto, SchedTypeOK, SubmitInv, OwnedOnly
  <2>5. \A g, x : Only(c, g, x) => Only(c, g, x)'
    BY <1>0, <2>4 DEF Only
  <2>6. Clean(c) => Clean(c)'
    BY <1>0, <2>5 DEF Clean
  <2>7. \A r \in Servers : Busy(r, c)' => Busy(r, c)
    BY <1>0, <2>4 DEF Busy
  <2>8. ASSUME NEW r \in Servers, Busy(r, c)' PROVE BusyKnows(r, c)'
    <3>1. BusyKnows(r, c)
      BY <2>7, <2>8 DEF SerialFor
    <3>2. CASE r = s
      <4>1. Only(c, gen[c], None) /\ cur[s].cohort = c
        BY <1>0, <2>7, <2>8, <3>1, <3>2 DEF BusyKnows, Busy
      <4>2. Only(c, gen[c], b)'
        BY <1>0, <2>4, <4>1, ScheduleAssumption DEF Only
      <4>3. owner'[batch'[s]].gen = gen'[c]
        BY <1>0, <2>2, <2>4, <4>1
      <4>. QED BY <1>0, <2>4, <2>7, <3>1, <3>2, <4>2, <4>3, ScheduleAssumption DEF BusyKnows
    <3>3. CASE r # s
      <4>1. pc[r] = "submit" => batch[r] \in Batches /\ batch[r] # b
        BY <2>3 DEF SubmitInv, SubmitsOwn
      <4>. QED BY <1>0, <2>4, <2>5, <2>6, <2>7, <3>1, <3>3, <4>1 DEF BusyKnows
    <3>. QED BY <3>2, <3>3
  <2>9. ASSUME NEW r \in Servers, NEW k \in todo'[r] PROVE CopyKnows(k, c)'
    <3>1. CopyKnows(k, c)
      BY <1>0, <2>9 DEF SerialFor
    <3>. QED BY <1>0, <2>5, <3>1 DEF CopyKnows
  <2>. QED BY <1>0, <2>5, <2>6, <2>8, <2>9 DEF SerialFor
<1>. QED
  BY <1>1, <1>2, ResolveCases

\* One more job of the batch that is being submitted.
LEMMA SerialCreate ==
    ASSUME NEW c \in Cohorts, SerialFor(c), SubmitInv, SchedTypeOK,
           NEW s \in Servers, CreateJob(s)
    PROVE  SerialFor(c)'
<1>0. /\ UNCHANGED <<sched, gen, pc, todo, cur, batch, owner, open, fires>>
      /\ pc[s] = "submit" /\ batch[s] \in Batches
      /\ owner[batch[s]] # None /\ owner[batch[s]].cohort = cur[s].cohort
      /\ \A b \in Batches \ {batch[s]} : outstanding'[b] = outstanding[b]
  BY DEF CreateJob, rows, history, SchedTypeOK, SubmitInv, SubmitsOwn
<1>1. \A r \in Servers : Busy(r, c)' = Busy(r, c)
  BY <1>0 DEF Busy
<1>2. CASE cur[s].cohort # c
  <2>1. \A g, x : Only(c, g, x)' = Only(c, g, x)
    BY <1>0, <1>2 DEF Only
  <2>2. Clean(c)' = Clean(c)
    BY <1>0, <2>1 DEF Clean
  <2>3. ASSUME NEW r \in Servers, Busy(r, c)' PROVE BusyKnows(r, c)'
    <3>1. BusyKnows(r, c)
      BY <1>1, <2>3 DEF SerialFor
    <3>. QED BY <1>0, <1>1, <2>1, <2>2, <3>1 DEF BusyKnows
  <2>4. ASSUME NEW r \in Servers, NEW k \in todo'[r] PROVE CopyKnows(k, c)'
    <3>1. CopyKnows(k, c)
      BY <1>0, <2>4 DEF SerialFor
    <3>. QED BY <1>0, <2>1, <3>1 DEF CopyKnows
  <2>. QED BY <1>0, <2>1, <2>2, <2>3, <2>4 DEF SerialFor
<1>3. CASE cur[s].cohort = c
  <2>0. Busy(s, c) /\ BusyKnows(s, c)
    BY <1>0, <1>3 DEF Busy, SerialFor
  <2>1. \A g, x : Only(c, g, x) /\ (g # owner[batch[s]].gen \/ x = batch[s]) => Only(c, g, x)'
    BY <1>0 DEF Only
  <2>2. Only(c, owner[batch[s]].gen, batch[s]) /\ Only(c, gen[c], batch[s]) /\ open[c] = 1
    BY <1>0, <2>0, ScheduleAssumption DEF BusyKnows
  <2>3. \A g \in Nat : \E x : Only(c, g, x)'
    <3>. SUFFICES ASSUME NEW g \in Nat PROVE \E x : Only(c, g, x)'
      OBVIOUS
    <3>1. CASE g = owner[batch[s]].gen
      BY <2>1, <2>2, <3>1
    <3>2. CASE g # owner[batch[s]].gen
      BY <2>1, <3>2 DEF SerialFor
    <3>. QED BY <3>1, <3>2
  <2>4. ASSUME NEW r \in Servers, Busy(r, c)' PROVE BusyKnows(r, c)'
    <3>1. r = s
      BY <1>1, <2>0, <2>4 DEF BusyKnows
    <3>2. Only(c, owner[batch[s]].gen, batch[s])' /\ Only(c, gen[c], batch[s])'
      BY <1>0, <2>1, <2>2
    <3>. QED BY <1>0, <1>1, <2>0, <3>1, <3>2, ScheduleAssumption DEF BusyKnows
  <2>5. ASSUME NEW r \in Servers, NEW k \in todo'[r] PROVE CopyKnows(k, c)'
    <3>1. CopyKnows(k, c)
      BY <1>0, <2>5 DEF SerialFor
    <3>. QED BY <1>0, <2>2, <3>1 DEF CopyKnows
  <2>. QED BY <1>0, <2>2, <2>3, <2>4, <2>5 DEF SerialFor
<1>. QED
  BY <1>2, <1>3

\* The answer is stored: the row names the batch, or there is none.  An
\* answer that is lost, or does not name the batch, leaves the claim open.
LEMMA SerialRecord ==
    ASSUME NEW c \in Cohorts, SerialFor(c), SubmitInv, SchedTypeOK,
           NEW s \in Servers, Record(s)
    PROVE  SerialFor(c)'
<1>0. /\ UNCHANGED <<gen, todo, owner, outstanding, fires>>
      /\ pc[s] = "record" /\ cur[s].cohort \in Cohorts
      /\ pc'[s] = "next"
      /\ \A r \in Servers \ {s} : pc'[r] = pc[r] /\ cur'[r] = cur[r] /\ batch'[r] = batch[r]
  BY DEF Record, RecordOutcome, rows, Return, Goto, SchedTypeOK, Copy
<1>1. ~Busy(s, c)' /\ \A r \in Servers : Busy(r, c)' => Busy(r, c)
  BY <1>0 DEF Busy
<1>2. CASE cur[s].cohort # c
  <2>1. sched'[c] = sched[c] /\ open'[c] = open[c]
    BY <1>0, <1>2 DEF Record, RecordOutcome, rows, SchedTypeOK
  <2>. QED BY <1>0, <1>1, <2>1, SerialLoop
<1>3. CASE cur[s].cohort = c
  <2>0. Busy(s, c) /\ BusyKnows(s, c)
    BY <1>0, <1>3 DEF Busy, SerialFor
  <2>1. \A g, x : Only(c, g, x)' = Only(c, g, x)
    BY <1>0 DEF Only
  <2>2. open[c] = 1 /\ \A r \in Servers : ~Busy(r, c)'
    BY <1>1, <2>0 DEF BusyKnows
  <2>3. /\ open'[c] \in {0, 1}
        /\ open'[c] = 0 => /\ batch[s] = named[s]
                           /\ sched' = IF sched[c] = None \/ named[s] = None THEN sched
                                       ELSE [sched EXCEPT ![c].lastBatch = named[s]]
    BY <1>3, <2>2 DEF Record, RecordOutcome, SchedTypeOK
  <2>4. open'[c] = 0 => Clean(c)'
    <3>. SUFFICES ASSUME open'[c] = 0, sched'[c] # None
                  PROVE  Only(c, gen[c], sched'[c].lastBatch)
      BY <1>0, <2>1 DEF Clean
    <3>1. CASE named[s] = None
      BY <2>0, <2>3, <3>1 DEF BusyKnows, Clean
    <3>2. CASE named[s] # None
      <4>1. sched[c] \in Row
        BY <2>3 DEF SchedTypeOK
      <4>2. sched'[c] = [sched[c] EXCEPT !.lastBatch = named[s]]
        BY <2>3, <3>2, <4>1 DEF SchedTypeOK
      <4>3. sched'[c].lastBatch = batch[s]
        BY <2>3, <4>1, <4>2 DEF Row
      <4>. QED BY <2>0, <2>3, <3>2, <4>3 DEF BusyKnows
    <3>. QED BY <3>1, <3>2
  <2>5. ASSUME NEW r \in Servers, NEW k \in todo'[r] PROVE CopyKnows(k, c)'
    <3>1. CopyKnows(k, c)
      BY <1>0, <2>5 DEF SerialFor
    <3>. QED BY <1>0, <2>2, <3>1 DEF CopyKnows
  <2>6. \A g \in Nat : \E x : Only(c, g, x)'
    BY <2>1 DEF SerialFor
  <2>. QED BY <2>2, <2>3, <2>4, <2>5, <2>6 DEF SerialFor
<1>. QED
  BY <1>2, <1>3

\* Every step keeps what is known of a cohort whose claims are all serial.
LEMMA SerialStep ==
    ASSUME SchedTypeOK, SubmitInv, SerialInv, [Next]_vars
    PROVE  SerialInv'
<1>. SUFFICES ASSUME NEW c \in Cohorts, serial'[c] PROVE SerialFor(c)'
  BY DEF SerialInv
<1>1. ASSUME UNCHANGED history PROVE SerialFor(c)
  BY <1>1 DEF SerialInv, history
<1>2. ASSUME UNCHANGED <<loop, gen, history>>,
             sched'[c] # None => sched[c] # None /\ sched'[c].lastBatch = sched[c].lastBatch,
             \A b \in Batches : outstanding'[b] > 0 => outstanding[b] > 0
      PROVE  SerialFor(c)'
  BY <1>1, <1>2, SerialFrame DEF history
<1>3. ASSUME NEW s \in Servers, Tick(s) PROVE SerialFor(c)'
  BY <1>1, <1>3, SerialTick DEF Tick
<1>4. ASSUME NEW s \in Servers, TickEnds(s) \/ ProcessEnds(s) PROVE SerialFor(c)'
  <2>1. /\ UNCHANGED <<sched, gen, history, outstanding>>
        /\ Leave(s)
    BY <1>4 DEF TickEnds, ProcessEnds, rows
  <2>2. /\ pc'[s] = "idle"
        /\ \A r \in Servers \ {s} : pc'[r] = pc[r] /\ cur'[r] = cur[r] /\ batch'[r] = batch[r]
        /\ \A r \in Servers : todo'[r] \subseteq todo[r]
    BY <2>1 DEF Leave, Goto, SchedTypeOK
  <2>3. ~Busy(s, c)'
    BY <2>2 DEF Busy
  <2>. QED BY <1>1, <2>1, <2>2, <2>3, SerialLoop DEF history
<1>5. ASSUME NEW s \in Servers, NEW k \in todo[s], ClaimWon(s, k) PROVE SerialFor(c)'
  <2>1. serial[c]
    BY <1>5 DEF ClaimWon, SchedTypeOK
  <2>. QED BY <1>5, <2>1, SerialClaim DEF SerialInv
<1>6. ASSUME NEW s \in Servers, NEW k \in todo[s], ClaimLost(s, k) PROVE SerialFor(c)'
  <2>1. /\ UNCHANGED <<sched, gen, history, outstanding, pc, cur, batch>>
        /\ \A r \in Servers : todo'[r] \subseteq todo[r]
        /\ pc[s] = "next"
    BY <1>6 DEF ClaimLost, First, rows, SchedTypeOK
  <2>2. ~Busy(s, c)'
    BY <2>1 DEF Busy
  <2>. QED BY <1>1, <2>1, <2>2, SerialLoop DEF history
<1>7. ASSUME NEW s \in Servers, NEW k \in todo[s], RuleBroken(s, k) PROVE SerialFor(c)'
  <2>1. /\ UNCHANGED <<sched, gen, history, outstanding, batch>>
        /\ \A r \in Servers : todo'[r] \subseteq todo[r]
        /\ pc'[s] = "disable"
        /\ \A r \in Servers \ {s} : pc'[r] = pc[r] /\ cur'[r] = cur[r]
    BY <1>7 DEF RuleBroken, Take, Goto, rows, SchedTypeOK
  <2>2. ~Busy(s, c)'
    BY <2>1 DEF Busy
  <2>. QED BY <1>1, <2>1, <2>2, SerialLoop DEF history
<1>8. ASSUME NEW s \in Servers, DisableBroken(s) PROVE SerialFor(c)'
  <2>1. /\ UNCHANGED <<history, outstanding, todo>>
        /\ pc'[s] = "next"
        /\ \A r \in Servers \ {s} : pc'[r] = pc[r] /\ cur'[r] = cur[r] /\ batch'[r] = batch[r]
    BY <1>8 DEF DisableBroken, Return, Goto, SchedTypeOK
  <2>2. ~Busy(s, c)'
    BY <2>1 DEF Busy
  <2>3. cur[s].cohort \in Cohorts /\ [cur[s].row EXCEPT !.enabled = FALSE] \in Row
    <3>1. cur[s] \in Copy
      BY <1>8 DEF DisableBroken, SchedTypeOK
    <3>. QED BY <3>1 DEF Copy, Row
  <2>4. CASE Put(cur[s].cohort, [cur[s].row EXCEPT !.enabled = FALSE])
    <3>1. \A r \in Servers : Busy(r, c)' => /\ Busy(r, c) /\ pc'[r] = pc[r]
                                            /\ cur'[r] = cur[r] /\ batch'[r] = batch[r]
      BY <2>1, <2>2 DEF Busy
    <3>. QED BY <1>1, <2>1, <2>3, <2>4, <3>1, SerialPut DEF history
  <2>5. CASE UNCHANGED rows
    BY <1>1, <2>1, <2>2, <2>5, SerialLoop DEF history, rows
  <2>. QED BY <1>8, <2>4, <2>5 DEF DisableBroken
<1>9. ASSUME NEW s \in Servers, ReadCohort(s) PROVE SerialFor(c)'
  <2>1. /\ UNCHANGED <<sched, gen, history, outstanding, todo, cur, batch>>
        /\ pc[s] = "cohort" /\ pc'[s] \in {"record", "count"}
        /\ \A r \in Servers \ {s} : pc'[r] = pc[r]
    BY <1>9 DEF ReadCohort, Goto, rows, SchedTypeOK
  <2>2. Busy(s, c)' => Busy(s, c)
    BY <2>1 DEF Busy
  <2>3. batch[s] = None
    BY <2>1 DEF SubmitInv, SubmitsOwn
  <2>. QED BY <1>1, <2>1, <2>2, <2>3, SerialLoop DEF history, BusyKnows
<1>10. ASSUME NEW s \in Servers, CountOutstanding(s) PROVE SerialFor(c)'
  <2>. DEFINE b == cur[s].row.lastBatch
  <2>1. /\ UNCHANGED <<sched, gen, history, outstanding, todo, cur, batch>>
        /\ pc[s] = "count" /\ pc'[s] \in {"record", "resolve"}
        /\ pc'[s] = "resolve" => b = None \/ ~(outstanding[b] > 0)
        /\ \A r \in Servers \ {s} : pc'[r] = pc[r]
    BY <1>10 DEF CountOutstanding, Goto, rows, SchedTypeOK
  <2>2. Busy(s, c)' => Busy(s, c)
    BY <2>1 DEF Busy
  <2>3. batch[s] = None
    BY <2>1 DEF SubmitInv, SubmitsOwn
  <2>4. Only(c, gen[c], b) /\ (b = None \/ ~(outstanding[b] > 0)) => Only(c, gen[c], None)
    BY DEF Only
  <2>. QED BY <1>1, <2>1, <2>2, <2>3, <2>4, SerialLoop DEF history, BusyKnows
<1>11. ASSUME NEW s \in Servers, ResolveDomains(s) PROVE SerialFor(c)'
  <2>1. serial[c]
    BY <1>11 DEF ResolveDomains
  <2>. QED BY <1>11, <2>1, SerialResolve DEF SerialInv
<1>12. ASSUME NEW s \in Servers, CreateJob(s) PROVE SerialFor(c)'
  BY <1>1, <1>12, SerialCreate DEF CreateJob
<1>13. ASSUME NEW s \in Servers, CreateFails(s) \/ Submitted(s) PROVE SerialFor(c)'
  <2>1. /\ UNCHANGED <<sched, gen, history, outstanding, todo, cur, batch>>
        /\ pc[s] = "submit" /\ pc'[s] = "record"
        /\ \A r \in Servers \ {s} : pc'[r] = pc[r]
    BY <1>13 DEF CreateFails, Submitted, Goto, rows, SchedTypeOK
  <2>2. Busy(s, c)' => Busy(s, c)
    BY <2>1 DEF Busy
  <2>. QED BY <1>1, <2>1, <2>2, SerialLoop DEF history, BusyKnows
<1>14. ASSUME NEW s \in Servers, Record(s) PROVE SerialFor(c)'
  <2>1. serial[c]
    BY <1>14 DEF Record
  <2>. QED BY <1>14, <2>1, SerialRecord DEF SerialInv
<1>15. ASSUME NEW s \in Servers, Stop(s) \/ ToggleScheduler(s) PROVE SerialFor(c)'
  BY <1>2, <1>15 DEF Stop, ToggleScheduler, rows
<1>16. ASSUME NEW d \in Cohorts, NEW r \in Rules, NEW f \in Forms, PutCompute(d, r, f)
       PROVE  SerialFor(c)'
  BY <1>2, <1>16 DEF PutCompute, rows
<1>17. ASSUME PutStore PROVE SerialFor(c)'
  <2>1. put.cohort \in Cohorts /\ put.row \in Row
    BY <1>17 DEF PutStore, SchedTypeOK
  <2>2. \A r \in Servers : Busy(r, c)' = Busy(r, c)
    BY <1>17 DEF PutStore, loop, Busy
  <2>. QED BY <1>1, <1>17, <2>1, <2>2, SerialPut DEF PutStore, history, loop
<1>18. ASSUME NEW d \in Cohorts, DeleteSchedule(d) \/ DeleteCohort(d) PROVE SerialFor(c)'
  <2>1. /\ UNCHANGED <<loop, gen, history, outstanding>>
        /\ sched' = [sched EXCEPT ![d] = None]
    BY <1>18 DEF DeleteSchedule, DeleteCohort
  <2>2. sched'[c] # None => sched'[c] = sched[c]
    BY <2>1 DEF SchedTypeOK
  <2>. QED BY <1>2, <2>1, <2>2
<1>19. ASSUME NEW d \in Cohorts, ToggleCohort(d) PROVE SerialFor(c)'
  BY <1>2, <1>19 DEF ToggleCohort
<1>20. ASSUME NEW r \in Rules, BreakRule(r) PROVE SerialFor(c)'
  BY <1>2, <1>20 DEF BreakRule, rows
<1>21. ASSUME NEW b \in Batches, JobEnds(b) PROVE SerialFor(c)'
  <2>1. \A d \in Batches : outstanding'[d] > 0 => outstanding[d] > 0
    BY <1>21 DEF JobEnds, SchedTypeOK
  <2>. QED BY <1>2, <1>21, <2>1 DEF JobEnds, rows
<1>22. ASSUME Advance \/ UNCHANGED vars PROVE SerialFor(c)'
  BY <1>2, <1>22 DEF Advance, vars, rows
<1>. QED
  BY <1>3, <1>4, <1>5, <1>6, <1>7, <1>8, <1>9, <1>10, <1>11, <1>12, <1>13, <1>14, <1>15,
     <1>16, <1>17, <1>18, <1>19, <1>20, <1>21, <1>22
     DEF Next, Scheduler, Api

LEMMA SerialInit == Init => SerialInv
  BY DEF Init, SerialInv, SerialFor, Clean, Only, Busy, CopyKnows

\* What is known of a cohort leaves at most one active batch in each
\* generation of its schedule.
LEMMA SerialIsOne ==
    ASSUME SchedTypeOK, SubmitInv, SerialInv
    PROVE  SerialRunsDoNotOverlap
<1>. SUFFICES ASSUME NEW c \in Cohorts, serial[c], NEW g \in 0 .. gen[c]
              PROVE  Cardinality(Active(c, g)) <= 1
  BY DEF SerialRunsDoNotOverlap
<1>1. g \in Nat
  BY DEF SchedTypeOK
<1>2. PICK x : Only(c, g, x)
  BY <1>1 DEF SerialInv, SerialFor
<1>3. Active(c, g) \subseteq {x}
  <2>. SUFFICES ASSUME NEW b \in Active(c, g) PROVE b = x
    OBVIOUS
  <2>1. /\ b \in Batches /\ owner[b] = [cohort |-> c, gen |-> g] /\ outstanding[b] > 0
    BY DEF Active
  <2>2. owner[b] # None
    BY <2>1 DEF SubmitInv, OwnedOnly
  <2>3. owner[b].cohort = c /\ owner[b].gen = g
    BY <2>1
  <2>. QED BY <1>2, <2>1, <2>2, <2>3 DEF Only
<1>4. IsFiniteSet({x}) /\ Cardinality({x}) = 1
  BY FS_Singleton
<1>5. Cardinality(Active(c, g)) \in Nat /\ Cardinality(Active(c, g)) <= Cardinality({x})
  BY <1>3, <1>4, FS_Subset, FS_CardinalityType
<1>. QED BY <1>4, <1>5

\* Runs of a schedule do not overlap while each firing has read the answer
\* of the one before: for any servers that check at once, whatever the API
\* and the jobs do in between, and whatever fails.
THEOREM SerialRunsTakeTurns == Spec => []SerialRunsDoNotOverlap
<1>1. SchedTypeOK /\ SubmitInv /\ [Next]_vars => SubmitInv'
  BY SubmitStep
<1>2. SchedTypeOK /\ SubmitInv /\ SerialInv /\ [Next]_vars => SerialInv'
  BY SerialStep
<1>3. SchedTypeOK /\ SubmitInv /\ SerialInv => SerialRunsDoNotOverlap
  BY SerialIsOne
<1>. QED
  BY <1>1, <1>2, <1>3, SubmitInit, SerialInit, SchedTypeCorrect, PTL DEF Spec
=============================================================================
