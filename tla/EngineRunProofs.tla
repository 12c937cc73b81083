--------------------------- MODULE EngineRunProofs ---------------------------
(***************************************************************************)
(* Proofs about EngineRun, for any plan, requests, worlds, numbers of      *)
(* servers, workers and faults: the query counter of a job, which has no   *)
(* lock of its own, counts every query once.                               *)
(***************************************************************************)
EXTENDS EngineRun, FunctionTheorems, FiniteSetTheorems, TLAPS

Query == "EXTERNAL_QUERY"

Places == {"plan", "gate", "send", "self", "wait", "close", "end", "merge", "returned"}

\* Where the goroutines of the run are: the run itself does tasks only without
\* workers, and workers have tasks only while the run dispatches or waits.
ControlInv ==
    /\ mpc \in Places
    /\ tpc \in [Goroutines -> {"off", "idle", "query", "answer", "check"}]
    /\ tpc[Main] \in {"off", "query", "answer"}
    /\ tpc[Main] # "off" => mpc = "self"
    /\ \A g \in Goroutines \ {Main} :
          tpc[g] # "off" => g \in Workers /\ mpc \in {"gate", "send", "wait"}
    /\ mpc \notin {"plan", "returned"} => Case \in Cases
    /\ \A c \in Cases : world.verdict[c] # Query
    /\ status # "running" => mpc = "returned"

\* A goroutine is in a callback only at a place that it leaves when it is done
\* with it.
CallPlace ==
    \A g \in Goroutines : cb[g].on =>
        IF g = Main THEN mpc \notin {"send", "wait", "returned"} ELSE tpc[g] = "answer"

Waiting(es) == Cardinality({i \in DOMAIN es : es[i].tag = Query})
InCall == IF \E g \in Goroutines : cb[g].on /\ cb[g].tag = Query THEN 1 ELSE 0

\* What callbacks the goroutines are in.
CallType ==
    /\ cb = [g \in Goroutines |-> cb[g]]
    /\ \A g \in Goroutines :
          /\ cb[g] = [on |-> cb[g].on, tag |-> cb[g].tag, read |-> cb[g].read]
          /\ cb[g].on \in BOOLEAN /\ cb[g].read \in Int

\* One callback at a time; what waits, waits for it; what was sent has been
\* counted, is being counted or waits.
LoggerInv ==
    /\ live = TRUE /\ runLive = TRUE /\ running \in BOOLEAN
    /\ CallType
    /\ \A g, h \in Goroutines : cb[g].on /\ cb[h].on => g = h
    /\ running <=> \E g \in Goroutines : cb[g].on
    /\ pending \in Seq(Range(pending))
    /\ ~running => pending = <<>>
    /\ counted \in Nat /\ sent \in Nat
    /\ \A g \in Goroutines : cb[g].on /\ cb[g].read # -1 => cb[g].read = counted
    /\ counted + InCall + Waiting(pending) = sent

\* Until a callback fails.
CountInv == ControlInv /\ (~broke => CallPlace /\ LoggerInv)

-----------------------------------------------------------------------------
(* The entries that wait.                                                  *)

LEMMA WaitingNone == Waiting(<<>>) = 0
<1>1. {i \in DOMAIN <<>> : <<>>[i].tag = Query} = {}
  OBVIOUS
<1>. QED BY <1>1, FS_EmptySet DEF Waiting

LEMMA WaitingFinite ==
    ASSUME NEW S, NEW es \in Seq(S)
    PROVE  /\ IsFiniteSet({i \in DOMAIN es : es[i].tag = Query})
           /\ Waiting(es) \in Nat
<1>. DEFINE Q == {i \in DOMAIN es : es[i].tag = Query}
<1>1. Len(es) \in Nat /\ DOMAIN es = 1 .. Len(es)
  OBVIOUS
<1>2. IsFiniteSet(1 .. Len(es))
  BY <1>1, FS_Interval
<1>3. Q \in SUBSET (1 .. Len(es))
  BY <1>1
<1>4. IsFiniteSet(Q)
  BY <1>2, <1>3, FS_Subset
<1>. QED BY <1>4, FS_CardinalityType DEF Waiting

\* One more, at the end.
LEMMA WaitingAppend ==
    ASSUME NEW S, NEW es \in Seq(S), NEW e
    PROVE  Waiting(Append(es, e)) = Waiting(es) + (IF e.tag = Query THEN 1 ELSE 0)
<1>. DEFINE Q == {i \in DOMAIN es : es[i].tag = Query}
            more == Append(es, e)
            n == Len(es) + 1
            R == {i \in DOMAIN more : more[i].tag = Query}
<1>0. es \in Seq(S \cup {e}) /\ e \in S \cup {e}
  OBVIOUS
<1>1. /\ Len(es) \in Nat /\ DOMAIN es = 1 .. Len(es) /\ DOMAIN more = 1 .. n
      /\ more[n] = e /\ \A i \in 1 .. Len(es) : more[i] = es[i]
  BY <1>0
<1>2. IsFiniteSet(Q) /\ Cardinality(Q) \in Nat
  BY WaitingFinite, FS_CardinalityType
<1>3. n \notin Q
  BY <1>1
<1>4. R = IF e.tag = Query THEN Q \cup {n} ELSE Q
  BY <1>1
<1>. HIDE DEF n, Q, more, R
<1>5. Cardinality(Q \cup {n}) = Cardinality(Q) + 1
  BY <1>2, <1>3, FS_AddElement
<1>6. Cardinality(R) = Cardinality(Q) + (IF e.tag = Query THEN 1 ELSE 0)
  BY <1>2, <1>4, <1>5
<1>. QED BY <1>6 DEF Waiting, Q, R, more

\* The first one is called back.
LEMMA WaitingTail ==
    ASSUME NEW S, NEW es \in Seq(S), es # <<>>
    PROVE  Waiting(es) = Waiting(Tail(es)) + (IF Head(es).tag = Query THEN 1 ELSE 0)
<1>. DEFINE Q == {i \in DOMAIN es : es[i].tag = Query}
            rest == Tail(es)
            R == {i \in DOMAIN rest : rest[i].tag = Query}
            f == [i \in R |-> i + 1]
<1>1. /\ Len(es) \in Nat \ {0} /\ DOMAIN es = 1 .. Len(es) /\ DOMAIN rest = 1 .. (Len(es) - 1)
      /\ Head(es) = es[1] /\ \A i \in 1 .. (Len(es) - 1) : rest[i] = es[i + 1]
      /\ rest \in Seq(S)
  OBVIOUS
<1>2. IsFiniteSet(Q) /\ Cardinality(Q) \in Nat /\ IsFiniteSet(R) /\ Cardinality(R) \in Nat
  BY <1>1, WaitingFinite, FS_CardinalityType
<1>3. \A i \in R : i \in Nat /\ i + 1 \in Q \ {1}
  BY <1>1
<1>4. \A j \in Q \ {1} : j - 1 \in R /\ (j - 1) + 1 = j
  BY <1>1
<1>. HIDE DEF Q, R, rest
<1>5. f \in Bijection(R, Q \ {1})
  <2>1. f \in [R -> Q \ {1}]
    BY <1>3
  <2>2. \A i, j \in R : f[i] = f[j] => i = j
    BY <1>3
  <2>3. \A j \in Q \ {1} : \E i \in R : f[i] = j
    BY <1>4
  <2>. HIDE DEF f
  <2>. QED BY <2>1, <2>2, <2>3, Fun_IsBij
<1>6. Cardinality(Q \ {1}) = Cardinality(R)
  <2>1. ExistsBijection(R, Q \ {1})
    BY <1>5 DEF ExistsBijection
  <2>. QED BY <1>2, <2>1, FS_Bijection
<1>7. Cardinality(Q \ {1}) = IF 1 \in Q THEN Cardinality(Q) - 1 ELSE Cardinality(Q)
  BY <1>2, FS_RemoveElement
<1>8. 1 \in Q <=> Head(es).tag = Query
  BY <1>1 DEF Q
<1>9. Cardinality(Q) = Cardinality(R) + (IF Head(es).tag = Query THEN 1 ELSE 0)
  BY <1>2, <1>6, <1>7, <1>8
<1>. QED BY <1>9 DEF Waiting, Q, R, rest

LEMMA OwnRange ==
    ASSUME NEW S, NEW es \in Seq(S)
    PROVE  es \in Seq(Range(es))
<1>1. Len(es) \in Nat /\ es = [i \in 1 .. Len(es) |-> es[i]]
  OBVIOUS
<1>2. \A i \in 1 .. Len(es) : es[i] \in Range(es)
  BY DEF Range
<1>. QED BY <1>1, <1>2

-----------------------------------------------------------------------------
(* The logger.                                                             *)

\* Steps that neither log nor are of a callback.
Silent == UNCHANGED <<pending, running, live, runLive, cb, counted, sent>>

LEMMA LoggerFrame ==
    ASSUME LoggerInv, Silent
    PROVE  LoggerInv'
  BY DEF LoggerInv, Silent, InCall, Waiting, CallType

LEMMA CallPut ==
    ASSUME CallType, NEW g \in Goroutines, NEW on \in BOOLEAN, NEW tag,
           cb' = [cb EXCEPT ![g] = [on |-> on, tag |-> tag, read |-> -1]]
    PROVE  /\ CallType'
           /\ cb'[g].on = on /\ cb'[g].tag = tag /\ cb'[g].read = -1
           /\ \A h \in Goroutines \ {g} : cb'[h] = cb[h]
<1>. DEFINE c == [on |-> on, tag |-> tag, read |-> -1]
<1>1. c = [on |-> c.on, tag |-> c.tag, read |-> c.read] /\ c.on = on /\ c.tag = tag /\ c.read = -1
  OBVIOUS
<1>2. -1 \in Int
  OBVIOUS
<1>. HIDE DEF c
<1>3. cb' = [cb EXCEPT ![g] = c]
  BY DEF c
<1>4. cb' = [h \in Goroutines |-> cb'[h]] /\ cb'[g] = c /\ \A h \in Goroutines \ {g} : cb'[h] = cb[h]
  BY <1>3 DEF CallType
<1>5. CallType'
  <2>. SUFFICES ASSUME NEW h \in Goroutines
                PROVE  /\ cb'[h] = [on |-> cb'[h].on, tag |-> cb'[h].tag, read |-> cb'[h].read]
                       /\ cb'[h].on \in BOOLEAN /\ cb'[h].read \in Int
    BY <1>4 DEF CallType
  <2>1. CASE h = g
    BY <1>1, <1>2, <1>4, <2>1
  <2>2. CASE h # g
    BY <1>4, <2>2 DEF CallType
  <2>. QED BY <2>1, <2>2
<1>. QED BY <1>1, <1>4, <1>5

\* Add: the entry is called back at once or waits.
LEMMA LoggerAdds ==
    ASSUME LoggerInv, NEW g \in Goroutines, NEW old, NEW e,
           AddTo(g, old, e, TRUE), live' = TRUE, runLive' = TRUE, counted' = counted,
           sent' = sent + (IF e.tag = Query THEN 1 ELSE 0)
    PROVE  /\ LoggerInv'
           /\ \A h \in Goroutines \ {g} : cb'[h] = cb[h]
<1>1. pending \in Seq(Range(pending)) /\ Waiting(pending) \in Nat
  BY WaitingFinite DEF LoggerInv
<1>2. /\ CallType
      /\ counted \in Nat /\ sent \in Nat /\ running \in BOOLEAN
  BY DEF LoggerInv
<1>3. sent' \in Nat
  BY <1>2
<1>4. CASE running
  <2>1. UNCHANGED cb /\ running' = TRUE /\ pending' = Append(pending, e)
    BY <1>4 DEF AddTo
  <2>2. pending' \in Seq(Range(pending'))
    <3>1. pending \in Seq(Range(pending) \cup {e})
      BY <1>1
    <3>2. Append(pending, e) \in Seq(Range(pending) \cup {e})
      BY <3>1
    <3>. QED BY <2>1, <3>2, OwnRange
  <2>3. Waiting(pending)' = Waiting(pending) + (IF e.tag = Query THEN 1 ELSE 0)
    BY <1>1, <2>1, WaitingAppend
  <2>5. InCall' = InCall /\ InCall \in {0, 1}
    BY <2>1 DEF InCall
  <2>6. counted' + InCall' + Waiting(pending)' = sent'
    BY <1>1, <1>2, <2>3, <2>5 DEF LoggerInv
  <2>. QED BY <1>3, <1>4, <2>1, <2>2, <2>6 DEF LoggerInv, CallType
<1>5. CASE ~running
  <2>1. /\ cb' = [cb EXCEPT ![g] = Call(e)] /\ running' = TRUE
        /\ UNCHANGED pending /\ pending = <<>>
    BY <1>5 DEF AddTo, LoggerInv
  <2>2. \A h \in Goroutines : cb[h].on = FALSE
    BY <1>2, <1>5 DEF LoggerInv
  <2>3. /\ CallType'
        /\ cb'[g].on = TRUE /\ cb'[g].tag = e.tag /\ cb'[g].read = -1
        /\ \A h \in Goroutines \ {g} : cb'[h] = cb[h]
    <3>1. cb' = [cb EXCEPT ![g] = [on |-> TRUE, tag |-> e.tag, read |-> -1]]
      BY <2>1 DEF Call
    <3>. QED BY <1>2, <3>1, CallPut
  <2>4. InCall = 0 /\ InCall' = IF e.tag = Query THEN 1 ELSE 0
    BY <2>2, <2>3 DEF InCall
  <2>5. Waiting(pending) = 0 /\ Waiting(pending)' = 0
    BY <2>1, WaitingNone
  <2>6. counted' + InCall' + Waiting(pending)' = sent'
    BY <1>2, <2>4, <2>5 DEF LoggerInv
  <2>7. pending' \in Seq(Range(pending'))
    BY <2>1 DEF LoggerInv
  <2>. QED BY <1>3, <2>1, <2>2, <2>3, <2>6, <2>7 DEF LoggerInv
<1>. QED BY <1>2, <1>4, <1>5

\* The counter is read.
LEMMA LoggerReads ==
    ASSUME LoggerInv, NEW g \in Goroutines, QueryCounterReads(g)
    PROVE  /\ LoggerInv'
           /\ \A h \in Goroutines : cb'[h].on = cb[h].on
<1>1. /\ CallType
      /\ counted \in Nat
  BY DEF LoggerInv
<1>2. /\ UNCHANGED <<pending, running, live, runLive, counted, sent>> /\ cb[g].on
      /\ cb' = [cb EXCEPT ![g].read = counted]
  BY DEF QueryCounterReads, Free, history
<1>3. /\ CallType'
      /\ \A h \in Goroutines : cb'[h].on = cb[h].on /\ cb'[h].tag = cb[h].tag
      /\ cb'[g].read = counted /\ \A h \in Goroutines \ {g} : cb'[h] = cb[h]
  <2>1. cb[g] = [on |-> cb[g].on, tag |-> cb[g].tag, read |-> cb[g].read] /\ counted \in Int
    BY <1>1 DEF CallType
  <2>2. [cb[g] EXCEPT !.read = counted] = [on |-> cb[g].on, tag |-> cb[g].tag, read |-> counted]
    BY <2>1
  <2>3. /\ cb' = [h \in Goroutines |-> cb'[h]] /\ \A h \in Goroutines \ {g} : cb'[h] = cb[h]
        /\ cb'[g] = [on |-> cb[g].on, tag |-> cb[g].tag, read |-> counted]
    BY <1>1, <1>2, <2>2 DEF CallType
  <2>4. cb'[g].on = cb[g].on /\ cb'[g].tag = cb[g].tag /\ cb'[g].read = counted
    BY <2>3
  <2>5. CallType'
    BY <1>1, <2>1, <2>3, <2>4 DEF CallType
  <2>. QED BY <2>3, <2>4, <2>5
<1>4. InCall' = InCall /\ Waiting(pending)' = Waiting(pending)
  BY <1>2, <1>3 DEF InCall
<1>5. counted' + InCall' + Waiting(pending)' = sent'
  BY <1>2, <1>4 DEF LoggerInv
<1>. QED BY <1>1, <1>2, <1>3, <1>5 DEF LoggerInv

\* The counter is written; the next entry is called back.
LEMMA LoggerReturns ==
    ASSUME LoggerInv, NEW g \in Goroutines, CallbackReturns(g)
    PROVE  /\ LoggerInv'
           /\ \A h \in Goroutines : cb'[h].on => cb[h].on
<1>1. /\ CallType
      /\ counted \in Nat /\ sent \in Nat /\ Waiting(pending) \in Nat
      /\ pending \in Seq(Range(pending))
  BY WaitingFinite DEF LoggerInv
<1>2. /\ UNCHANGED <<live, runLive, sent>> /\ cb[g].on /\ cb[g].read = counted
      /\ counted' = cb[g].read + IF cb[g].tag = Query THEN 1 ELSE 0
      /\ running' = (pending # <<>>)
      /\ cb' = [cb EXCEPT ![g] = IF pending = <<>> THEN NoCall ELSE Call(Head(pending))]
      /\ pending' = IF pending = <<>> THEN <<>> ELSE Tail(pending)
  BY DEF CallbackReturns, Free, history, LoggerInv, Query
<1>3. \A h \in Goroutines \ {g} : cb[h].on = FALSE /\ cb'[h] = cb[h]
  BY <1>1, <1>2 DEF LoggerInv
<1>4. InCall = IF cb[g].tag = Query THEN 1 ELSE 0
  BY <1>2, <1>3 DEF InCall
<1>5. counted' \in Nat /\ counted' + Waiting(pending) = sent
  BY <1>1, <1>2, <1>4 DEF LoggerInv
<1>6. CASE pending = <<>>
  <2>1. cb'[g].on = FALSE /\ cb'[g].tag = None /\ cb'[g].read = -1 /\ pending' = <<>>
        /\ running' = FALSE
        /\ CallType'
    <3>1. cb' = [cb EXCEPT ![g] = [on |-> FALSE, tag |-> None, read |-> -1]]
      BY <1>2, <1>6 DEF NoCall
    <3>. QED BY <1>1, <1>2, <1>6, <3>1, CallPut
  <2>2. InCall' = 0 /\ Waiting(pending)' = 0 /\ Waiting(pending) = 0
    BY <1>3, <1>6, <2>1, WaitingNone DEF InCall
  <2>3. counted' + InCall' + Waiting(pending)' = sent'
    BY <1>1, <1>2, <1>5, <2>2
  <2>4. pending' \in Seq(Range(pending'))
    BY <1>6, <2>1 DEF LoggerInv
  <2>. QED BY <1>1, <1>2, <1>3, <1>5, <2>1, <2>3, <2>4 DEF LoggerInv
<1>7. CASE pending # <<>>
  <2>1. /\ Head(pending) = pending[1] /\ 1 \in DOMAIN pending
        /\ pending' = Tail(pending) /\ Tail(pending) \in Seq(Range(pending))
    BY <1>1, <1>2, <1>7
  <2>3. /\ cb'[g].on = TRUE /\ cb'[g].tag = Head(pending).tag /\ cb'[g].read = -1
        /\ running' = TRUE
        /\ CallType'
    <3>1. /\ cb' = [cb EXCEPT ![g] = [on |-> TRUE, tag |-> Head(pending).tag, read |-> -1]]
          /\ running' = TRUE
      BY <1>2, <1>7 DEF Call
    <3>. QED BY <1>1, <3>1, CallPut
  <2>4. InCall' = IF Head(pending).tag = Query THEN 1 ELSE 0
    BY <1>3, <2>1, <2>3 DEF InCall
  <2>5. Waiting(pending) = Waiting(pending)' + (IF Head(pending).tag = Query THEN 1 ELSE 0)
    BY <1>1, <1>7, <2>1, WaitingTail
  <2>6. Waiting(pending)' \in Nat
    BY <2>1, WaitingFinite
  <2>7. counted' + InCall' + Waiting(pending)' = sent'
    <3>1. sent' = sent
      BY <1>2
    <3>. QED BY <1>1, <1>5, <2>4, <2>5, <2>6, <3>1
  <2>8. pending' \in Seq(Range(pending'))
    BY <2>1, OwnRange
  <2>. QED BY <1>1, <1>2, <1>3, <1>5, <2>3, <2>7, <2>8 DEF LoggerInv
<1>. QED BY <1>2, <1>3, <1>6, <1>7


-----------------------------------------------------------------------------
(* Where the goroutines are.                                               *)

LEMMA ControlInit == Init => ControlInv
<1>. SUFFICES ASSUME Init PROVE ControlInv
  OBVIOUS
<1>1. PICK s \in Scenarios : world = s.world
  BY DEF Init
<1>2. \A c \in Cases : world.verdict[c] # Query
  BY <1>1, EngineAssumption DEF Query
<1>3. Main \in Goroutines
  BY EngineAssumption DEF Main, Goroutines
<1>. QED BY <1>2, <1>3 DEF Init, ControlInv, Places

LEMMA ControlStep ==
    ASSUME ControlInv, [Next]_vars
    PROVE  ControlInv'
<1>. USE DEF Places, plan, run, fan, history
<1>a. Main \in Goroutines /\ Main = 0
  BY EngineAssumption DEF Main, Goroutines
<1>b. UNCHANGED plan
  BY DEF Next, Callback, QueryCounterReads, CallbackReturns, CallbackFails, TaskStep, SendQuery,
     QueryRefused, TaskReturns, TaskFails, TaskPanics, WorkerStep, Receive, WorkerChecks, RunStep,
     StartCase, SkipBasic03, PlanEnds, DispatcherChecks, Collect, LogVerdict, CaseFails, CasePanics,
     LogEnd, MergeCase, Finish, Cancel, vars
<1>c. Workers' = Workers /\ \A c \in Cases : world'.verdict[c] = world.verdict[c]
  BY <1>b DEF Workers
<1>1. ASSUME UNCHANGED <<mpc, tpc, at, status>> PROVE ControlInv'
  BY <1>1, <1>c DEF ControlInv, Case
<1>2. ASSUME NEW g \in Goroutines, Callback(g) PROVE ControlInv'
  BY <1>1, <1>2 DEF Callback, QueryCounterReads, CallbackReturns, CallbackFails
<1>3. ASSUME NEW g \in Goroutines, SendQuery(g) \/ QueryRefused(g) PROVE ControlInv'
  <2>1. UNCHANGED <<mpc, at, status>> /\ tpc[g] = "query" /\ tpc' = [tpc EXCEPT ![g] = "answer"]
    BY <1>3 DEF SendQuery, QueryRefused
  <2>. QED BY <1>a, <1>c, <2>1 DEF ControlInv, Case
<1>4. ASSUME NEW g \in Goroutines, TaskReturns(g) \/ TaskFails(g) \/ TaskPanics(g)
      PROVE  ControlInv'
  <2>1. /\ UNCHANGED <<at, status>> /\ tpc[g] = "answer"
        /\ tpc' = [tpc EXCEPT ![g] = IF g = Main THEN "off" ELSE "check"]
        /\ IF g = Main THEN mpc' \in {"gate", "returned"} ELSE mpc' = mpc
    BY <1>4 DEF TaskReturns, TaskFails, TaskPanics, TaskDone
  <2>2. CASE g = Main
    <3>1. mpc = "self" /\ \A h \in Goroutines : tpc'[h] = "off"
      BY <1>a, <2>1, <2>2 DEF ControlInv
    <3>. QED BY <1>a, <1>c, <2>1, <2>2, <3>1 DEF ControlInv, Case
  <2>3. CASE g # Main
    BY <1>a, <1>c, <2>1, <2>3 DEF ControlInv, Case
  <2>. QED BY <2>2, <2>3
<1>5. ASSUME NEW g \in Goroutines, Receive(g) PROVE ControlInv'
  <2>1. /\ UNCHANGED <<at, status>> /\ mpc = "send" /\ tpc' = [tpc EXCEPT ![g] = "query"]
        /\ mpc' = IF g = Main THEN "self" ELSE "gate"
        /\ IF Workers = {} THEN g = Main ELSE tpc[g] = "idle"
    BY <1>5 DEF Receive
  <2>2. CASE g = Main
    <3>1. Workers = {}
      BY <1>a, <2>1, <2>2 DEF ControlInv
    <3>2. \A h \in Goroutines \ {Main} : tpc'[h] = "off"
      BY <1>a, <2>1, <2>2, <3>1 DEF ControlInv
    <3>. QED BY <1>a, <1>c, <2>1, <2>2, <3>2 DEF ControlInv, Case
  <2>3. CASE g # Main
    BY <1>a, <1>c, <2>1, <2>3 DEF ControlInv, Case
  <2>. QED BY <2>2, <2>3
<1>6. ASSUME NEW g \in Goroutines, WorkerChecks(g) PROVE ControlInv'
  <2>1. UNCHANGED <<mpc, at, status>> /\ tpc[g] = "check" /\ tpc' = [tpc EXCEPT ![g] = "idle"]
    BY <1>6 DEF WorkerChecks
  <2>. QED BY <1>a, <1>c, <2>1 DEF ControlInv, Case
<1>7. ASSUME StartCase PROVE ControlInv'
  <2>1. PICK i \in DOMAIN Order :
          /\ at' = i /\ mpc' = IF Width[Order[i]] = 0 THEN "close" ELSE "gate"
          /\ tpc' = [w \in Goroutines |->
                       IF w \in Workers /\ w <= Width[Order[i]] THEN "idle" ELSE "off"]
    BY <1>7 DEF StartCase, Earliest, Due
  <2>2. mpc = "plan" /\ status' = status
    BY <1>7 DEF StartCase
  <2>3. Order[i] \in Cases /\ Case' = Order[i]
    BY <2>1 DEF Cases, Range, Case
  <2>4. \A w \in Goroutines : tpc'[w] # "off" => w \in Workers /\ w # Main /\ mpc' = "gate"
    BY <2>1 DEF Workers, Main
  <2>. QED BY <1>a, <1>c, <2>1, <2>2, <2>3, <2>4 DEF ControlInv
<1>8. ASSUME SkipBasic03 PROVE ControlInv'
  <2>1. UNCHANGED <<mpc, status, tpc>> /\ mpc = "plan"
    BY <1>8 DEF SkipBasic03
  <2>. QED BY <1>a, <1>c, <2>1 DEF ControlInv
<1>9. ASSUME PlanEnds \/ CasePanics PROVE ControlInv'
  <2>1. UNCHANGED <<at, status, tpc>> /\ mpc \in {"plan", "close"} /\ mpc' = "returned"
    BY <1>9 DEF PlanEnds, CasePanics
  <2>. QED BY <1>a, <1>c, <2>1 DEF ControlInv
<1>10. ASSUME DispatcherChecks PROVE ControlInv'
  <2>1. UNCHANGED <<at, status, tpc>> /\ mpc = "gate" /\ mpc' \in {"wait", "send"}
    BY <1>10 DEF DispatcherChecks
  <2>. QED BY <1>a, <1>c, <2>1 DEF ControlInv, Case
<1>11. ASSUME Collect PROVE ControlInv'
  <2>1. /\ UNCHANGED <<at, status>> /\ mpc = "wait" /\ mpc' \in {"returned", "merge", "close"}
        /\ tpc' = [g \in Goroutines |-> "off"]
    BY <1>11 DEF Collect
  <2>. QED BY <1>a, <1>c, <2>1 DEF ControlInv, Case
<1>12. ASSUME LogVerdict \/ CaseFails \/ LogEnd PROVE ControlInv'
  <2>1. UNCHANGED <<at, status, tpc>> /\ mpc \in {"close", "end"} /\ mpc' \in {"end", "merge"}
    BY <1>12 DEF LogVerdict, CaseFails, LogEnd
  <2>. QED BY <1>a, <1>c, <2>1 DEF ControlInv, Case
<1>13. ASSUME MergeCase PROVE ControlInv'
  <2>1. /\ UNCHANGED <<at, status>> /\ mpc = "merge" /\ mpc' \in {"plan", "returned"}
        /\ tpc' = [g \in Goroutines |-> "off"]
    BY <1>13 DEF MergeCase, FanGone
  <2>. QED BY <1>a, <1>c, <2>1 DEF ControlInv
<1>14. ASSUME Finish PROVE ControlInv'
  <2>1. UNCHANGED <<mpc, at, tpc>> /\ mpc = "returned"
    BY <1>14 DEF Finish
  <2>. QED BY <1>a, <1>c, <2>1 DEF ControlInv
<1>15. ASSUME Cancel \/ UNCHANGED vars PROVE ControlInv'
  BY <1>1, <1>15 DEF Cancel, vars
<1>. QED
  BY <1>2, <1>3, <1>4, <1>5, <1>6, <1>7, <1>8, <1>9, <1>10, <1>11, <1>12, <1>13, <1>14, <1>15
  DEF Next, TaskStep, WorkerStep, RunStep


-----------------------------------------------------------------------------
(* The count.                                                              *)

LEMMA CountInit == Init => CountInv
<1>. SUFFICES ASSUME Init PROVE CallPlace /\ LoggerInv
  BY ControlInit DEF CountInv
<1>1. /\ cb = [g \in Goroutines |-> NoCall] /\ live = TRUE /\ runLive = TRUE /\ running = FALSE
      /\ pending = <<>> /\ counted = 0 /\ sent = 0
  BY DEF Init
<1>2. CallType /\ \A g \in Goroutines : cb[g].on = FALSE
  <2>1. \A g \in Goroutines : cb[g] = [on |-> FALSE, tag |-> None, read |-> -1]
    BY <1>1 DEF NoCall
  <2>2. \A g \in Goroutines : cb[g].on = FALSE /\ cb[g].tag = None /\ cb[g].read = -1
    BY <2>1
  <2>3. -1 \in Int
    OBVIOUS
  <2>4. cb = [g \in Goroutines |-> cb[g]]
    BY <1>1
  <2>. QED BY <2>1, <2>2, <2>3, <2>4 DEF CallType
<1>4. InCall = 0 /\ Waiting(pending) = 0
  BY <1>1, <1>2, WaitingNone DEF InCall
<1>5. pending \in Seq(Range(pending))
  BY <1>1
<1>6. counted + InCall + Waiting(pending) = sent
  BY <1>1, <1>4
<1>7. CallPlace
  BY <1>2 DEF CallPlace
<1>8. LoggerInv
  <2>1. running \in BOOLEAN /\ (running <=> \E g \in Goroutines : cb[g].on)
    BY <1>1, <1>2
  <2>2. counted \in Nat /\ sent \in Nat
    BY <1>1
  <2>. QED BY <1>1, <1>2, <1>5, <1>6, <2>1, <2>2 DEF LoggerInv
<1>. QED BY <1>7, <1>8

\* The first entry of a case, when nobody else is there.
LEMMA LogsFirst ==
    ASSUME ControlInv, CallPlace, LoggerInv, NEW e, e.tag # Query, AddTo(Main, <<>>, e, TRUE),
           live' = TRUE, runLive' = TRUE, UNCHANGED <<counted, sent>>, mpc = "plan",
           mpc' \in {"plan", "close", "gate"}
    PROVE  CallPlace' /\ LoggerInv'
<1>1. Main \in Goroutines
  BY EngineAssumption DEF Main, Goroutines
<1>2. sent' = sent + (IF e.tag = Query THEN 1 ELSE 0)
  BY DEF LoggerInv
<1>3. LoggerInv' /\ \A h \in Goroutines \ {Main} : cb'[h] = cb[h]
  BY <1>1, <1>2, LoggerAdds
<1>4. \A h \in Goroutines \ {Main} : tpc[h] = "off"
  BY DEF ControlInv
<1>. QED BY <1>3, <1>4 DEF CallPlace

\* No callback fails in this step.
LEMMA CountStep ==
    ASSUME ControlInv, CallPlace, LoggerInv, [Next]_vars, broke' = FALSE
    PROVE  CallPlace' /\ LoggerInv'
<1>. USE DEF plan, run, fan, history, callbacks
<1>a. Main \in Goroutines /\ Main = 0
  BY EngineAssumption DEF Main, Goroutines
<1>b. tpc \in [Goroutines -> {"off", "idle", "query", "answer", "check"}]
  BY DEF ControlInv
<1>c. live = TRUE /\ runLive = TRUE
  BY DEF LoggerInv
<1>1. ASSUME Silent, mpc' = mpc \/ mpc' \notin {"send", "wait", "returned"} \/ Free(Main),
             \A g \in Goroutines \ {Main} : tpc[g] = "answer" => tpc'[g] = "answer" \/ Free(g)
      PROVE  CallPlace' /\ LoggerInv'
  BY <1>1, LoggerFrame DEF CallPlace, Silent, Free
<1>2. ASSUME NEW g \in Goroutines, QueryCounterReads(g) PROVE CallPlace' /\ LoggerInv'
  BY <1>2, LoggerReads DEF CallPlace, QueryCounterReads
<1>3. ASSUME NEW g \in Goroutines, CallbackReturns(g) PROVE CallPlace' /\ LoggerInv'
  BY <1>3, LoggerReturns DEF CallPlace, CallbackReturns
<1>4. ASSUME NEW g \in Goroutines, CallbackFails(g) PROVE FALSE
  BY <1>4 DEF CallbackFails
<1>5. ASSUME NEW g \in Goroutines, SendQuery(g) PROVE CallPlace' /\ LoggerInv'
  <2>. DEFINE e == Entry(Case, "EXTERNAL_QUERY", job[g])
  <2>1. /\ UNCHANGED <<mpc, live, runLive, counted>> /\ tpc[g] = "query" /\ sent' = sent + 1
        /\ tpc' = [tpc EXCEPT ![g] = "answer"] /\ AddTo(g, log, e, TRUE)
    BY <1>5, <1>c DEF SendQuery, Add
  <2>2. e.tag = Query
    BY DEF Entry, Query
  <2>. HIDE DEF e
  <2>3. LoggerInv' /\ \A h \in Goroutines \ {g} : cb'[h] = cb[h]
    BY <1>c, <2>1, <2>2, LoggerAdds
  <2>4. g = Main => mpc = "self"
    BY <2>1 DEF ControlInv
  <2>5. CallPlace'
    BY <1>a, <1>b, <2>1, <2>3, <2>4 DEF CallPlace
  <2>. QED BY <2>3, <2>5
<1>6. ASSUME NEW g \in Goroutines, QueryRefused(g) PROVE CallPlace' /\ LoggerInv'
  <2>1. Silent /\ mpc' = mpc /\ tpc' = [tpc EXCEPT ![g] = "answer"]
    BY <1>6 DEF QueryRefused, Silent
  <2>. QED BY <1>1, <1>b, <2>1
<1>7. ASSUME NEW g \in Goroutines, TaskReturns(g) \/ TaskFails(g) \/ TaskPanics(g)
      PROVE  CallPlace' /\ LoggerInv'
  <2>1. /\ Silent /\ Free(g)
        /\ tpc' = [tpc EXCEPT ![g] = IF g = Main THEN "off" ELSE "check"]
        /\ g # Main => mpc' = mpc
    BY <1>7 DEF TaskReturns, TaskFails, TaskPanics, TaskDone, Silent
  <2>. QED BY <1>1, <1>b, <2>1
<1>8. ASSUME NEW g \in Goroutines, Receive(g) PROVE CallPlace' /\ LoggerInv'
  <2>1. /\ Silent /\ mpc = "send" /\ mpc' \in {"self", "gate"}
        /\ tpc' = [tpc EXCEPT ![g] = "query"] /\ (g = Main \/ tpc[g] = "idle")
    BY <1>8 DEF Receive, Silent
  <2>. QED BY <1>1, <1>b, <2>1
<1>9. ASSUME NEW g \in Goroutines, WorkerChecks(g) PROVE CallPlace' /\ LoggerInv'
  <2>1. Silent /\ mpc' = mpc /\ tpc[g] = "check" /\ tpc' = [tpc EXCEPT ![g] = "idle"]
    BY <1>9 DEF WorkerChecks, Silent
  <2>. QED BY <1>1, <1>b, <2>1
<1>10. ASSUME StartCase \/ SkipBasic03 PROVE CallPlace' /\ LoggerInv'
  <2>1. CASE StartCase
    <3>1. PICK j \in Earliest(Due) :
            AddTo(Main, <<>>, [Entry(Order[j], "TEST_CASE_START", 0) EXCEPT !.ts = 0], TRUE)
      BY <1>c, <2>1 DEF StartCase
    <3>. DEFINE e == [Entry(Order[j], "TEST_CASE_START", 0) EXCEPT !.ts = 0]
    <3>2. e.tag # Query
      BY DEF Entry, Query
    <3>3. AddTo(Main, <<>>, e, TRUE)
      BY <3>1
    <3>. HIDE DEF e
    <3>4. /\ live' = TRUE /\ runLive' = TRUE /\ UNCHANGED <<counted, sent>> /\ mpc = "plan"
          /\ mpc' \in {"plan", "close", "gate"}
      BY <1>c, <2>1 DEF StartCase
    <3>. QED BY <3>2, <3>3, <3>4, LogsFirst
  <2>2. CASE SkipBasic03
    <3>1. PICK j \in Earliest(Due) :
            AddTo(Main, <<>>,
                  [Entry(Order[j], "HAS_NAMESERVER_NO_WWW_A_TEST", 0) EXCEPT !.ts = 0], TRUE)
      BY <1>c, <2>2 DEF SkipBasic03
    <3>. DEFINE e == [Entry(Order[j], "HAS_NAMESERVER_NO_WWW_A_TEST", 0) EXCEPT !.ts = 0]
    <3>2. e.tag # Query
      BY DEF Entry, Query
    <3>3. AddTo(Main, <<>>, e, TRUE)
      BY <3>1
    <3>. HIDE DEF e
    <3>4. /\ live' = TRUE /\ runLive' = TRUE /\ UNCHANGED <<counted, sent>> /\ mpc = "plan"
          /\ mpc' \in {"plan", "close", "gate"}
      BY <1>c, <2>2 DEF SkipBasic03
    <3>. QED BY <3>2, <3>3, <3>4, LogsFirst
  <2>. QED BY <1>10, <2>1, <2>2
<1>11. ASSUME PlanEnds \/ CasePanics \/ CaseFails \/ DispatcherChecks
       PROVE  CallPlace' /\ LoggerInv'
  <2>1. Silent /\ Free(Main) /\ tpc' = tpc
    BY <1>11 DEF PlanEnds, CasePanics, CaseFails, DispatcherChecks, Silent
  <2>. QED BY <1>1, <2>1
<1>12. ASSUME Collect PROVE CallPlace' /\ LoggerInv'
  <2>1. Silent /\ mpc = "wait" /\ \A w \in Workers : tpc[w] \in {"idle", "off"}
    BY <1>12 DEF Collect, Silent
  <2>2. Free(Main) /\ \A g \in Goroutines \ {Main} : tpc[g] # "answer"
    BY <1>a, <2>1 DEF CallPlace, Free, ControlInv
  <2>. QED BY <1>1, <2>1, <2>2
<1>13. ASSUME LogVerdict PROVE CallPlace' /\ LoggerInv'
  <2>1. /\ mpc = "close" /\ mpc' = "end" /\ UNCHANGED <<tpc, counted, sent>>
        /\ \/ UNCHANGED <<pending, running, live, runLive, cb>>
           \/ \E v : /\ v \in {Verdict(Case, entries, {t \in Servers : outs[t].ok})} \ {None}
                     /\ Add(Main, Entry(Case, v, 0))
    <3>1. mpc = "close" /\ mpc' = "end" /\ UNCHANGED <<tpc, counted, sent>>
      BY <1>13 DEF LogVerdict
    <3>2. PICK v \in {Verdict(Case, entries, {t \in Servers : outs[t].ok})} \cup
                       (IF jobDone THEN {None} ELSE {}) :
            IF v = None THEN UNCHANGED <<entries, log, ticks, callbacks>>
            ELSE Add(Main, Entry(Case, v, 0))
      BY <1>13 DEF LogVerdict
    <3>. QED BY <3>1, <3>2
  <2>2. CASE UNCHANGED <<pending, running, live, runLive, cb>>
    BY <1>1, <2>1, <2>2 DEF Silent
  <2>3. ASSUME NEW v, v \in {Verdict(Case, entries, {t \in Servers : outs[t].ok})} \ {None},
               Add(Main, Entry(Case, v, 0))
        PROVE  CallPlace' /\ LoggerInv'
    <3>1. Case \in Cases
      BY <2>1 DEF ControlInv
    <3>2. world.verdict[Case] # Query
      BY <3>1 DEF ControlInv
    <3>3. v # Query
      BY <2>3, <3>2 DEF Verdict, Query
    <3>. DEFINE e == Entry(Case, v, 0)
    <3>4. e.tag = v /\ AddTo(Main, log, e, TRUE) /\ live' = TRUE /\ runLive' = TRUE
      BY <1>c, <2>3 DEF Add, Entry
    <3>. HIDE DEF e
    <3>5. sent \in Nat
      BY DEF LoggerInv
    <3>6. LoggerInv' /\ \A h \in Goroutines \ {Main} : cb'[h] = cb[h]
      <4>1. sent' = sent + (IF e.tag = Query THEN 1 ELSE 0)
        BY <2>1, <3>3, <3>4, <3>5
      <4>. QED BY <1>a, <2>1, <3>4, <4>1, LoggerAdds
    <3>. QED BY <2>1, <3>6 DEF CallPlace
  <2>. QED BY <2>1, <2>2, <2>3
<1>14. ASSUME LogEnd PROVE CallPlace' /\ LoggerInv'
  <2>. DEFINE e == Entry(Case, "TEST_CASE_END", 0)
  <2>1. /\ mpc' = "merge" /\ UNCHANGED <<tpc, counted, sent>> /\ AddTo(Main, log, e, TRUE)
        /\ live' = TRUE /\ runLive' = TRUE
    BY <1>14, <1>c DEF LogEnd, Add
  <2>2. e.tag # Query
    BY DEF Entry, Query
  <2>3. sent \in Nat
    BY DEF LoggerInv
  <2>. HIDE DEF e
  <2>4. LoggerInv' /\ \A h \in Goroutines \ {Main} : cb'[h] = cb[h]
    <3>1. sent' = sent + (IF e.tag = Query THEN 1 ELSE 0)
      BY <2>1, <2>2, <2>3
    <3>. QED BY <1>a, <2>1, <2>2, <3>1, LoggerAdds
  <2>. QED BY <2>1, <2>4 DEF CallPlace
<1>15. ASSUME MergeCase PROVE CallPlace' /\ LoggerInv'
  <2>1. Silent /\ Free(Main) /\ mpc = "merge"
    BY <1>15 DEF MergeCase, Silent
  <2>2. \A g \in Goroutines \ {Main} : tpc[g] = "off"
    BY <2>1 DEF ControlInv
  <2>. QED BY <1>1, <2>1, <2>2
<1>16. ASSUME Finish \/ Cancel \/ UNCHANGED vars PROVE CallPlace' /\ LoggerInv'
  <2>1. Silent /\ mpc' = mpc /\ tpc' = tpc
    BY <1>16 DEF Finish, Cancel, vars, Silent
  <2>. QED BY <1>1, <2>1
<1>. QED
  BY <1>2, <1>3, <1>4, <1>5, <1>6, <1>7, <1>8, <1>9, <1>10, <1>11, <1>12, <1>13, <1>14, <1>15, <1>16
  DEF Next, Callback, TaskStep, WorkerStep, RunStep

\* A callback that has failed stays failed.
LEMMA BrokeStays == [Next]_vars => (broke' = FALSE => broke = FALSE)
  BY DEF history, vars, Next, Callback, QueryCounterReads, CallbackReturns, CallbackFails, TaskStep,
     SendQuery, QueryRefused, TaskReturns, TaskFails, TaskPanics, WorkerStep, Receive, WorkerChecks,
     RunStep, StartCase, SkipBasic03, PlanEnds, DispatcherChecks, Collect, LogVerdict, CaseFails,
     CasePanics, LogEnd, MergeCase, Finish, Cancel

\* At the end of a job all have left their callbacks and nothing waits, so
\* every query is counted once, whatever the order in which goroutines log.
THEOREM QueriesAreCounted == Spec => []QueriesCounted
<1>1. CountInv /\ [Next]_vars => CountInv'
  <2>. SUFFICES ASSUME CountInv, [Next]_vars PROVE CountInv'
    OBVIOUS
  <2>1. ControlInv'
    BY ControlStep DEF CountInv
  <2>2. ASSUME ~broke' PROVE CallPlace' /\ LoggerInv'
    <3>1. broke' = FALSE => broke = FALSE
      BY BrokeStays
    <3>2. broke' = FALSE
      BY <2>2
    <3>. QED BY <3>1, <3>2, CountStep DEF CountInv
  <2>. QED BY <2>1, <2>2 DEF CountInv
<1>2. CountInv => QueriesCounted
  <2>. SUFFICES ASSUME CountInv, status # "running", ~broke PROVE counted = sent
    BY DEF QueriesCounted
  <2>1. mpc = "returned" /\ LoggerInv /\ CallPlace /\ ControlInv
    BY DEF CountInv, ControlInv
  <2>2. \A g \in Goroutines : ~cb[g].on
    BY <2>1 DEF CallPlace, ControlInv
  <2>3. InCall = 0 /\ pending = <<>> /\ counted \in Nat /\ sent \in Nat
        /\ counted + InCall + Waiting(pending) = sent
    BY <2>1, <2>2 DEF InCall, LoggerInv
  <2>. QED BY <2>3, WaitingNone
<1>. QED BY <1>1, <1>2, CountInit, PTL DEF Spec

=============================================================================
