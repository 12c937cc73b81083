----------------------------- MODULE WorkerPool -----------------------------
(***************************************************************************)
(* The worker pool around the queue (server/worker.go): Start, the resize  *)
(* a settings change triggers, and Stop.  The pool keeps one cancel        *)
(* function per live worker in a slice; a resize appends to it or cuts     *)
(* its tail off and calls the functions it cut off, one after the other,   *)
(* while workers run.  settingsMu keeps two resizes apart.                 *)
(***************************************************************************)
EXTENDS JobQueue

CONSTANT MaxPool    \* the largest worker_count a resize asks for

ASSUME MaxPoolAssumption == MaxPool \in 1 .. Cardinality(Workers)

VARIABLES
    cancels,    \* the workers behind the slice of cancel functions
    toCancel,   \* cut off by a resize, cancel function not called yet
    target,     \* the worker_count the pool is being brought to; 0: not started
    poolDone    \* the pool's own context is cancelled

poolVars == <<cancels, toCancel, target, poolDone>>
allVars == <<vars, poolVars>>

PoolTypeOK ==
    /\ TypeOK
    /\ cancels \in Seq(Workers)
    /\ toCancel \subseteq Workers
    /\ target \in 0 .. MaxPool
    /\ poolDone \in BOOLEAN

PoolInit ==
    /\ Init
    /\ cancels = << >> /\ toCancel = {} /\ target = 0 /\ poolDone = FALSE

-----------------------------------------------------------------------------
Settled == Len(cancels) = target /\ toCancel = {}

\* Start creates the pool's context and begins to start workers.
Start(n) ==
    /\ target = 0
    /\ target' = n
    /\ UNCHANGED <<vars, cancels, toCancel, poolDone>>

\* resizeWorkerPool, first critical sections: a smaller pool cuts the slice,
\* a larger one is reached by AddWorker steps.
Resize_CancelsHead(n) ==
    /\ target > 0 /\ Settled
    /\ n # target
    /\ target' = n
    /\ IF n < Len(cancels)
       THEN /\ cancels' = SubSeq(cancels, 1, n)
            /\ toCancel' = Range(SubSeq(cancels, 1, Len(cancels) - n))
       ELSE UNCHANGED <<cancels, toCancel>>
    /\ UNCHANGED <<vars, poolDone>>

Resize(n) ==
    /\ target > 0 /\ Settled
    /\ n # target
    /\ target' = n
    /\ IF n < Len(cancels)
       THEN /\ cancels' = SubSeq(cancels, 1, n)
            /\ toCancel' = Range(SubSeq(cancels, n + 1, Len(cancels)))
       ELSE UNCHANGED <<cancels, toCancel>>
    /\ UNCHANGED <<vars, poolDone>>

\* startWorker: append the cancel function, start the goroutine.
AddWorker(w) ==
    /\ Len(cancels) < target
    /\ Spawn(w, poolDone)
    /\ cancels' = Append(cancels, w)
    /\ UNCHANGED <<toCancel, target, poolDone>>

\* The tail of resizeWorkerPool: call one of the functions it cut off.
CancelWorker_Forgets(w) ==
    /\ w \in toCancel
    /\ CancelCtx({})
    /\ toCancel' = toCancel \ {w}
    /\ UNCHANGED <<cancels, target, poolDone>>

CancelWorker(w) ==
    /\ w \in toCancel
    /\ CancelCtx({w})
    /\ toCancel' = toCancel \ {w}
    /\ UNCHANGED <<cancels, target, poolDone>>

\* Stop cancels the pool's context, which every worker's context descends
\* from, and only then closes the queue.
Stop ==
    /\ target > 0 /\ ~poolDone
    /\ poolDone' = TRUE
    /\ CancelCtx({w \in Workers : pc[w] # "off"})
    /\ UNCHANGED <<cancels, toCancel, target>>

StopClose ==
    /\ poolDone
    /\ Close
    /\ UNCHANGED poolVars

PoolStep ==
    \/ \E n \in 1 .. MaxPool : Start(n) \/ Resize(n)
    \/ \E w \in Workers : AddWorker(w) \/ CancelWorker(w)
    \/ Stop \/ StopClose

QueueStep ==
    /\ Operation \/ \E w \in Workers : Worker(w)
    /\ UNCHANGED poolVars

PoolNext == PoolStep \/ QueueStep

-----------------------------------------------------------------------------
(* Fairness.  The Go scheduler runs every runnable goroutine, and a        *)
(* goroutine that keeps competing for a sync.Mutex gets it: weak fairness  *)
(* for each worker's own steps in Dequeue and for the starting, resizing   *)
(* or stopping one.  select picks among its ready cases at random, so      *)
(* ctx.Done is not passed over for ever: strong fairness for SelectDone.   *)
(* A job ends (its context has a deadline and runJob returns on every      *)
(* path); a store that refuses the start of a job is not refusing for      *)
(* ever, hence strong fairness for Finish.                                 *)
Fairness ==
    /\ \A w \in Workers :
        /\ WF_allVars(Dequeue(w) /\ UNCHANGED poolVars)
        /\ SF_allVars(SelectDone(w) /\ UNCHANGED poolVars)
        /\ SF_allVars(Finish(w) /\ UNCHANGED poolVars)
        /\ WF_allVars(CancelWorker(w))
    /\ WF_allVars(\E w \in Workers : AddWorker(w))
    /\ WF_allVars(\E n \in 1 .. MaxPool : Start(n))
    /\ WF_allVars(StopClose)

PoolSpec == PoolInit /\ [][PoolNext]_allVars /\ Fairness

-----------------------------------------------------------------------------
(* Properties.                                                             *)

Live == {w \in Workers : pc[w] # "off" /\ w \notin ctxDone}

\* The slice of cancel functions is exactly the set of workers that were
\* started and not yet told to stop: a resize can always reach every worker
\* it has to stop, and stops no other.
SliceIsLive ==
    ~poolDone =>
        /\ Range(cancels) \cup toCancel = Live
        /\ Range(cancels) \cap toCancel = {}
        /\ IsInjective(cancels)

\* After Stop every worker goroutine ends, so wg.Wait returns, provided
\* clients do not keep resizing the pool (the HTTP server is shut down only
\* after Stop has returned).
StopTerminates ==
    <>[]Settled => (poolDone ~> (\A w \in Workers : pc[w] = "off"))

\* A resize takes effect: cancelled workers end unless new jobs keep coming
\* (fresh is finite, so they do not).
ShrinkTerminates == \A w \in Workers : (w \in toCancel /\ ~poolDone) ~> (pc[w] = "off")

\* A queued job is taken or removed, as long as the server is not stopped
\* and the queue ends up resumed.
EveryJobServed ==
    (<>[](~poolDone) /\ <>[](~paused)) => \A j \in Jobs : (j \in owed) ~> (j \notin owed)

\* The queue, seen by the rest of the server, behaves as the contract says.
Contract == INSTANCE QueueContract
    WITH present <- {w \in Workers : pc[w] \notin {"off", "leaving"}}

ImplementsContract == Contract!Spec
=============================================================================
