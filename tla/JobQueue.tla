------------------------------ MODULE JobQueue ------------------------------
(***************************************************************************)
(* The in-memory job queue of the server (server/queue.go, InMemoryQueue)  *)
(* and the goroutines that block in it (server/worker.go, workerLoop).     *)
(*                                                                         *)
(* Every critical section of InMemoryQueue.mu is one step.  Dequeue is     *)
(* split where the code gives the mutex up: the check at the top of its    *)
(* loop, the select on ctx.Done / closeCh / notify, and the second         *)
(* critical section that takes the goroutine off the waiter count.         *)
(* A wake-up is a token in the buffered channel notify; a send to a full   *)
(* channel is dropped, so the model keeps the number of tokens.            *)
(***************************************************************************)
EXTENDS Naturals, Sequences, FiniteSets, Functions

CONSTANTS
    Workers,        \* worker goroutines
    Jobs,           \* job ids
    BatchJobs,      \* the ids submitted with PriorityBatch
    NotifyCap,      \* capacity of the channel notify (1024 in the code)
    RepeatedIds,    \* may a client list an id twice in a reorder request?
    None            \* the value of held for a worker without a job

ASSUME JobsAssumption == BatchJobs \subseteq Jobs /\ None \notin Jobs
ASSUME WorkersAssumption == IsFiniteSet(Workers)
ASSUME NotifyCapAssumption == NotifyCap \in Nat /\ NotifyCap >= Cardinality(Workers)
ASSUME RepeatedIdsAssumption == RepeatedIds \in BOOLEAN

VARIABLES
    normal, batch,  \* the two priority slices, head first
    paused, closed, \* the flags of Pause/Resume and Close
    waiters,        \* the counter the senders look at
    notify,         \* number of tokens buffered in the channel
    pc,             \* where each worker goroutine is
    held,           \* the job each worker is running
    ctxDone,        \* workers whose context is cancelled
    fresh,          \* ids no client has submitted yet
    owed            \* history: ids accepted and neither taken nor removed

queueVars == <<normal, batch, paused, closed, waiters, notify>>
vars == <<queueVars, pc, held, ctxDone, fresh, owed>>

\* "off": no goroutine.  "check": about to lock at the top of Dequeue's loop.
\* "blocked": in the select.  "woken": left the select through notify or
\* closeCh, still counted.  "leaving": left it through ctx.Done, still counted.
\* "running": inside runJob with held[w].
Pcs == {"off", "check", "blocked", "woken", "leaving", "running"}

TypeOK ==
    /\ normal \in Seq(Jobs) /\ batch \in Seq(Jobs)
    /\ paused \in BOOLEAN /\ closed \in BOOLEAN
    /\ waiters \in Nat
    /\ notify \in 0 .. NotifyCap
    /\ pc \in [Workers -> Pcs]
    /\ held \in [Workers -> Jobs \cup {None}]
    /\ \A w \in Workers : pc[w] = "running" => held[w] \in Jobs
    /\ ctxDone \subseteq Workers
    /\ fresh \subseteq Jobs /\ owed \subseteq Jobs

At(states) == {w \in Workers : pc[w] \in states}
Blocked == At({"blocked"})
Awake == At({"woken", "check"})
Counted == At({"blocked", "woken", "leaving"})
Total == Len(normal) + Len(batch)
Queued == Range(normal) \cup Range(batch)

-----------------------------------------------------------------------------
(* Wake-ups.                                                               *)

\* One token, unless nobody is counted as waiting or the channel is full.
signalOne ==
    notify' = IF waiters >= 1 /\ notify < NotifyCap THEN notify + 1 ELSE notify

\* One token per job that some waiter could take, until the channel is full.
signalAvailable_NoDefault ==
    notify' = notify + (IF waiters < Total THEN waiters ELSE Total)

signalAvailable ==
    LET remaining == IF waiters < Total THEN waiters ELSE Total
        room == NotifyCap - notify
    IN  notify' = notify + (IF remaining < room THEN remaining ELSE room)

\* Leaving the select: the guarded decrement of the waiter count.
stopWaiting == waiters' = IF waiters > 0 THEN waiters - 1 ELSE 0

-----------------------------------------------------------------------------
(* The operations of the Queue interface.                                  *)

\* The effect of Enqueue on an open queue: append to the tier, signal.
Put(j) ==
    /\ ~closed
    /\ IF j \in BatchJobs
       THEN batch' = Append(batch, j) /\ normal' = normal
       ELSE normal' = Append(normal, j) /\ batch' = batch
    /\ IF paused THEN notify' = notify ELSE signalOne
    /\ owed' = owed \cup {j}
    /\ UNCHANGED <<paused, closed, waiters>>

\* Enqueue on a closed queue returns an error that its callers drop or log.
PutClosed ==
    /\ closed
    /\ UNCHANGED <<queueVars, owed>>

\* A client submits a job: ids are generated, so each one comes in once.
Enqueue(j) ==
    /\ j \in fresh
    /\ fresh' = fresh \ {j}
    /\ Put(j) \/ PutClosed
    /\ UNCHANGED <<pc, held, ctxDone>>

DropAt(s, i) == SubSeq(s, 1, i - 1) \o SubSeq(s, i + 1, Len(s))

IsFirstAt(s, i, j) == s[i] = j /\ \A k \in 1 .. i - 1 : s[k] # j

\* Remove takes the first occurrence in normal or, failing that, in batch.
Remove_CutsPrefix(j) ==
    /\ ~closed
    /\ \/ \E i \in DOMAIN normal :
            /\ IsFirstAt(normal, i, j)
            /\ normal' = SubSeq(normal, i + 1, Len(normal))
            /\ batch' = batch
       \/ \E i \in DOMAIN batch :
            /\ j \notin Range(normal)
            /\ IsFirstAt(batch, i, j)
            /\ batch' = SubSeq(batch, i + 1, Len(batch))
            /\ normal' = normal
    /\ owed' = owed \ {j}
    /\ UNCHANGED <<paused, closed, waiters, notify, pc, held, ctxDone, fresh>>

Remove(j) ==
    /\ ~closed
    /\ \/ \E i \in DOMAIN normal :
            /\ IsFirstAt(normal, i, j)
            /\ normal' = DropAt(normal, i)
            /\ batch' = batch
       \/ \E i \in DOMAIN batch :
            /\ j \notin Range(normal)
            /\ IsFirstAt(batch, i, j)
            /\ batch' = DropAt(batch, i)
            /\ normal' = normal
    /\ owed' = owed \ {j}
    /\ UNCHANGED <<paused, closed, waiters, notify, pc, held, ctxDone, fresh>>

Pause ==
    /\ ~closed
    /\ paused' = TRUE
    /\ UNCHANGED <<normal, batch, closed, waiters, notify, pc, held, ctxDone, fresh, owed>>

Resume_NoSignal ==
    /\ ~closed
    /\ paused' = FALSE
    /\ UNCHANGED <<normal, batch, closed, waiters, notify, pc, held, ctxDone, fresh, owed>>

Resume ==
    /\ ~closed
    /\ paused' = FALSE
    /\ signalAvailable
    /\ UNCHANGED <<normal, batch, closed, waiters, pc, held, ctxDone, fresh, owed>>

\* Reorder's validation leaves one way to split the list: the ids of the
\* normal tier first, the ids of the batch tier after them.  Nothing in it
\* looks for repeated ids.
Reorder(list) ==
    /\ ~closed
    /\ Len(list) = Total
    /\ \E k \in 0 .. Len(list) :
        /\ \A i \in 1 .. k : list[i] \in Range(normal) \ Range(batch)
        /\ \A i \in k + 1 .. Len(list) : list[i] \in Range(batch)
        /\ normal' = SubSeq(list, 1, k)
        /\ batch' = SubSeq(list, k + 1, Len(list))
    /\ IF paused THEN notify' = notify ELSE signalAvailable
    /\ UNCHANGED <<paused, closed, waiters, pc, held, ctxDone, fresh, owed>>

\* What a client may send: any list, or one that names no id twice.
ReorderRequest ==
    \E list \in [1 .. Total -> Jobs] :
        /\ RepeatedIds \/ IsInjective(list)
        /\ Reorder(list)

Close ==
    /\ ~closed
    /\ closed' = TRUE
    /\ UNCHANGED <<normal, batch, paused, waiters, notify, pc, held, ctxDone, fresh, owed>>

-----------------------------------------------------------------------------
(* Dequeue and workerLoop.                                                 *)

Goto(w, label) == pc' = [pc EXCEPT ![w] = label]

Take(w, j) ==
    /\ Goto(w, "running")
    /\ held' = [held EXCEPT ![w] = j]
    /\ owed' = owed \ {j}
    /\ UNCHANGED <<paused, closed, waiters, notify, ctxDone, fresh>>

\* The loop's check: an open, unpaused queue gives up its head, normal first,
\* whatever the state of the caller's context.
DequeueNormal(w) ==
    /\ pc[w] = "check" /\ ~closed /\ ~paused
    /\ normal # << >>
    /\ normal' = Tail(normal) /\ batch' = batch
    /\ Take(w, Head(normal))

DequeueBatch_AnyTime(w) ==
    /\ pc[w] = "check" /\ ~closed /\ ~paused
    /\ batch # << >>
    /\ batch' = Tail(batch) /\ normal' = normal
    /\ Take(w, Head(batch))

DequeueBatch_Peek(w) ==
    /\ pc[w] = "check" /\ ~closed /\ ~paused
    /\ normal = << >> /\ batch # << >>
    /\ UNCHANGED <<normal, batch>>
    /\ Take(w, Head(batch))

DequeueBatch(w) ==
    /\ pc[w] = "check" /\ ~closed /\ ~paused
    /\ normal = << >> /\ batch # << >>
    /\ batch' = Tail(batch) /\ normal' = normal
    /\ Take(w, Head(batch))

\* A closed queue ends Dequeue with an error and with it workerLoop.
DequeueClosed_KeepsLock(w) ==
    /\ pc[w] = "check" /\ closed
    /\ \A v \in Workers \ {w} : pc[v] # "off"
    /\ Goto(w, "off")
    /\ UNCHANGED <<queueVars, held, ctxDone, fresh, owed>>

DequeueClosed(w) ==
    /\ pc[w] = "check" /\ closed
    /\ Goto(w, "off")
    /\ UNCHANGED <<queueVars, held, ctxDone, fresh, owed>>

DequeueWait(w) ==
    /\ pc[w] = "check" /\ ~closed
    /\ paused \/ Total = 0
    /\ waiters' = waiters + 1
    /\ Goto(w, "blocked")
    /\ UNCHANGED <<normal, batch, paused, closed, notify, held, ctxDone, fresh, owed>>

\* The select.  Go picks any ready case.
SelectNotify(w) ==
    /\ pc[w] = "blocked" /\ notify > 0
    /\ notify' = notify - 1
    /\ Goto(w, "woken")
    /\ UNCHANGED <<normal, batch, paused, closed, waiters, held, ctxDone, fresh, owed>>

SelectClosed(w) ==
    /\ pc[w] = "blocked" /\ closed
    /\ Goto(w, "woken")
    /\ UNCHANGED <<queueVars, held, ctxDone, fresh, owed>>

SelectDone(w) ==
    /\ pc[w] = "blocked" /\ w \in ctxDone
    /\ Goto(w, "leaving")
    /\ UNCHANGED <<queueVars, held, ctxDone, fresh, owed>>

\* A worker woken by a token loops and checks again.
Rewait(w) ==
    /\ pc[w] = "woken"
    /\ stopWaiting
    /\ Goto(w, "check")
    /\ UNCHANGED <<normal, batch, paused, closed, notify, held, ctxDone, fresh, owed>>

\* Dequeue returns ctx.Err() and workerLoop returns.
Leave(w) ==
    /\ pc[w] = "leaving"
    /\ stopWaiting
    /\ Goto(w, "off")
    /\ UNCHANGED <<normal, batch, paused, closed, notify, held, ctxDone, fresh, owed>>

\* runJob returns and workerLoop calls Dequeue again.
Finish(w) ==
    /\ pc[w] = "running"
    /\ Goto(w, "check")
    /\ held' = [held EXCEPT ![w] = None]
    /\ UNCHANGED <<queueVars, ctxDone, fresh, owed>>

\* runJob could not move the job to running in the store: it puts the id back.
Reenqueue(w) ==
    /\ pc[w] = "running"
    /\ Put(held[w]) \/ PutClosed
    /\ Goto(w, "check")
    /\ held' = [held EXCEPT ![w] = None]
    /\ UNCHANGED <<ctxDone, fresh>>

-----------------------------------------------------------------------------
(* What the worker pool does to its goroutines.                            *)

\* startWorker: a new goroutine, whose context is cancelled from the start
\* when the pool's context already is.
Spawn(w, done) ==
    /\ pc[w] = "off"
    /\ Goto(w, "check")
    /\ ctxDone' = IF done THEN ctxDone \cup {w} ELSE ctxDone \ {w}
    /\ UNCHANGED <<queueVars, held, fresh, owed>>

\* The cancel functions of some workers are called.
CancelCtx(S) ==
    /\ ctxDone' = ctxDone \cup S
    /\ UNCHANGED <<queueVars, pc, held, fresh, owed>>

-----------------------------------------------------------------------------
Init ==
    /\ normal = << >> /\ batch = << >>
    /\ paused = FALSE /\ closed = FALSE
    /\ waiters = 0 /\ notify = 0
    /\ pc = [w \in Workers |-> "off"]
    /\ held = [w \in Workers |-> None]
    /\ ctxDone = {}
    /\ fresh = Jobs /\ owed = {}

Dequeue(w) ==
    \/ DequeueNormal(w) \/ DequeueBatch(w) \/ DequeueClosed(w) \/ DequeueWait(w)
    \/ SelectNotify(w) \/ SelectClosed(w) \/ SelectDone(w)
    \/ Rewait(w) \/ Leave(w)

Operation ==
    \/ \E j \in Jobs : Enqueue(j) \/ Remove(j)
    \/ Pause \/ Resume \/ ReorderRequest

Worker(w) == Dequeue(w) \/ Finish(w) \/ Reenqueue(w)

Pool ==
    \/ \E w \in Workers, done \in BOOLEAN : Spawn(w, done)
    \/ \E S \in SUBSET Workers : CancelCtx(S)
    \/ Close

Next == Operation \/ Pool \/ \E w \in Workers : Worker(w)

Spec == Init /\ [][Next]_vars

-----------------------------------------------------------------------------
(* Properties.                                                             *)

\* The count the senders of tokens rely on is the number of goroutines
\* between the two critical sections of Dequeue: no goroutine is forgotten
\* and none is counted twice, in whatever order the three select cases fire.
WaitersExact == waiters = Cardinality(Counted)

\* No lost wake-up.  While the queue is open and not paused, either every
\* blocked worker has a token waiting for it, or the tokens and the workers
\* already on their way to the queue are enough to take every queued job.
\* A worker therefore never sleeps beside a job that nobody is coming for.
EnoughWakeups ==
    ~paused /\ ~closed =>
        \/ notify >= Cardinality(Blocked)
        \/ Total <= notify + Cardinality(Awake)

\* The queue holds each accepted id exactly once until a worker takes it or
\* a client removes it: no operation loses or duplicates a job.
HoldsOwed ==
    /\ Queued = owed
    /\ IsInjective(normal) /\ IsInjective(batch)
    /\ Range(normal) \cap Range(batch) = {}

\* A job is in one place: queued, or with one worker.
OneHolder ==
    \A v, w \in At({"running"}) :
        held[v] \notin owed /\ (held[v] = held[w] => v = w)
=============================================================================
