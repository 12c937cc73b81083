------------------------- MODULE JobLifecycleProofs -------------------------
(* The life of a job, for every number of jobs, workers, handlers, failing *)
(* calls and crashes: types, the two tables, and at most one engine start. *)
EXTENDS JobLifecycle, TLAPS

\* A gauge stays a natural number.
LEMMA ObserveType ==
    ASSUME inFlight \in Nat, queueDepth \in Nat, NEW from, NEW to, Observe(from, to)
    PROVE  inFlight' \in Nat /\ queueDepth' \in Nat
<1>1. \A n \in Nat : Less(n) \in Nat
  BY DEF Less
<1>. QED
  BY <1>1 DEF Observe

LEMMA TypeInit == Init => LifecycleTypeOK
<1>1. Init => batch \in BOOLEAN /\ up \in BOOLEAN
  BY DEF Init
<1>2. Init => started \in [Jobs -> Nat] /\ faults \in 0 .. MaxFaults /\ crashes \in 0 .. MaxCrashes
  BY LifecycleAssumption DEF Init
<1>. QED
  BY <1>1, <1>2, LifecycleAssumption DEF Init, LifecycleTypeOK, Wpcs, Cpcs, Dpcs

LEMMA TypeStep == LifecycleTypeOK /\ [Next]_vars => LifecycleTypeOK'
<1>. SUFFICES ASSUME LifecycleTypeOK, [Next]_vars PROVE LifecycleTypeOK'
  OBVIOUS
<1>. USE LifecycleAssumption DEF LifecycleTypeOK, Wpcs, Cpcs, Dpcs, store, worker,
       client, deleter, reaper, gauges, boot, history
<1>1. ASSUME NEW w \in Workers, Dequeue(w) PROVE LifecycleTypeOK'
  BY <1>1 DEF Dequeue
<1>2. ASSUME NEW w \in Workers, Skip(w) PROVE LifecycleTypeOK'
  BY <1>2 DEF Skip, Return, Fault
<1>3. ASSUME NEW w \in Workers, Load(w) PROVE LifecycleTypeOK'
  BY <1>3 DEF Load, Goto, Get
<1>4. ASSUME NEW w \in Workers, Start(w) PROVE LifecycleTypeOK'
  BY <1>4, ObserveType DEF Start, Goto, Update
<1>5. ASSUME NEW w \in Workers, StartFails(w) PROVE LifecycleTypeOK'
  BY <1>5 DEF StartFails, Goto, Refused, Fault
<1>6. ASSUME NEW w \in Workers, Requeue(w) PROVE LifecycleTypeOK'
  BY <1>6 DEF Requeue, Goto
<1>7. ASSUME NEW w \in Workers, EngineEnd(w) PROVE LifecycleTypeOK'
  BY <1>7 DEF EngineEnd, Terminal
<1>8. ASSUME NEW w \in Workers, Graduate(w) PROVE LifecycleTypeOK'
  BY <1>8, ObserveType DEF Graduate, Goto, GraduateJob, Terminal
<1>9. ASSUME NEW w \in Workers, GraduateFails(w) PROVE LifecycleTypeOK'
  BY <1>9 DEF GraduateFails, Goto, Refused, Fault
<1>10. ASSUME NEW w \in Workers, Park(w) PROVE LifecycleTypeOK'
  BY <1>10, ObserveType DEF Park, Goto, Return, Update, Refused, Fault
<1>11. ASSUME NEW w \in Workers, Unregister(w) PROVE LifecycleTypeOK'
  BY <1>11 DEF Unregister, Goto, Return
<1>12. ASSUME NEW w \in Workers, Timeout(w) PROVE LifecycleTypeOK'
  BY <1>12 DEF Timeout
<1>13. ASSUME NEW w \in Workers, Panic(w) PROVE LifecycleTypeOK'
  BY <1>13 DEF Panic, Goto, Fault
<1>14. ASSUME NEW c \in Clients, Enqueue(c) PROVE LifecycleTypeOK'
  BY <1>14 DEF Enqueue, At
<1>15. ASSUME NEW c \in Clients, ObserveJobSubmitted(c) PROVE LifecycleTypeOK'
  BY <1>15, ObserveType DEF ObserveJobSubmitted, At, Reply
<1>16. ASSUME NEW c \in Clients, CancelCtx(c) PROVE LifecycleTypeOK'
  BY <1>16 DEF CancelCtx, At, Reply, cancelJob
<1>17. ASSUME NEW c \in Clients, CancelRemove(c) PROVE LifecycleTypeOK'
  BY <1>17 DEF CancelRemove, At
<1>18. ASSUME NEW c \in Clients, CancelGraduate(c) PROVE LifecycleTypeOK'
  BY <1>18, ObserveType DEF CancelGraduate, At, Reply, GraduateJob, Terminal,
       Refused, Fault
<1>19. ASSUME NEW c \in Clients, QueueRemoveLookup(c) PROVE LifecycleTypeOK'
  BY <1>19 DEF QueueRemoveLookup, At, Reply
<1>20. ASSUME NEW c \in Clients, NEW j \in Jobs, Create(c, j) PROVE LifecycleTypeOK'
  BY <1>20 DEF Create, At
<1>20a. ASSUME NEW c \in Clients, SubmitBatchEnd(c) PROVE LifecycleTypeOK'
  BY <1>20a DEF SubmitBatchEnd, At, Reply
<1>21. ASSUME NEW c \in Clients, NEW j \in Jobs, CancelGet(c, j) PROVE LifecycleTypeOK'
  BY <1>21 DEF CancelGet, At
<1>22. ASSUME NEW c \in Clients, NEW j \in Jobs, QueueRemove(c, j) PROVE LifecycleTypeOK'
  BY <1>22 DEF QueueRemove, At
<1>23. ASSUME NEW j \in Jobs, DeleteQueued(j) PROVE LifecycleTypeOK'
  BY <1>23 DEF DeleteQueued
<1>24. ASSUME NEW j \in Jobs, DeleteRunning(j) PROVE LifecycleTypeOK'
  BY <1>24 DEF DeleteRunning, cancelJob
<1>25. ASSUME DeleteList PROVE LifecycleTypeOK'
  BY <1>25 DEF DeleteList, Fault
<1>26. ASSUME DeleteGraduate PROVE LifecycleTypeOK'
  BY <1>26, ObserveType DEF DeleteGraduate, DeleterDone, GraduateJob, Terminal,
       Refused, Fault
<1>27. ASSUME DeleteCount PROVE LifecycleTypeOK'
  BY <1>27 DEF DeleteCount, DeleterAt, DeleterDone, Fault
<1>28. ASSUME DeleteCountRunning PROVE LifecycleTypeOK'
  BY <1>28 DEF DeleteCountRunning, DeleterAt, DeleterDone, Fault
<1>29. ASSUME DeleteBatch PROVE LifecycleTypeOK'
  BY <1>29 DEF DeleteBatch, DeleterDone
<1>30. ASSUME ReapGraduate PROVE LifecycleTypeOK'
  BY <1>30, ObserveType DEF ReapGraduate, GraduateJob, Terminal, Refused, Fault
<1>31. ASSUME Crash PROVE LifecycleTypeOK'
  <2>1. crashes' \in 0 .. MaxCrashes
    BY <1>31 DEF Crash
  <2>2. /\ cancels' \in [Jobs -> Workers \cup {None}]
        /\ orphans' \subseteq Jobs
        /\ dlist' \in [Jobs -> {"none", "queued", "running"}]
    BY <1>31 DEF Crash, DeleterDone
  <2>. QED
    BY <1>31, <2>1, <2>2 DEF Crash, DeleterDone
<1>32. ASSUME RecoverQueued PROVE LifecycleTypeOK'
  BY <1>32 DEF RecoverQueued, Rows
<1>33. ASSUME NEW old, ReapList(old) PROVE LifecycleTypeOK'
  BY <1>33 DEF ReapList, Rows
<1>34. ASSUME NEW j \in sweep, ReapCheck(j) PROVE LifecycleTypeOK'
  BY <1>34 DEF ReapCheck
<1>35. ASSUME NEW j \in orphans, RecoverOrphan(j) PROVE LifecycleTypeOK'
  BY <1>35 DEF RecoverOrphan, GraduateJob, Terminal, Update, Fault
<1>36. ASSUME NEW w \in Workers, ProgressRead(w) PROVE LifecycleTypeOK'
  BY <1>36 DEF ProgressRead
<1>37. ASSUME NEW w \in Workers, ProgressWrite(w) PROVE LifecycleTypeOK'
  BY <1>37 DEF ProgressWrite, Update
<1>38. CASE UNCHANGED vars
  BY <1>38 DEF vars
<1>. QED
  BY <1>1, <1>2, <1>3, <1>4, <1>5, <1>6, <1>7, <1>8, <1>9, <1>10, <1>11, <1>12,
     <1>13, <1>14, <1>15, <1>16, <1>17, <1>18, <1>19, <1>20, <1>20a, <1>21, <1>22, <1>23,
     <1>24, <1>25, <1>26, <1>27, <1>28, <1>29, <1>30, <1>31, <1>32, <1>33, <1>34,
     <1>35, <1>36, <1>37, <1>38 DEF Next, WorkerStep, ClientStep, Request, DeleterStep,
     ReaperStep, RecoveryStep

\* Type correctness of the job lifecycle.
THEOREM LifecycleTypeCorrect == Spec => []LifecycleTypeOK
  BY TypeInit, TypeStep, PTL DEF Spec

-----------------------------------------------------------------------------
(* The two tables.  RowXorRun is not inductive by itself: Create would     *)
(* bring back an id that is still fresh.                                   *)

FreshIsUnknown ==
    \A j \in fresh :
        /\ jobs[j] = "none" /\ runs[j] = "none" /\ started[j] = 0
        /\ j \notin queue /\ j \notin deleted
        /\ \A w \in Workers : wjob[w] # j
        /\ \A c \in Clients : cjob[c] # j

StoreInv == RowXorRun /\ FreshIsUnknown

LEMMA StoreInit == Init => StoreInv
  BY LifecycleAssumption DEF Init, StoreInv, RowXorRun, FreshIsUnknown

LEMMA StoreStep == LifecycleTypeOK /\ StoreInv /\ [Next]_vars => StoreInv'
<1>. SUFFICES ASSUME LifecycleTypeOK, StoreInv, [Next]_vars PROVE StoreInv'
  OBVIOUS
<1>. USE LifecycleAssumption DEF LifecycleTypeOK, StoreInv, RowXorRun,
       FreshIsUnknown, store, worker, client, deleter, reaper,
       gauges, boot, history
<1>1. ASSUME NEW w \in Workers, Dequeue(w) PROVE StoreInv'
  BY <1>1 DEF Dequeue
<1>2. ASSUME NEW w \in Workers, Skip(w) PROVE StoreInv'
  BY <1>2 DEF Skip, Return
<1>3. ASSUME NEW w \in Workers, Load(w) PROVE StoreInv'
  BY <1>3 DEF Load, Goto
<1>4. ASSUME NEW w \in Workers, Start(w) PROVE StoreInv'
  BY <1>4 DEF Start, Goto, Update
<1>5. ASSUME NEW w \in Workers, StartFails(w) PROVE StoreInv'
  BY <1>5 DEF StartFails, Goto, Refused
<1>6. ASSUME NEW w \in Workers, Requeue(w) PROVE StoreInv'
  BY <1>6 DEF Requeue, Goto
<1>7. ASSUME NEW w \in Workers, EngineEnd(w) PROVE StoreInv'
  BY <1>7 DEF EngineEnd
<1>8. ASSUME NEW w \in Workers, Graduate(w) PROVE StoreInv'
  BY <1>8 DEF Graduate, Goto, GraduateJob
<1>9. ASSUME NEW w \in Workers, GraduateFails(w) PROVE StoreInv'
  BY <1>9 DEF GraduateFails, Goto, Refused
<1>10. ASSUME NEW w \in Workers, Park(w) PROVE StoreInv'
  BY <1>10 DEF Park, Goto, Return, Update, Refused
<1>11. ASSUME NEW w \in Workers, Unregister(w) PROVE StoreInv'
  BY <1>11 DEF Unregister, Goto, Return
<1>12. ASSUME NEW w \in Workers, Timeout(w) PROVE StoreInv'
  BY <1>12 DEF Timeout
<1>13. ASSUME NEW w \in Workers, Panic(w) PROVE StoreInv'
  BY <1>13 DEF Panic, Goto
<1>14. ASSUME NEW c \in Clients, Enqueue(c) PROVE StoreInv'
  BY <1>14 DEF Enqueue, At
<1>15. ASSUME NEW c \in Clients, ObserveJobSubmitted(c) PROVE StoreInv'
  BY <1>15 DEF ObserveJobSubmitted, At, Reply
<1>16. ASSUME NEW c \in Clients, CancelCtx(c) PROVE StoreInv'
  BY <1>16 DEF CancelCtx, At, Reply
<1>17. ASSUME NEW c \in Clients, CancelRemove(c) PROVE StoreInv'
  BY <1>17 DEF CancelRemove, At
<1>18. ASSUME NEW c \in Clients, CancelGraduate(c) PROVE StoreInv'
  BY <1>18 DEF CancelGraduate, At, Reply, GraduateJob, Refused
<1>19. ASSUME NEW c \in Clients, QueueRemoveLookup(c) PROVE StoreInv'
  BY <1>19 DEF QueueRemoveLookup, At, Reply
<1>20. ASSUME NEW c \in Clients, NEW j \in Jobs, Create(c, j) PROVE StoreInv'
  BY <1>20 DEF Create, At
<1>20a. ASSUME NEW c \in Clients, SubmitBatchEnd(c) PROVE StoreInv'
  BY <1>20a DEF SubmitBatchEnd, At, Reply
<1>21. ASSUME NEW c \in Clients, NEW j \in Jobs, CancelGet(c, j) PROVE StoreInv'
  BY <1>21 DEF CancelGet, At, Get, Terminal
<1>22. ASSUME NEW c \in Clients, NEW j \in Jobs, QueueRemove(c, j) PROVE StoreInv'
  BY <1>22 DEF QueueRemove, At
<1>23. ASSUME NEW j \in Jobs, DeleteQueued(j) PROVE StoreInv'
  BY <1>23 DEF DeleteQueued
<1>24. ASSUME NEW j \in Jobs, DeleteRunning(j) PROVE StoreInv'
  BY <1>24 DEF DeleteRunning
<1>25. ASSUME DeleteList PROVE StoreInv'
  BY <1>25 DEF DeleteList
<1>26. ASSUME DeleteGraduate PROVE StoreInv'
  BY <1>26 DEF DeleteGraduate, DeleterDone, GraduateJob, Refused
<1>27. ASSUME DeleteCount PROVE StoreInv'
  BY <1>27 DEF DeleteCount, DeleterAt, DeleterDone
<1>28. ASSUME DeleteCountRunning PROVE StoreInv'
  BY <1>28 DEF DeleteCountRunning, DeleterAt, DeleterDone
<1>29. ASSUME DeleteBatch PROVE StoreInv'
  BY <1>29 DEF DeleteBatch, DeleterDone
<1>30. ASSUME ReapGraduate PROVE StoreInv'
  BY <1>30 DEF ReapGraduate, GraduateJob, Refused
<1>31. ASSUME Crash PROVE StoreInv'
  BY <1>31 DEF Crash, DeleterDone
<1>32. ASSUME RecoverQueued PROVE StoreInv'
  BY <1>32 DEF RecoverQueued, Rows
<1>33. ASSUME NEW old, ReapList(old) PROVE StoreInv'
  BY <1>33 DEF ReapList
<1>34. ASSUME NEW j \in sweep, ReapCheck(j) PROVE StoreInv'
  BY <1>34 DEF ReapCheck
<1>35. ASSUME NEW j \in orphans, RecoverOrphan(j) PROVE StoreInv'
  BY <1>35 DEF RecoverOrphan, GraduateJob, Update
<1>36. ASSUME NEW w \in Workers, ProgressRead(w) PROVE StoreInv'
  BY <1>36 DEF ProgressRead
<1>37. ASSUME NEW w \in Workers, ProgressWrite(w) PROVE StoreInv'
  BY <1>37 DEF ProgressWrite, Update
<1>38. CASE UNCHANGED vars
  BY <1>38 DEF vars
<1>. QED
  BY <1>1, <1>2, <1>3, <1>4, <1>5, <1>6, <1>7, <1>8, <1>9, <1>10, <1>11, <1>12,
     <1>13, <1>14, <1>15, <1>16, <1>17, <1>18, <1>19, <1>20, <1>20a, <1>21, <1>22, <1>23,
     <1>24, <1>25, <1>26, <1>27, <1>28, <1>29, <1>30, <1>31, <1>32, <1>33, <1>34,
     <1>35, <1>36, <1>37, <1>38 DEF Next, WorkerStep, ClientStep, Request, DeleterStep,
     ReaperStep, RecoveryStep

\* A job is a row or a run and never both, and a deleted job is neither, for
\* every number of actors, failing calls and crashes (GraduateJob, Update,
\* DeleteBatch).
THEOREM TablesAreDisjoint == Spec => []RowXorRun
<1>1. Init => LifecycleTypeOK /\ StoreInv
  BY TypeInit, StoreInit
<1>2. LifecycleTypeOK /\ StoreInv /\ [Next]_vars => (LifecycleTypeOK /\ StoreInv)'
  BY TypeStep, StoreStep
<1>3. StoreInv => RowXorRun
  BY DEF StoreInv
<1>. QED
  BY <1>1, <1>2, <1>3, PTL DEF Spec

-----------------------------------------------------------------------------
(* At most one start.  An id on its way to its first start is in one place *)
(* only: with the handler that submits it, in the queue, or with a worker  *)
(* that has not started it; and neither the store nor a progress callback  *)
(* has a queued row of a job that was started.                             *)

Pending(w) == wpc[w] \in {"load", "start", "requeue"}
Submitting(c) == cpc[c] = "enqueue"

QueuedUnstarted == \A j \in Jobs : jobs[j] = "queued" \/ j \in queue => started[j] = 0

PendingUnstarted ==
    \A w \in Workers : Pending(w) => started[wjob[w]] = 0 /\ wjob[w] \notin queue

PendingUnique ==
    \A v, w \in Workers : Pending(v) /\ Pending(w) /\ wjob[v] = wjob[w] => v = w

SubmittingUnstarted ==
    \A c \in Clients : Submitting(c) =>
        /\ started[cjob[c]] = 0 /\ cjob[c] \notin queue
        /\ \A w \in Workers : Pending(w) => wjob[w] # cjob[c]
        /\ \A b \in Clients : Submitting(b) /\ cjob[b] = cjob[c] => b = c

EngineStarted == \A w \in Workers : wpc[w] = "engine" => started[wjob[w]] # 0

ReadStarted ==
    \A w \in Workers : row[w] # "none" => wpc[w] = "engine" /\ row[w] # "queued"

DownIsEmpty ==
    ~up => /\ queue = {}
           /\ \A w \in Workers : wpc[w] = "idle"
           /\ \A c \in Clients : cpc[c] = "idle"

OnceInv ==
    /\ RunsAtMostOnce /\ QueuedUnstarted /\ PendingUnstarted /\ PendingUnique
    /\ SubmittingUnstarted /\ EngineStarted /\ ReadStarted /\ DownIsEmpty

LEMMA OnceInit == Init => OnceInv
  BY DEF Init, OnceInv, RunsAtMostOnce, QueuedUnstarted, PendingUnstarted, PendingUnique,
         SubmittingUnstarted, EngineStarted, ReadStarted, DownIsEmpty, Pending, Submitting

LEMMA OnceStep == LifecycleTypeOK /\ StoreInv /\ OnceInv /\ [Next]_vars => OnceInv'
<1>. SUFFICES ASSUME LifecycleTypeOK, StoreInv, OnceInv, [Next]_vars PROVE OnceInv'
  OBVIOUS
<1>. USE DEF LifecycleTypeOK, FreshIsUnknown, StoreInv, OnceInv, RunsAtMostOnce,
       QueuedUnstarted, PendingUnstarted, PendingUnique, SubmittingUnstarted,
       EngineStarted, ReadStarted, DownIsEmpty, Pending, Submitting, store, worker, client, deleter, reaper,
       gauges, boot, history
<1>1. ASSUME NEW w \in Workers, Dequeue(w) PROVE OnceInv'
  BY <1>1 DEF Dequeue
<1>2. ASSUME NEW w \in Workers, Skip(w) PROVE OnceInv'
  BY <1>2 DEF Skip, Return
<1>3. ASSUME NEW w \in Workers, Load(w) PROVE OnceInv'
  BY <1>3 DEF Load, Goto
<1>4. ASSUME NEW w \in Workers, Start(w) PROVE OnceInv'
  BY <1>4 DEF Start, Goto, Update
<1>5. ASSUME NEW w \in Workers, StartFails(w) PROVE OnceInv'
  BY <1>5 DEF StartFails, Goto, Refused
<1>6. ASSUME NEW w \in Workers, Requeue(w) PROVE OnceInv'
  BY <1>6 DEF Requeue, Goto
<1>7. ASSUME NEW w \in Workers, EngineEnd(w) PROVE OnceInv'
  BY <1>7 DEF EngineEnd
<1>8. ASSUME NEW w \in Workers, Graduate(w) PROVE OnceInv'
  BY <1>8 DEF Graduate, Goto, GraduateJob
<1>9. ASSUME NEW w \in Workers, GraduateFails(w) PROVE OnceInv'
  BY <1>9 DEF GraduateFails, Goto, Refused
<1>10. ASSUME NEW w \in Workers, Park(w) PROVE OnceInv'
  BY <1>10 DEF Park, Goto, Return, Update, Refused
<1>11. ASSUME NEW w \in Workers, Unregister(w) PROVE OnceInv'
  BY <1>11 DEF Unregister, Goto, Return
<1>12. ASSUME NEW w \in Workers, Timeout(w) PROVE OnceInv'
  BY <1>12 DEF Timeout
<1>13. ASSUME NEW w \in Workers, Panic(w) PROVE OnceInv'
  BY <1>13 DEF Panic, Goto
<1>14. ASSUME NEW c \in Clients, Enqueue(c) PROVE OnceInv'
  BY <1>14 DEF Enqueue, At
<1>15. ASSUME NEW c \in Clients, ObserveJobSubmitted(c) PROVE OnceInv'
  BY <1>15 DEF ObserveJobSubmitted, At, Reply
<1>16. ASSUME NEW c \in Clients, CancelCtx(c) PROVE OnceInv'
  BY <1>16 DEF CancelCtx, At, Reply
<1>17. ASSUME NEW c \in Clients, CancelRemove(c) PROVE OnceInv'
  BY <1>17 DEF CancelRemove, At
<1>18. ASSUME NEW c \in Clients, CancelGraduate(c) PROVE OnceInv'
  BY <1>18 DEF CancelGraduate, At, Reply, GraduateJob, Refused
<1>19. ASSUME NEW c \in Clients, QueueRemoveLookup(c) PROVE OnceInv'
  BY <1>19 DEF QueueRemoveLookup, At, Reply
<1>20. ASSUME NEW c \in Clients, NEW j \in Jobs, Create(c, j) PROVE OnceInv'
  BY <1>20 DEF Create, At
<1>20a. ASSUME NEW c \in Clients, SubmitBatchEnd(c) PROVE OnceInv'
  BY <1>20a DEF SubmitBatchEnd, At, Reply
<1>21. ASSUME NEW c \in Clients, NEW j \in Jobs, CancelGet(c, j) PROVE OnceInv'
  BY <1>21 DEF CancelGet, At
<1>22. ASSUME NEW c \in Clients, NEW j \in Jobs, QueueRemove(c, j) PROVE OnceInv'
  BY <1>22 DEF QueueRemove, At
<1>23. ASSUME NEW j \in Jobs, DeleteQueued(j) PROVE OnceInv'
  BY <1>23 DEF DeleteQueued
<1>24. ASSUME NEW j \in Jobs, DeleteRunning(j) PROVE OnceInv'
  BY <1>24 DEF DeleteRunning
<1>25. ASSUME DeleteList PROVE OnceInv'
  BY <1>25 DEF DeleteList
<1>26. ASSUME DeleteGraduate PROVE OnceInv'
  BY <1>26 DEF DeleteGraduate, DeleterDone, GraduateJob, Refused
<1>27. ASSUME DeleteCount PROVE OnceInv'
  BY <1>27 DEF DeleteCount, DeleterAt, DeleterDone
<1>28. ASSUME DeleteCountRunning PROVE OnceInv'
  BY <1>28 DEF DeleteCountRunning, DeleterAt, DeleterDone
<1>29. ASSUME DeleteBatch PROVE OnceInv'
  BY <1>29 DEF DeleteBatch, DeleterDone
<1>30. ASSUME ReapGraduate PROVE OnceInv'
  BY <1>30 DEF ReapGraduate, GraduateJob, Refused
<1>31. ASSUME Crash PROVE OnceInv'
  BY <1>31 DEF Crash, DeleterDone
<1>32. ASSUME RecoverQueued PROVE OnceInv'
  BY <1>32 DEF RecoverQueued, Rows
<1>33. ASSUME NEW old, ReapList(old) PROVE OnceInv'
  BY <1>33 DEF ReapList
<1>34. ASSUME NEW j \in sweep, ReapCheck(j) PROVE OnceInv'
  BY <1>34 DEF ReapCheck
<1>35. ASSUME NEW j \in orphans, RecoverOrphan(j) PROVE OnceInv'
  BY <1>35 DEF RecoverOrphan, GraduateJob, Update
<1>36. ASSUME NEW w \in Workers, ProgressRead(w) PROVE OnceInv'
  BY <1>36 DEF ProgressRead
<1>37. ASSUME NEW w \in Workers, ProgressWrite(w) PROVE OnceInv'
  BY <1>37 DEF ProgressWrite, Update
<1>38. CASE UNCHANGED vars
  BY <1>38 DEF vars
<1>. QED
  BY <1>1, <1>2, <1>3, <1>4, <1>5, <1>6, <1>7, <1>8, <1>9, <1>10, <1>11, <1>12,
     <1>13, <1>14, <1>15, <1>16, <1>17, <1>18, <1>19, <1>20, <1>20a, <1>21, <1>22, <1>23,
     <1>24, <1>25, <1>26, <1>27, <1>28, <1>29, <1>30, <1>31, <1>32, <1>33, <1>34,
     <1>35, <1>36, <1>37, <1>38 DEF Next, WorkerStep, ClientStep, Request, DeleterStep,
     ReaperStep, RecoveryStep

\* The engine is started at most once for every job, whatever runJob and
\* RecoverJobs put back into the queue and however often the server crashes.
THEOREM EngineStartsOnce == Spec => []RunsAtMostOnce
<1>1. Init => LifecycleTypeOK /\ StoreInv /\ OnceInv
  BY TypeInit, StoreInit, OnceInit
<1>2. LifecycleTypeOK /\ StoreInv /\ OnceInv /\ [Next]_vars
        => (LifecycleTypeOK /\ StoreInv /\ OnceInv)'
  BY TypeStep, StoreStep, OnceStep
<1>3. OnceInv => RunsAtMostOnce
  BY DEF OnceInv
<1>. QED
  BY <1>1, <1>2, <1>3, PTL DEF Spec

-----------------------------------------------------------------------------
(* No queued row is forgotten.  QueuedIsReachable is inductive beside the  *)
(* invariants above: each step that takes an id from one of these places   *)
(* hands it to another or finds that the row is no longer queued.          *)

\* The places where an id that the store has as queued may be.
OnItsWay(j) ==
    \/ j \in queue
    \/ \E w \in Workers : wjob[w] = j /\ Pending(w)
    \/ \E c \in Clients : cjob[c] = j /\ cpc[c] \in {"enqueue", "lookup", "graduate"}
    \/ dpc = "graduate" /\ djob = j

LEMMA ReachableStep ==
    ASSUME "get" \notin FaultKinds, "cancel" \notin FaultKinds,
           LifecycleTypeOK, OnceInv, QueuedIsReachable, [Next]_vars
    PROVE  QueuedIsReachable'
<1>. SUFFICES ASSUME up', NEW j \in Jobs, jobs'[j] = "queued"
              PROVE  OnItsWay(j)'
  BY DEF QueuedIsReachable, Rows, OnItsWay, Pending
<1>0. up /\ jobs[j] = "queued" => OnItsWay(j)
  BY DEF QueuedIsReachable, Rows, OnItsWay, Pending
<1>. USE DEF LifecycleTypeOK, Pending, OnItsWay, store, worker, client, deleter, reaper,
       gauges, boot, history
<1>1. ASSUME NEW w \in Workers, Dequeue(w) PROVE OnItsWay(j)'
  BY <1>0, <1>1 DEF Dequeue
<1>2. ASSUME NEW w \in Workers, Skip(w) PROVE OnItsWay(j)'
  BY <1>0, <1>2 DEF Skip, Return, Get, Fault
<1>3. ASSUME NEW w \in Workers, Load(w) \/ StartFails(w) \/ Requeue(w) PROVE OnItsWay(j)'
  <2>1. CASE Load(w)
    BY <1>0, <2>1 DEF Load, Goto
  <2>2. CASE StartFails(w)
    BY <1>0, <2>2 DEF StartFails, Goto, Refused
  <2>3. CASE Requeue(w)
    BY <1>0, <2>3 DEF Requeue, Goto
  <2>. QED BY <1>3, <2>1, <2>2, <2>3
<1>4. ASSUME NEW w \in Workers, Start(w) \/ Graduate(w) PROVE OnItsWay(j)'
  <2>1. CASE Start(w)
    BY <1>0, <2>1 DEF Start, Goto, Update
  <2>2. CASE Graduate(w)
    BY <1>0, <2>2 DEF Graduate, Goto, GraduateJob
  <2>. QED BY <1>4, <2>1, <2>2
<1>5. ASSUME NEW w \in Workers, EngineEnd(w) \/ GraduateFails(w) \/ Unregister(w)
      PROVE  OnItsWay(j)'
  BY ZenonT(60), <1>0, <1>5 DEF EngineEnd, GraduateFails, Unregister, Goto, Return, Refused
<1>6. ASSUME NEW w \in Workers, Park(w) PROVE OnItsWay(j)'
  BY <1>0, <1>6 DEF Park, Goto, Return, Update, Refused
<1>7. ASSUME NEW w \in Workers, Timeout(w) \/ Panic(w) \/ ProgressRead(w)
      PROVE  OnItsWay(j)'
  BY <1>0, <1>7 DEF Timeout, Panic, ProgressRead, Goto
<1>8. ASSUME NEW w \in Workers, ProgressWrite(w) PROVE OnItsWay(j)'
  BY <1>0, <1>8 DEF ProgressWrite, Update, OnceInv, ReadStarted
<1>9. ASSUME NEW c \in Clients, Enqueue(c) \/ CancelRemove(c) \/ QueueRemoveLookup(c)
      PROVE  OnItsWay(j)'
  <2>1. CASE Enqueue(c)
    BY <1>0, <2>1 DEF Enqueue, At
  <2>2. CASE CancelRemove(c)
    BY <1>0, <2>2 DEF CancelRemove, At
  <2>3. CASE QueueRemoveLookup(c)
    BY <1>0, <2>3 DEF QueueRemoveLookup, At, Reply, Get
  <2>. QED BY <1>9, <2>1, <2>2, <2>3
<1>10. ASSUME NEW c \in Clients, ObserveJobSubmitted(c) \/ SubmitBatchEnd(c) \/ CancelCtx(c)
       PROVE  OnItsWay(j)'
  BY <1>0, <1>10 DEF ObserveJobSubmitted, SubmitBatchEnd, CancelCtx, At, Reply
<1>11. ASSUME NEW c \in Clients, CancelGraduate(c) PROVE OnItsWay(j)'
  BY <1>0, <1>11 DEF CancelGraduate, At, Reply, GraduateJob, Refused, Fault
<1>12. ASSUME NEW c \in Clients, NEW i \in Jobs,
              Create(c, i) \/ CancelGet(c, i) \/ QueueRemove(c, i)
       PROVE  OnItsWay(j)'
  <2>1. CASE Create(c, i)
    BY <1>0, <2>1 DEF Create, At
  <2>2. CASE CancelGet(c, i)
    BY <1>0, <2>2 DEF CancelGet, At
  <2>3. CASE QueueRemove(c, i)
    BY <1>0, <2>3 DEF QueueRemove, At
  <2>. QED BY <1>12, <2>1, <2>2, <2>3
<1>13. ASSUME NEW i \in Jobs, DeleteQueued(i) \/ DeleteRunning(i) PROVE OnItsWay(j)'
  BY <1>0, <1>13 DEF DeleteQueued, DeleteRunning
<1>14. CASE DeleteGraduate
  BY <1>0, <1>14 DEF DeleteGraduate, DeleterDone, GraduateJob, Refused, Fault
<1>15. CASE DeleteList \/ DeleteCount \/ DeleteCountRunning \/ DeleteBatch
  <2>1. CASE DeleteList
    BY <1>0, <2>1 DEF DeleteList
  <2>2. CASE DeleteCount \/ DeleteCountRunning
    BY <1>0, <2>2 DEF DeleteCount, DeleteCountRunning, DeleterAt, DeleterDone
  <2>3. CASE DeleteBatch
    BY <1>0, <2>3 DEF DeleteBatch, DeleterDone
  <2>. QED BY <1>15, <2>1, <2>2, <2>3
<1>16. CASE ReapGraduate \/ (\E i \in sweep : ReapCheck(i)) \/ (\E old \in SUBSET Jobs : ReapList(old))
  BY <1>0, <1>16 DEF ReapGraduate, GraduateJob, Refused, ReapCheck, ReapList
<1>17. CASE Crash \/ (\E i \in orphans : RecoverOrphan(i))
  BY <1>17 DEF Crash, RecoverOrphan
<1>18. CASE RecoverQueued
  BY <1>18 DEF RecoverQueued, Rows
<1>19. CASE UNCHANGED vars
  BY <1>0, <1>19 DEF vars
<1>. QED
  BY <1>1, <1>2, <1>3, <1>4, <1>5, <1>6, <1>7, <1>8, <1>9, <1>10, <1>11, <1>12,
     <1>13, <1>14, <1>15, <1>16, <1>17, <1>18, <1>19
  DEF Next, WorkerStep, ClientStep, Request, DeleterStep, ReaperStep, RecoveryStep

\* While the server is up, no row stays queued without anyone on the way to
\* start or to cancel it, for any number of actors and crashes, and although
\* starts, graduations and parking may fail; a failing Get in runJob or a
\* failing graduation in a cancel handler does lose one.
THEOREM NoForgottenRow ==
    ASSUME "get" \notin FaultKinds, "cancel" \notin FaultKinds
    PROVE  Spec => []QueuedIsReachable
<1>1. Init => LifecycleTypeOK /\ StoreInv /\ OnceInv /\ QueuedIsReachable
  <2>1. Init => QueuedIsReachable
    BY DEF Init, QueuedIsReachable, Rows
  <2>. QED BY <2>1, TypeInit, StoreInit, OnceInit
<1>2. LifecycleTypeOK /\ StoreInv /\ OnceInv /\ QueuedIsReachable /\ [Next]_vars
        => (LifecycleTypeOK /\ StoreInv /\ OnceInv /\ QueuedIsReachable)'
  BY TypeStep, StoreStep, OnceStep, ReachableStep
<1>. QED
  BY <1>1, <1>2, PTL DEF Spec

-----------------------------------------------------------------------------
(* Who may change a row.  A job that was started belongs to one worker     *)
(* until that worker has graduated or parked it: meanwhile the row says    *)
(* running, or somebody else has taken it away for good.                   *)

Owns(w) == wpc[w] \in {"engine", "graduate", "park", "panicked", "panicPark"}

OwnerExact ==
    \A w \in Workers : Owns(w) =>
        /\ started[wjob[w]] # 0
        /\ jobs[wjob[w]] \in {"none", "running"}
        /\ \A v \in Workers : Owns(v) /\ wjob[v] = wjob[w] => v = w

ReadRunning == \A w \in Workers : row[w] \in {"none", "running"}

\* What the reaper and the recovery go after has been started.
StartedRows ==
    \A j \in Jobs :
        jobs[j] \in {"running", "failed"} \/ j \in sweep \/ j \in orphans \/ j = reaping
          => started[j] # 0

Recorded ==
    \A j \in Jobs : j \in fresh \/ j \in deleted \/ jobs[j] # "none" \/ runs[j] # "none"

\* What handleDeleteBatch has made sure of when it deletes.
DeletesInactive ==
    \A j \in BatchJobs :
        /\ dpc \in {"countRunning", "purge"} /\ jobs[j] = "queued" => j \in missed
        /\ dpc = "purge" /\ jobs[j] = "running" => j \in missed

OwnerInv == OwnerExact /\ ReadRunning /\ StartedRows /\ Recorded /\ DeletesInactive

LEMMA OwnerInit == Init => OwnerInv
  BY LifecycleAssumption
  DEF Init, OwnerInv, OwnerExact, ReadRunning, StartedRows, Recorded, DeletesInactive, Owns

LEMMA OwnerStep ==
    LifecycleTypeOK /\ StoreInv /\ OnceInv /\ OwnerInv /\ [Next]_vars => OwnerInv'
<1>. SUFFICES ASSUME LifecycleTypeOK, StoreInv, OnceInv, OwnerInv, [Next]_vars
              PROVE  OwnerInv'
  OBVIOUS
<1>. USE LifecycleAssumption DEF LifecycleTypeOK, StoreInv, FreshIsUnknown,
       OnceInv, QueuedUnstarted, PendingUnstarted, EngineStarted, ReadStarted, DownIsEmpty,
       Pending, OwnerInv, OwnerExact, ReadRunning, StartedRows, Recorded, DeletesInactive,
       Owns, store, worker, client, deleter, reaper, gauges, boot, history
<1>1. ASSUME NEW w \in Workers, Dequeue(w) PROVE OwnerInv'
  BY <1>1 DEF Dequeue
<1>2. ASSUME NEW w \in Workers, Skip(w) PROVE OwnerInv'
  BY <1>2 DEF Skip, Return
<1>3. ASSUME NEW w \in Workers, Load(w) PROVE OwnerInv'
  BY <1>3 DEF Load, Goto
<1>4. ASSUME NEW w \in Workers, Start(w) PROVE OwnerInv'
  BY <1>4 DEF Start, Goto, Update
<1>5. ASSUME NEW w \in Workers, StartFails(w) PROVE OwnerInv'
  BY <1>5 DEF StartFails, Goto, Refused
<1>6. ASSUME NEW w \in Workers, Requeue(w) PROVE OwnerInv'
  BY <1>6 DEF Requeue, Goto
<1>7. ASSUME NEW w \in Workers, EngineEnd(w) PROVE OwnerInv'
  BY <1>7 DEF EngineEnd
<1>8. ASSUME NEW w \in Workers, Graduate(w) PROVE OwnerInv'
  BY <1>8 DEF Graduate, Goto, GraduateJob, Terminal
<1>9. ASSUME NEW w \in Workers, GraduateFails(w) PROVE OwnerInv'
  BY <1>9 DEF GraduateFails, Goto, Refused
<1>10. ASSUME NEW w \in Workers, Park(w) PROVE OwnerInv'
  BY <1>10 DEF Park, Goto, Return, Update, Refused
<1>11. ASSUME NEW w \in Workers, Unregister(w) PROVE OwnerInv'
  BY <1>11 DEF Unregister, Goto, Return
<1>12. ASSUME NEW w \in Workers, Timeout(w) PROVE OwnerInv'
  BY <1>12 DEF Timeout
<1>13. ASSUME NEW w \in Workers, Panic(w) PROVE OwnerInv'
  BY <1>13 DEF Panic, Goto
<1>14. ASSUME NEW c \in Clients, Enqueue(c) PROVE OwnerInv'
  BY <1>14 DEF Enqueue, At
<1>15. ASSUME NEW c \in Clients, ObserveJobSubmitted(c) PROVE OwnerInv'
  BY <1>15 DEF ObserveJobSubmitted, At, Reply
<1>16. ASSUME NEW c \in Clients, CancelCtx(c) PROVE OwnerInv'
  BY <1>16 DEF CancelCtx, At, Reply
<1>17. ASSUME NEW c \in Clients, CancelRemove(c) PROVE OwnerInv'
  BY <1>17 DEF CancelRemove, At
<1>18. ASSUME NEW c \in Clients, CancelGraduate(c) PROVE OwnerInv'
  BY <1>18 DEF CancelGraduate, At, Reply, GraduateJob, Refused
<1>19. ASSUME NEW c \in Clients, QueueRemoveLookup(c) PROVE OwnerInv'
  BY <1>19 DEF QueueRemoveLookup, At, Reply
<1>20. ASSUME NEW c \in Clients, NEW j \in Jobs, Create(c, j) PROVE OwnerInv'
  BY <1>20 DEF Create, At
<1>20a. ASSUME NEW c \in Clients, SubmitBatchEnd(c) PROVE OwnerInv'
  BY <1>20a DEF SubmitBatchEnd, At, Reply
<1>21. ASSUME NEW c \in Clients, NEW j \in Jobs, CancelGet(c, j) PROVE OwnerInv'
  BY <1>21 DEF CancelGet, At
<1>22. ASSUME NEW c \in Clients, NEW j \in Jobs, QueueRemove(c, j) PROVE OwnerInv'
  BY <1>22 DEF QueueRemove, At
<1>23. ASSUME NEW j \in Jobs, DeleteQueued(j) PROVE OwnerInv'
  BY <1>23 DEF DeleteQueued
<1>24. ASSUME NEW j \in Jobs, DeleteRunning(j) PROVE OwnerInv'
  BY <1>24 DEF DeleteRunning
<1>25. ASSUME DeleteList PROVE OwnerInv'
  BY <1>25 DEF DeleteList
<1>26. ASSUME DeleteGraduate PROVE OwnerInv'
  BY <1>26 DEF DeleteGraduate, DeleterDone, GraduateJob, Refused
<1>27. ASSUME DeleteCount PROVE OwnerInv'
  BY <1>27 DEF DeleteCount, DeleterAt, DeleterDone, Rows
<1>28. ASSUME DeleteCountRunning PROVE OwnerInv'
  BY <1>28 DEF DeleteCountRunning, DeleterAt, DeleterDone, Rows
<1>29. ASSUME DeleteBatch PROVE OwnerInv'
  BY <1>29 DEF DeleteBatch, DeleterDone
<1>30. ASSUME ReapGraduate PROVE OwnerInv'
  BY <1>30 DEF ReapGraduate, GraduateJob, Refused
<1>31. ASSUME Crash PROVE OwnerInv'
  BY <1>31 DEF Crash, DeleterDone
<1>32. ASSUME RecoverQueued PROVE OwnerInv'
  BY <1>32 DEF RecoverQueued, Rows
<1>33. ASSUME NEW old, ReapList(old) PROVE OwnerInv'
  BY <1>33 DEF ReapList, Rows
<1>34. ASSUME NEW j \in sweep, ReapCheck(j) PROVE OwnerInv'
  BY <1>34 DEF ReapCheck
<1>35. ASSUME NEW j \in orphans, RecoverOrphan(j) PROVE OwnerInv'
  BY <1>35 DEF RecoverOrphan, GraduateJob, Update
<1>36. ASSUME NEW w \in Workers, ProgressRead(w) PROVE OwnerInv'
  BY <1>36 DEF ProgressRead
<1>37. ASSUME NEW w \in Workers, ProgressWrite(w) PROVE OwnerInv'
  BY <1>37 DEF ProgressWrite, Update
<1>38. CASE UNCHANGED vars
  BY <1>38 DEF vars
<1>. QED
  BY <1>1, <1>2, <1>3, <1>4, <1>5, <1>6, <1>7, <1>8, <1>9, <1>10, <1>11,
     <1>12, <1>13, <1>14, <1>15, <1>16, <1>17, <1>18, <1>19, <1>20, <1>20a, <1>21,
     <1>22, <1>23, <1>24, <1>25, <1>26, <1>27, <1>28, <1>29, <1>30, <1>31,
     <1>32, <1>33, <1>34, <1>35, <1>36, <1>37, <1>38
  DEF Next, WorkerStep, ClientStep, Request, DeleterStep, ReaperStep, RecoveryStep

\* The contract's view of a job, one case per table.
LEMMA StatusCases ==
    ASSUME StoreInv, NEW j \in Jobs
    PROVE  /\ j \in deleted => JobStatus(j) = "deleted" /\ jobs[j] = "none"
           /\ j \notin deleted /\ jobs[j] = "none" => JobStatus(j) = runs[j]
           /\ jobs[j] = "failed" => JobStatus(j) = "parked"
           /\ jobs[j] \notin {"none", "failed"} => JobStatus(j) = jobs[j]
  BY DEF StoreInv, RowXorRun, JobStatus, Get

\* One job changes its status, the others do not.
LEMMA StatusMoves ==
    ASSUME NEW j \in Jobs, NEW from, NEW to,
           JobStatus(j) \in from, JobStatus(j)' = to,
           \A i \in Jobs \ {j} : JobStatus(i)' = JobStatus(i)
    PROVE  Contract!Move(j, from, to)
<1>. DEFINE f == [i \in Jobs |-> JobStatus(i)]
            g == [i \in Jobs |-> JobStatus(i)']
<1>1. \A i \in Jobs : g[i] = [f EXCEPT ![j] = to][i]
  OBVIOUS
<1>2. g = [f EXCEPT ![j] = to]
  BY <1>1
<1>3. f[j] \in from
  OBVIOUS
<1>. QED
  BY <1>2, <1>3 DEF Contract!Move

\* Other jobs keep their status when their entries in the tables are kept.
LEMMA StatusKept ==
    ASSUME NEW j, deleted' = deleted, jobs'[j] = jobs[j], runs'[j] = runs[j]
    PROVE  JobStatus(j)' = JobStatus(j)
  BY DEF JobStatus, Get

\* Graduating, updating and creating one job.
LEMMA GraduateMoves ==
    ASSUME LifecycleTypeOK, StoreInv, NEW j \in Jobs, NEW status \in Terminal,
           GraduateJob(j, status), deleted' = deleted
    PROVE  /\ JobStatus(j) \in {"queued", "running", "parked"}
           /\ jobs[j] # "queued" => JobStatus(j) # "queued"
           /\ jobs[j] = "running" => JobStatus(j) = "running"
           /\ Contract!Move(j, {JobStatus(j)}, status)
<1>1. /\ jobs[j] \in {"queued", "running", "failed"} /\ j \notin deleted
      /\ jobs'[j] = "none" /\ runs'[j] = status
      /\ \A i \in Jobs \ {j} : jobs'[i] = jobs[i] /\ runs'[i] = runs[i]
  BY DEF GraduateJob, LifecycleTypeOK, StoreInv, RowXorRun
<1>2. JobStatus(j)' = status
  BY <1>1 DEF JobStatus, Get
<1>3. \A i \in Jobs \ {j} : JobStatus(i)' = JobStatus(i)
  BY <1>1, StatusKept
<1>4. Contract!Move(j, {JobStatus(j)}, status)
  BY <1>2, <1>3, StatusMoves
<1>. QED
  BY <1>1, <1>4, StatusCases

LEMMA UpdateMoves ==
    ASSUME LifecycleTypeOK, StoreInv, NEW j \in Jobs, NEW status \in {"running", "failed"},
           Update(j, status), deleted' = deleted
    PROVE  /\ jobs[j] = "queued" => JobStatus(j) = "queued"
           /\ jobs[j] = "running" => JobStatus(j) = "running"
           /\ Contract!Move(j, {JobStatus(j)},
                IF status = "failed" THEN "parked" ELSE "running")
<1>1. /\ j \notin deleted /\ jobs'[j] = status /\ jobs[j] # "none"
      /\ \A i \in Jobs \ {j} : jobs'[i] = jobs[i] /\ runs'[i] = runs[i]
  BY DEF Update, LifecycleTypeOK, StoreInv, RowXorRun
<1>2. JobStatus(j)' = IF status = "failed" THEN "parked" ELSE "running"
  BY <1>1 DEF JobStatus, Get
<1>3. \A i \in Jobs \ {j} : JobStatus(i)' = JobStatus(i)
  BY <1>1, StatusKept
<1>4. Contract!Move(j, {JobStatus(j)},
                IF status = "failed" THEN "parked" ELSE "running")
  BY <1>2, <1>3, StatusMoves
<1>. QED
  BY <1>1, <1>4, StatusCases

Statuses == [j \in Jobs |-> JobStatus(j)]

\* The variables of the contract, as the lifecycle implements them.
Visible == <<Statuses, missed>>

LEMMA MoveFrom ==
    ASSUME NEW j, NEW x, NEW S, NEW to, Contract!Move(j, {x}, to), x \in S
    PROVE  Contract!Move(j, S, to)
  BY DEF Contract!Move

LEMMA ContractStep ==
    ASSUME LifecycleTypeOK, StoreInv, OnceInv, OwnerInv, [Next]_vars
    PROVE  [Contract!Next]_Visible
<1>. USE DEF store, worker, client, deleter, reaper, gauges, boot, history
<1>a. ASSUME UNCHANGED <<jobs, runs, deleted, missed>> PROVE UNCHANGED Visible
  BY <1>a DEF Visible, Statuses, JobStatus, Get
<1>b. ASSUME NEW j \in Jobs, GraduateJob(j, "canceled"), UNCHANGED <<deleted, missed>>
      PROVE  Contract!Next
  <2>1. /\ JobStatus(j) \in {"queued", "running", "parked"}
        /\ Contract!Move(j, {JobStatus(j)}, "canceled")
    BY <1>b, GraduateMoves DEF Terminal
  <2>2. JobStatus(j) \in Contract!ActiveStatus \/ JobStatus(j) \in {"parked"}
    BY <2>1 DEF Contract!ActiveStatus
  <2>3. Contract!Cancel(j) \/ Contract!Settle(j)
    BY <1>b, <2>1, <2>2, MoveFrom DEF Contract!Cancel, Contract!Settle
  <2>. QED BY <2>3 DEF Contract!Next
<1>c. ASSUME NEW j \in Jobs, started[j] # 0, GraduateJob(j, "failed"), UNCHANGED <<deleted, missed>>
      PROVE  Contract!Next
  <2>1. /\ JobStatus(j) \in {"queued", "running", "parked"}
        /\ jobs[j] # "queued" => JobStatus(j) # "queued"
        /\ Contract!Move(j, {JobStatus(j)}, "failed")
    BY <1>c, GraduateMoves DEF Terminal
  <2>2. JobStatus(j) \in {"running"} \/ JobStatus(j) \in {"parked"}
    BY <1>c, <2>1 DEF OnceInv, QueuedUnstarted
  <2>3. Contract!Finish(j) \/ Contract!Settle(j)
    BY <1>c, <2>1, <2>2, MoveFrom DEF Contract!Finish, Contract!Settle, Contract!Final
  <2>. QED BY <2>3 DEF Contract!Next
<1>1. ASSUME NEW w \in Workers, Start(w) PROVE Contract!Next
  <2>1. /\ wjob[w] \in Jobs /\ Update(wjob[w], "running") /\ UNCHANGED <<deleted, missed>>
        /\ started[wjob[w]] = 0
    BY <1>1 DEF Start, LifecycleTypeOK, OnceInv, PendingUnstarted, Pending
  <2>2. jobs[wjob[w]] = "queued"
    BY <2>1 DEF Update, LifecycleTypeOK, OwnerInv, StartedRows
  <2>3. Contract!Move(wjob[w], {"queued"}, "running")
    BY <2>1, <2>2, UpdateMoves
  <2>4. Contract!Start(wjob[w])
    BY <2>1, <2>3 DEF Contract!Start
  <2>. QED BY <2>1, <2>4 DEF Contract!Next
<1>2. ASSUME NEW w \in Workers, Graduate(w) PROVE Contract!Next
  <2>1. /\ wjob[w] \in Jobs /\ GraduateJob(wjob[w], verdict[w]) /\ UNCHANGED <<deleted, missed>>
        /\ verdict[w] \in Terminal /\ jobs[wjob[w]] = "running"
    BY <1>2 DEF Graduate, GraduateJob, LifecycleTypeOK, OwnerInv, OwnerExact, Owns
  <2>2. Contract!Move(wjob[w], {"running"}, verdict[w])
    BY <2>1, GraduateMoves
  <2>3. Contract!Finish(wjob[w])
    BY <2>1, <2>2 DEF Contract!Finish, Contract!Final, Terminal
  <2>. QED BY <2>1, <2>3 DEF Contract!Next
<1>3. ASSUME NEW w \in Workers, Park(w) PROVE [Contract!Next]_Visible
  <2>1. CASE Update(wjob[w], "failed")
    <3>1. wjob[w] \in Jobs /\ UNCHANGED <<deleted, missed>> /\ jobs[wjob[w]] = "running"
      BY <1>3, <2>1 DEF Park, Update, LifecycleTypeOK, OwnerInv, OwnerExact, Owns
    <3>2. Contract!Move(wjob[w], {"running"}, "parked")
      BY <2>1, <3>1, UpdateMoves
    <3>3. Contract!Park(wjob[w])
      BY <3>1, <3>2 DEF Contract!Park
    <3>. QED BY <3>1, <3>3 DEF Contract!Next
  <2>2. CASE UNCHANGED store
    BY <1>3, <1>a, <2>2 DEF Park
  <2>. QED BY <1>3, <2>1, <2>2 DEF Park, Refused
<1>4. ASSUME NEW w \in Workers, ProgressWrite(w) PROVE UNCHANGED Visible
  <2>1. CASE jobs[wjob[w]] = "none"
    BY <1>4, <1>a, <2>1 DEF ProgressWrite, Update
  <2>2. CASE jobs[wjob[w]] # "none"
    <3>1. row[w] = "running" /\ jobs[wjob[w]] = "running"
      BY <1>4, <2>2 DEF ProgressWrite, OnceInv, ReadStarted, OwnerInv, ReadRunning,
           OwnerExact, Owns
    <3>2. jobs' = jobs
      BY <1>4, <3>1 DEF ProgressWrite, Update, LifecycleTypeOK
    <3>. QED BY <1>4, <1>a, <3>2 DEF ProgressWrite, Update
  <2>. QED BY <2>1, <2>2
<1>5. ASSUME NEW w \in Workers,
             \/ Dequeue(w) \/ Skip(w) \/ Load(w) \/ StartFails(w) \/ Requeue(w)
             \/ EngineEnd(w) \/ GraduateFails(w) \/ Unregister(w) \/ Timeout(w)
             \/ Panic(w) \/ ProgressRead(w)
      PROVE  UNCHANGED Visible
  <2>1. UNCHANGED <<jobs, runs, deleted, missed>>
    BY <1>5 DEF Dequeue, Skip, Load, StartFails, Requeue, EngineEnd, GraduateFails,
         Unregister, Timeout, Panic, ProgressRead, Refused
  <2>. QED BY <1>a, <2>1
<1>6. ASSUME NEW c \in Clients, NEW j \in Jobs, Create(c, j) PROVE Contract!Next
  <2>1. /\ j \in fresh /\ jobs' = [jobs EXCEPT ![j] = "queued"] /\ runs' = runs
        /\ deleted' = deleted /\ missed' \in {missed, missed \cup {j}}
    BY <1>6 DEF Create
  <2>2. JobStatus(j) = "none" /\ JobStatus(j)' = "queued"
    BY <2>1 DEF StoreInv, FreshIsUnknown, JobStatus, Get, LifecycleTypeOK
  <2>3. \A i \in Jobs \ {j} : jobs'[i] = jobs[i]
    BY <2>1 DEF LifecycleTypeOK
  <2>4. \A i \in Jobs \ {j} : JobStatus(i)' = JobStatus(i)
    BY <2>1, <2>3, StatusKept
  <2>5. Contract!Submit(j)
    BY <2>1, <2>2, <2>4, StatusMoves DEF Contract!Submit
  <2>. QED BY <2>5 DEF Contract!Next
<1>7. ASSUME NEW c \in Clients, CancelGraduate(c) PROVE [Contract!Next]_Visible
  <2>1. cjob[c] \in Jobs /\ UNCHANGED <<deleted, missed>>
    BY <1>7 DEF CancelGraduate, LifecycleTypeOK
  <2>. QED BY <1>7, <1>a, <1>b, <2>1 DEF CancelGraduate, Refused
<1>8. ASSUME NEW c \in Clients,
             \/ Enqueue(c) \/ ObserveJobSubmitted(c) \/ SubmitBatchEnd(c) \/ CancelCtx(c)
             \/ CancelRemove(c) \/ QueueRemoveLookup(c) \/ \E j \in Jobs : CancelGet(c, j) \/ QueueRemove(c, j)
      PROVE  UNCHANGED Visible
  <2>1. UNCHANGED <<jobs, runs, deleted, missed>>
    BY <1>8 DEF Enqueue, ObserveJobSubmitted, SubmitBatchEnd, CancelCtx, CancelRemove, QueueRemoveLookup,
         CancelGet, QueueRemove
  <2>. QED BY <1>a, <2>1
<1>d. ASSUME UNCHANGED <<jobs, runs, deleted>>, missed' \in {missed, {}, BatchJobs}
      PROVE  [Contract!Next]_Visible
  <2>1. Statuses' = Statuses
    BY <1>d DEF Statuses, JobStatus, Get
  <2>2. CASE missed' = missed
    BY <2>1, <2>2 DEF Visible
  <2>3. CASE missed' \in {{}, BatchJobs}
    <3>1. Contract!Count(BatchJobs) /\ BatchJobs \in SUBSET Jobs
      BY <2>1, <2>3, LifecycleAssumption DEF Contract!Count, Statuses
    <3>. QED BY <3>1 DEF Contract!Next
  <2>. QED BY <1>d, <2>2, <2>3
<1>9. ASSUME DeleteGraduate PROVE [Contract!Next]_Visible
  <2>1. djob \in Jobs /\ deleted' = deleted
    BY <1>9 DEF DeleteGraduate, LifecycleTypeOK
  <2>2. CASE GraduateJob(djob, "canceled") /\ missed' = missed
    BY <1>b, <2>1, <2>2
  <2>3. CASE UNCHANGED store /\ missed' = {}
    BY <1>d, <2>1, <2>3
  <2>. QED BY <1>9, <2>2, <2>3 DEF DeleteGraduate, Refused, DeleterDone
<1>10. ASSUME DeleteBatch PROVE Contract!Next
  <2>. DEFINE batchJobs == BatchJobs \ fresh
  <2>1. \A j \in batchJobs : /\ JobStatus(j) # "none"
                             /\ JobStatus(j) \in Contract!ActiveStatus => j \in missed
    <3>. SUFFICES ASSUME NEW j \in batchJobs
                  PROVE  /\ JobStatus(j) # "none"
                         /\ JobStatus(j) \in Contract!ActiveStatus => j \in missed
      OBVIOUS
    <3>1. /\ j \in Jobs /\ j \notin fresh
          /\ jobs[j] \in {"queued", "running"} => j \in missed
      BY <1>10, LifecycleAssumption DEF DeleteBatch, OwnerInv, DeletesInactive
    <3>2. j \in deleted \/ jobs[j] # "none" \/ runs[j] \in Terminal
      BY <3>1 DEF OwnerInv, Recorded, LifecycleTypeOK
    <3>3. jobs[j] \in {"none", "queued", "running", "failed"}
      BY <3>1 DEF LifecycleTypeOK
    <3>. QED BY <3>1, <3>2, <3>3, StatusCases DEF Contract!ActiveStatus, Terminal, StoreInv,
         RowXorRun, LifecycleTypeOK
  <2>2. \A j \in Jobs : JobStatus(j)' = IF j \in batchJobs THEN "deleted" ELSE JobStatus(j)
    <3>1. \A j \in BatchJobs : j \in Jobs
      BY LifecycleAssumption
    <3>2. \A j \in Jobs : j \in fresh => jobs[j] = "none" /\ runs[j] = "none"
      BY DEF StoreInv, FreshIsUnknown
    <3>. QED BY <1>10, <3>1, <3>2 DEF DeleteBatch, JobStatus, Get
  <2>3. batchJobs \in SUBSET Jobs /\ missed' = {}
    BY <1>10, LifecycleAssumption DEF DeleteBatch, DeleterDone
  <2>4. Contract!Delete(batchJobs)
    BY <2>1, <2>2, <2>3 DEF Contract!Delete
  <2>. QED BY <2>3, <2>4 DEF Contract!Next
<1>11. ASSUME DeleteList \/ DeleteCount \/ DeleteCountRunning
              \/ \E j \in Jobs : DeleteQueued(j) \/ DeleteRunning(j)
       PROVE  [Contract!Next]_Visible
  <2>1. UNCHANGED <<jobs, runs, deleted>> /\ missed' \in {missed, {}, BatchJobs}
    BY <1>11 DEF DeleteList, DeleteCount, DeleteCountRunning, DeleteQueued, DeleteRunning,
         DeleterAt, DeleterDone
  <2>. QED BY <1>d, <2>1
<1>12. ASSUME ReapGraduate PROVE [Contract!Next]_Visible
  <2>1. reaping \in Jobs /\ started[reaping] # 0 /\ UNCHANGED <<deleted, missed>>
    BY <1>12 DEF ReapGraduate, LifecycleTypeOK, OwnerInv, StartedRows
  <2>. QED BY <1>12, <1>a, <1>c, <2>1 DEF ReapGraduate, Refused
<1>13. ASSUME NEW j \in orphans, RecoverOrphan(j) PROVE [Contract!Next]_Visible
  <2>1. j \in Jobs /\ started[j] # 0 /\ UNCHANGED <<deleted, missed>>
    BY <1>13 DEF RecoverOrphan, LifecycleTypeOK, OwnerInv, StartedRows
  <2>2. CASE Update(j, "failed")
    <3>1. jobs[j] \in {"running", "failed"}
      BY <2>1, <2>2 DEF Update, LifecycleTypeOK, OnceInv, QueuedUnstarted
    <3>2. CASE jobs[j] = "running"
      <4>1. Contract!Move(j, {"running"}, "parked")
        BY <2>1, <2>2, <3>2, UpdateMoves
      <4>2. Contract!Park(j)
        BY <2>1, <4>1 DEF Contract!Park
      <4>. QED BY <2>1, <4>2 DEF Contract!Next
    <3>3. CASE jobs[j] = "failed"
      <4>1. jobs' = jobs /\ runs' = runs
        BY <2>1, <2>2, <3>3 DEF Update, LifecycleTypeOK
      <4>. QED BY <1>a, <2>1, <4>1
    <3>. QED BY <3>1, <3>2, <3>3
  <2>. QED BY <1>13, <1>a, <1>c, <2>1, <2>2 DEF RecoverOrphan
<1>14. ASSUME \/ \E old \in SUBSET Jobs : ReapList(old)
              \/ \E j \in sweep : ReapCheck(j)
              \/ Crash \/ RecoverQueued \/ UNCHANGED vars
       PROVE  [Contract!Next]_Visible
  <2>1. UNCHANGED <<jobs, runs, deleted>> /\ missed' \in {missed, {}, BatchJobs}
    BY <1>14 DEF ReapList, ReapCheck, Crash, DeleterDone, RecoverQueued, vars
  <2>. QED BY <1>d, <2>1
<1>15. ASSUME NEW w \in Workers, WorkerStep(w) PROVE [Contract!Next]_Visible
  BY <1>15, <1>1, <1>2, <1>3, <1>4, <1>5 DEF WorkerStep
<1>16. ASSUME NEW c \in Clients, ClientStep(c) \/ Request(c)
       PROVE  [Contract!Next]_Visible
  BY <1>16, <1>6, <1>7, <1>8 DEF ClientStep, Request
<1>17. ASSUME DeleterStep PROVE [Contract!Next]_Visible
  BY <1>17, <1>9, <1>10, <1>11 DEF DeleterStep
<1>. QED
  BY <1>5, <1>11, <1>12, <1>13, <1>14, <1>15, <1>16, <1>17
  DEF Next, ReaperStep, RecoveryStep

\* Clients see a job only move forward, whatever workers, handlers, reaper and
\* recovery do to the two tables between them: it starts once, the status of a
\* run never changes, a row parked as failed becomes a failed or a canceled
\* run, and the deletion of a batch takes no active job that its counts saw.
THEOREM JobsMoveForward == Spec => ImplementsJobContract
<1>. DEFINE Inv == LifecycleTypeOK /\ StoreInv /\ OnceInv /\ OwnerInv
<1>1. Init => Inv /\ Contract!Init
  <2>1. Init => Contract!Init
    BY DEF Init, Contract!Init, JobStatus, Get
  <2>. QED BY <2>1, TypeInit, StoreInit, OnceInit, OwnerInit
<1>2. Inv /\ [Next]_vars => Inv'
  BY TypeStep, StoreStep, OnceStep, OwnerStep
<1>3. Inv /\ [Next]_vars => [Contract!Next]_(Contract!contract)
  BY ContractStep DEF Visible, Statuses, Contract!contract
<1>. QED
  BY <1>1, <1>2, <1>3, PTL DEF Spec, ImplementsJobContract, Contract!Spec

-----------------------------------------------------------------------------
(* The cancel registry.  unregisterCancel deletes the entry of a job       *)
(* whoever made it, so RegistryExact depends on who may still be on the    *)
(* way to it: a worker that put its job back did so because the row is     *)
(* gone, and nobody starts that job any more, or because the update to     *)
(* running failed, and then the job is one of putBack.                     *)

GoneBeforeStart ==
    \A w \in Workers :
        wpc[w] = "requeue" \/ (wpc[w] = "unregister" /\ started[wjob[w]] = 0)
          => jobs[wjob[w]] = "none" \/ wjob[w] \in putBack

\* Nobody else owns a job that a worker has started and is done with.
EndedUnowned ==
    \A v, w \in Workers :
        wpc[w] = "unregister" /\ started[wjob[w]] # 0 /\ Owns(v) /\ wjob[v] = wjob[w]
          => wjob[w] \in putBack

StartRegistered ==
    \A w \in Workers :
        wpc[w] = "start" /\ jobs[wjob[w]] # "none"
          => \/ cancels[wjob[w]] = w
             \/ cancels[wjob[w]] = None /\ wjob[w] \in putBack

\* What the reaper has found abandoned stays so until it has acted on it.
ReapingUnowned ==
    \A w \in Workers :
        reaping # None /\ Executes(w, reaping) => reaping \in putBack

RegistryInv ==
    GoneBeforeStart /\ EndedUnowned /\ StartRegistered /\ RegistryExact /\ ReapingUnowned

LEMMA RegistryInit == Init => RegistryInv
  BY DEF Init, RegistryInv, GoneBeforeStart, EndedUnowned, StartRegistered,
         RegistryExact, ReapingUnowned, Executes, Owns

LEMMA RegistryStep ==
    ASSUME LifecycleTypeOK, StoreInv, OnceInv, OwnerInv, RegistryInv, [Next]_vars
    PROVE  RegistryInv'
<1>. USE LifecycleAssumption DEF LifecycleTypeOK, StoreInv, FreshIsUnknown, OnceInv,
       PendingUnstarted, PendingUnique, ReadStarted, Pending, OwnerInv, OwnerExact,
       ReadRunning, StartedRows, Owns, RegistryInv, GoneBeforeStart, EndedUnowned,
       StartRegistered, RegistryExact, ReapingUnowned, Executes, store, worker, client,
       deleter, reaper, gauges, boot, history
<1>1. ASSUME NEW w \in Workers, Dequeue(w) PROVE RegistryInv'
  BY <1>1 DEF Dequeue
<1>2. ASSUME NEW w \in Workers, Skip(w) PROVE RegistryInv'
  BY <1>2 DEF Skip, Return
<1>3. ASSUME NEW w \in Workers, Load(w) PROVE RegistryInv'
  BY <1>3 DEF Load, Goto
<1>4. ASSUME NEW w \in Workers, Start(w) PROVE RegistryInv'
  BY <1>4 DEF Start, Goto, Update
<1>5. ASSUME NEW w \in Workers, StartFails(w) PROVE RegistryInv'
  BY <1>5 DEF StartFails, Goto, Refused, Fault
<1>6. ASSUME NEW w \in Workers, Requeue(w) PROVE RegistryInv'
  BY <1>6 DEF Requeue, Goto
<1>7. ASSUME NEW w \in Workers, EngineEnd(w) PROVE RegistryInv'
  BY <1>7 DEF EngineEnd
<1>8. ASSUME NEW w \in Workers, Graduate(w) PROVE RegistryInv'
  BY <1>8 DEF Graduate, Goto, GraduateJob
<1>9. ASSUME NEW w \in Workers, GraduateFails(w) PROVE RegistryInv'
  BY <1>9 DEF GraduateFails, Goto, Refused
<1>10. ASSUME NEW w \in Workers, Park(w) PROVE RegistryInv'
  BY <1>10 DEF Park, Goto, Return, Update, Refused
<1>11. ASSUME NEW w \in Workers, Unregister(w) PROVE RegistryInv'
  <2>1. \A v \in Workers \ {w} : wjob[v] = wjob[w] /\ Owns(v) => wjob[w] \in putBack
    BY <1>11 DEF Unregister
  <2>2. \A v \in Workers \ {w} :
          wjob[v] = wjob[w] /\ wpc[v] = "start"
            => jobs[wjob[w]] = "none" \/ wjob[w] \in putBack
    BY <1>11 DEF Unregister
  <2>3. /\ \A v \in Workers \ {w} : wpc'[v] = wpc[v] /\ wjob'[v] = wjob[v]
        /\ wpc'[w] \in {"idle", "panicPark"}
        /\ wpc'[w] = "panicPark" => wpc[w] = "panicked" /\ wjob'[w] = wjob[w]
        /\ UNCHANGED <<jobs, started, reaping, putBack>>
        /\ cancels' = [cancels EXCEPT ![wjob[w]] = None]
    BY <1>11 DEF Unregister, Goto, Return
  <2>. QED BY <2>1, <2>2, <2>3
<1>12. ASSUME NEW w \in Workers, Timeout(w) PROVE RegistryInv'
  BY <1>12 DEF Timeout
<1>13. ASSUME NEW w \in Workers, Panic(w) PROVE RegistryInv'
  BY <1>13 DEF Panic, Goto
<1>14. ASSUME NEW c \in Clients, Enqueue(c) PROVE RegistryInv'
  BY <1>14 DEF Enqueue, At
<1>15. ASSUME NEW c \in Clients, ObserveJobSubmitted(c) PROVE RegistryInv'
  BY <1>15 DEF ObserveJobSubmitted, At, Reply
<1>16. ASSUME NEW c \in Clients, CancelCtx(c) PROVE RegistryInv'
  BY <1>16 DEF CancelCtx, At, Reply
<1>17. ASSUME NEW c \in Clients, CancelRemove(c) PROVE RegistryInv'
  BY <1>17 DEF CancelRemove, At
<1>18. ASSUME NEW c \in Clients, CancelGraduate(c) PROVE RegistryInv'
  BY <1>18 DEF CancelGraduate, At, Reply, GraduateJob, Refused
<1>19. ASSUME NEW c \in Clients, QueueRemoveLookup(c) PROVE RegistryInv'
  BY <1>19 DEF QueueRemoveLookup, At, Reply
<1>20. ASSUME NEW c \in Clients, NEW j \in Jobs, Create(c, j) PROVE RegistryInv'
  BY <1>20 DEF Create, At
<1>20a. ASSUME NEW c \in Clients, SubmitBatchEnd(c) PROVE RegistryInv'
  BY <1>20a DEF SubmitBatchEnd, At, Reply
<1>21. ASSUME NEW c \in Clients, NEW j \in Jobs, CancelGet(c, j) PROVE RegistryInv'
  BY <1>21 DEF CancelGet, At
<1>22. ASSUME NEW c \in Clients, NEW j \in Jobs, QueueRemove(c, j) PROVE RegistryInv'
  BY <1>22 DEF QueueRemove, At
<1>23. ASSUME NEW j \in Jobs, DeleteQueued(j) PROVE RegistryInv'
  BY <1>23 DEF DeleteQueued
<1>24. ASSUME NEW j \in Jobs, DeleteRunning(j) PROVE RegistryInv'
  BY <1>24 DEF DeleteRunning
<1>25. ASSUME DeleteList PROVE RegistryInv'
  BY <1>25 DEF DeleteList
<1>26. ASSUME DeleteGraduate PROVE RegistryInv'
  BY <1>26 DEF DeleteGraduate, DeleterDone, GraduateJob, Refused
<1>27. ASSUME DeleteCount PROVE RegistryInv'
  BY <1>27 DEF DeleteCount, DeleterAt, DeleterDone
<1>28. ASSUME DeleteCountRunning PROVE RegistryInv'
  BY <1>28 DEF DeleteCountRunning, DeleterAt, DeleterDone
<1>29. ASSUME DeleteBatch PROVE RegistryInv'
  BY <1>29 DEF DeleteBatch, DeleterDone
<1>30. ASSUME ReapGraduate PROVE RegistryInv'
  BY <1>30 DEF ReapGraduate, GraduateJob, Refused
<1>31. ASSUME Crash PROVE RegistryInv'
  BY <1>31 DEF Crash, DeleterDone
<1>32. ASSUME RecoverQueued PROVE RegistryInv'
  BY <1>32 DEF RecoverQueued, Rows
<1>33. ASSUME NEW old, ReapList(old) PROVE RegistryInv'
  BY <1>33 DEF ReapList, Rows
<1>34. ASSUME NEW j \in sweep, ReapCheck(j) PROVE RegistryInv'
  BY <1>34 DEF ReapCheck
<1>35. ASSUME NEW j \in orphans, RecoverOrphan(j) PROVE RegistryInv'
  BY <1>35 DEF RecoverOrphan, GraduateJob, Update
<1>36. ASSUME NEW w \in Workers, ProgressRead(w) PROVE RegistryInv'
  BY <1>36 DEF ProgressRead
<1>37. ASSUME NEW w \in Workers, ProgressWrite(w) PROVE RegistryInv'
  BY <1>37 DEF ProgressWrite, Update
<1>38. CASE UNCHANGED vars
  BY <1>38 DEF vars
<1>. QED
  BY <1>1, <1>2, <1>3, <1>4, <1>5, <1>6, <1>7, <1>8, <1>9, <1>10, <1>11,
     <1>12, <1>13, <1>14, <1>15, <1>16, <1>17, <1>18, <1>19, <1>20, <1>20a, <1>21,
     <1>22, <1>23, <1>24, <1>25, <1>26, <1>27, <1>28, <1>29, <1>30, <1>31,
     <1>32, <1>33, <1>34, <1>35, <1>36, <1>37, <1>38
  DEF Next, WorkerStep, ClientStep, Request, DeleterStep, ReaperStep, RecoveryStep

\* The registry has the worker of every job this process executes, as the
\* reaper and the batch delete assume, for any number of workers and whatever
\* fails.  The only entry that can be missing is that of a job that runJob put
\* back because its update to running failed (worker.go:225), and no entry
\* names a worker other than the one on the job.
THEOREM RegistryIsExact == Spec => []RegistryExact
<1>. DEFINE Inv == LifecycleTypeOK /\ StoreInv /\ OnceInv /\ OwnerInv /\ RegistryInv
<1>1. Init => Inv
  BY TypeInit, StoreInit, OnceInit, OwnerInit, RegistryInit
<1>2. Inv /\ [Next]_vars => Inv'
  BY TypeStep, StoreStep, OnceStep, OwnerStep, RegistryStep
<1>3. Inv => RegistryExact
  BY DEF RegistryInv
<1>. QED
  BY <1>1, <1>2, <1>3, PTL DEF Spec

\* reapStuckJobs never fails a job that a worker of this process is still on,
\* although its list and its look at the registry are stale when it acts; a job
\* that runJob put back because its update to running failed is the exception.
THEOREM ReaperSparesTheLiving == Spec => ReapsOnlyAbandoned
<1>. DEFINE Inv == LifecycleTypeOK /\ StoreInv /\ OnceInv /\ OwnerInv /\ RegistryInv
            Spared == \A j \in Jobs :
                        reaping = j /\ runs[j] = "none" /\ runs'[j] = "failed" /\ j \notin putBack
                          => \A w \in Workers : ~Executes(w, j)
<1>1. Init => Inv
  BY TypeInit, StoreInit, OnceInit, OwnerInit, RegistryInit
<1>2. Inv /\ [Next]_vars => Inv'
  BY TypeStep, StoreStep, OnceStep, OwnerStep, RegistryStep
<1>3. Inv => Spared
  BY LifecycleAssumption DEF RegistryInv, ReapingUnowned
<1>. QED
  BY <1>1, <1>2, <1>3, PTL DEF Spec, ReapsOnlyAbandoned
=============================================================================
