--------------------------- MODULE QueueContract ---------------------------
(***************************************************************************)
(* What the job queue promises the rest of the server, without a word on   *)
(* how goroutines are put to sleep and woken: two tiers, handed out head   *)
(* first and normal before batch, to workers that are present and idle.    *)
(* As long as a job can be taken by such a worker, one of them takes one.  *)
(***************************************************************************)
EXTENDS Naturals, Sequences, Functions

CONSTANTS Workers, Jobs, BatchJobs, None

VARIABLES normal, batch, paused, closed,
          present,      \* workers that may still take a job
          held          \* the job each worker has, or None

vars == <<normal, batch, paused, closed, present, held>>

Init ==
    /\ normal = << >> /\ batch = << >>
    /\ paused = FALSE /\ closed = FALSE
    /\ present = {}
    /\ held = [w \in Workers |-> None]

\* An id joins the tail of its tier.
Accept(j) ==
    /\ ~closed
    /\ IF j \in BatchJobs
       THEN batch' = Append(batch, j) /\ normal' = normal
       ELSE normal' = Append(normal, j) /\ batch' = batch
    /\ UNCHANGED <<paused, closed, present, held>>

\* One id leaves its tier, the others keep their order.
Drop ==
    /\ ~closed
    /\ \/ \E i \in DOMAIN normal :
            normal' = SubSeq(normal, 1, i - 1) \o SubSeq(normal, i + 1, Len(normal))
            /\ batch' = batch
       \/ \E i \in DOMAIN batch :
            batch' = SubSeq(batch, 1, i - 1) \o SubSeq(batch, i + 1, Len(batch))
            /\ normal' = normal
    /\ UNCHANGED <<paused, closed, present, held>>

\* t is s in another order.
IsPermutation(s, t) ==
    \E f \in Bijection(DOMAIN s, DOMAIN s) : t = [i \in DOMAIN s |-> s[f[i]]]

\* Each tier may be permuted; no id moves between tiers.
Permute ==
    /\ ~closed
    /\ IsPermutation(normal, normal') /\ IsPermutation(batch, batch')
    /\ UNCHANGED <<paused, closed, present, held>>

SetPaused == ~closed /\ paused' \in BOOLEAN
             /\ UNCHANGED <<normal, batch, closed, present, held>>

Shut == ~closed /\ closed' = TRUE
        /\ UNCHANGED <<normal, batch, paused, present, held>>

\* Hand out the head of the queue.
HandOut(w) ==
    /\ w \in present /\ held[w] = None
    /\ ~closed /\ ~paused
    /\ \/ /\ normal # << >>
          /\ held' = [held EXCEPT ![w] = Head(normal)]
          /\ normal' = Tail(normal) /\ batch' = batch
       \/ /\ normal = << >> /\ batch # << >>
          /\ held' = [held EXCEPT ![w] = Head(batch)]
          /\ batch' = Tail(batch) /\ normal' = normal
    /\ UNCHANGED <<paused, closed, present>>

\* A worker is done with its job.
Done(w) ==
    /\ held[w] # None
    /\ held' = [held EXCEPT ![w] = None]
    /\ UNCHANGED <<normal, batch, paused, closed, present>>

\* A worker gives its job back to the tail of its tier.
Return(w) ==
    /\ held[w] # None /\ ~closed
    /\ LET j == held[w]
       IN  IF j \in BatchJobs
           THEN batch' = Append(batch, j) /\ normal' = normal
           ELSE normal' = Append(normal, j) /\ batch' = batch
    /\ held' = [held EXCEPT ![w] = None]
    /\ UNCHANGED <<paused, closed, present>>

\* Workers come and go, but never with a job in hand.
Arrive(w) == w \notin present /\ present' = present \cup {w}
             /\ UNCHANGED <<normal, batch, paused, closed, held>>

Depart(w) == w \in present /\ held[w] = None /\ present' = present \ {w}
             /\ UNCHANGED <<normal, batch, paused, closed, held>>

Next ==
    \/ \E j \in Jobs : Accept(j)
    \/ Drop \/ Permute \/ SetPaused \/ Shut
    \/ \E w \in Workers :
        HandOut(w) \/ Done(w) \/ Return(w) \/ Arrive(w) \/ Depart(w)

\* What never happens; and, with it, that a job is handed out when it can be.
Safety == Init /\ [][Next]_vars

Spec == Safety /\ WF_vars(\E w \in Workers : HandOut(w))
=============================================================================
