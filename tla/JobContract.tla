----------------------------- MODULE JobContract -----------------------------
(***************************************************************************)
(* What the server promises about a job, without workers, queue, registry  *)
(* or restarts: the statuses a client can see, one after the other, and    *)
(* which jobs the deletion of their batch may take by surprise.            *)
(***************************************************************************)
CONSTANT Jobs
VARIABLES
    status,
    missed      \* jobs that a deletion under way did not see when it counted

contract == <<status, missed>>

Final == {"succeeded", "failed", "canceled"}
ActiveStatus == {"queued", "running"}

\* "parked": reported as failed, from the jobs table and not yet from a run.
ContractTypeOK ==
    /\ status \in [Jobs -> {"none", "parked", "deleted"} \cup ActiveStatus \cup Final]
    /\ missed \subseteq Jobs

Init == status = [j \in Jobs |-> "none"] /\ missed = {}

Move(j, from, to) ==
    /\ status[j] \in from
    /\ status' = [status EXCEPT ![j] = to]

\* A job may come too late for the deletion under way to count it.
Submit(j) ==
    /\ Move(j, {"none"}, "queued")
    /\ missed' \in {missed, missed \cup {j}}

Start(j) == Move(j, {"queued"}, "running") /\ missed' = missed
Cancel(j) == Move(j, ActiveStatus, "canceled") /\ missed' = missed
Finish(j) == (\E verdict \in Final : Move(j, {"running"}, verdict)) /\ missed' = missed
Park(j) == Move(j, {"running"}, "parked") /\ missed' = missed

\* What a parked job is called in the end: failed, or canceled if somebody had
\* decided to cancel it while it was active.
Settle(j) == (\E verdict \in {"failed", "canceled"} : Move(j, {"parked"}, verdict))
             /\ missed' = missed

\* A deletion counts the active jobs of its batch; the count may fail.
Count(batch) == missed' \in {{}, batch} /\ status' = status

\* A batch goes as a whole, and with it no active job that was counted.
Delete(batch) ==
    /\ \A j \in batch : /\ status[j] # "none"
                        /\ status[j] \in ActiveStatus => j \in missed
    /\ status' = [j \in Jobs |-> IF j \in batch THEN "deleted" ELSE status[j]]
    /\ missed' = {}

Next ==
    \/ \E j \in Jobs :
         Submit(j) \/ Start(j) \/ Cancel(j) \/ Finish(j) \/ Park(j) \/ Settle(j)
    \/ \E batch \in SUBSET Jobs : Count(batch) \/ Delete(batch)

Spec == Init /\ [][Next]_contract
=============================================================================
