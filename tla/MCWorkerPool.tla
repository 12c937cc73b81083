---------------------------- MODULE MCWorkerPool ----------------------------
(* Instances of WorkerPool for TLC: interchangeable workers and batch jobs. *)
EXTENDS WorkerPool, TLC

Symmetry == Permutations(Workers) \cup Permutations(BatchJobs)
=============================================================================
