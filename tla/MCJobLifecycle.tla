--------------------------- MODULE MCJobLifecycle ---------------------------
(* Instances of JobLifecycle for TLC: interchangeable workers and handlers, *)
(* and interchangeable jobs if they all belong to the batch.                *)
EXTENDS JobLifecycle, TLC

Symmetry ==
    Permutations(Workers) \cup Permutations(Clients)
      \cup (IF BatchJobs = Jobs THEN Permutations(Jobs) ELSE {})
=============================================================================
