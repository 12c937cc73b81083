-------------------------- MODULE MCEngineLimiter --------------------------
(* Instances of EngineLimiter for TLC. *)
EXTENDS EngineLimiter, TLC

Symmetry == Permutations(Workers)
=============================================================================
