------------------------------ MODULE MCRunner ------------------------------
(* The runner service on small instances. *)
EXTENDS RunnerService, TLC

Symmetry == Permutations(Run) \cup Permutations(Key) \cup Permutations(Call) \cup Permutations(Worker)
=============================================================================
