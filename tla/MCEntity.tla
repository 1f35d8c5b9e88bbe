------------------------------- MODULE MCEntity -------------------------------
(* Processes, threads and paths are interchangeable. *)
EXTENDS Entity

Symmetry == Permutations(Procs) \cup Permutations(Threads) \cup Permutations(Names)
=============================================================================
