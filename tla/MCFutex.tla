-------------------------------- MODULE MCFutex --------------------------------
(* Futex addresses are interchangeable. *)
EXTENDS Futex, TLC

Symmetry == Permutations(Addrs)
=============================================================================
