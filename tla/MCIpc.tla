--------------------------------- MODULE MCIpc ---------------------------------
(* Memory blocks of endpoints are interchangeable, and so are threads and ids. *)
EXTENDS Ipc

Symmetry == Permutations(Eps) \cup Permutations(Threads) \cup Permutations(Ids)
=============================================================================
