---------------------------- MODULE MCStoreInit ----------------------------
(* TLC instances of StoreInit. *)
EXTENDS StoreInit, TLC

Symmetry == Permutations(Procs)
=============================================================================
