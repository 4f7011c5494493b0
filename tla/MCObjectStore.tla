--------------------------- MODULE MCObjectStore ---------------------------
(* TLC instances of ObjectStore. *)
EXTENDS ObjectStore, TLC

(* The processes are interchangeable, and so are the wire forms. *)
Symmetry == Permutations(Procs) \cup Permutations(Wires)
=============================================================================
