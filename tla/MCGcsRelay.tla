----------------------------- MODULE MCGcsRelay -----------------------------
(* TLC instance of GcsRelay. *)
EXTENDS GcsRelay, TLC

CONSTANTS s0, s1, s2, bad, k1, k2

Obj(i, s) == [claimed |-> i, content |-> i, sig |-> s]

(* A bundle of two objects, another one under its key with another         *)
(* signature of one of them, and one with a forged object, which is        *)
(* refused as a whole.                                                     *)
MCRequests ==
    { [key |-> k1, objects |-> <<Obj(1, s1), Obj(2, s1)>>],
      [key |-> k1, objects |-> <<Obj(2, s2)>>],
      [key |-> k2, objects |-> <<Obj(2, s1), Obj(1, bad)>>] }

Symmetry == Permutations(Conns)
=============================================================================
