---------------------------- MODULE MCFileRelay ----------------------------
(* TLC instances of FileRelay. *)
EXTENDS FileRelay, TLC

CONSTANTS i1, i2, h3, s0, s1, s2, bad, k1, k2

Obj(i, s) == [claimed |-> i, content |-> i, sig |-> s]

(* Bundles of one and two objects; two signers of one id, in one bundle    *)
(* and in two; a key used for two bundles; unsigned, forged and mislabelled *)
(* objects.                                                                *)
MCRequests ==
    { [key |-> k1, objects |-> <<Obj(i1, s1), Obj(i2, s1)>>],
      [key |-> k1, objects |-> <<Obj(i2, s1)>>],
      [key |-> k2, objects |-> <<Obj(i1, s2)>>],
      [key |-> k2, objects |-> <<Obj(i1, s1), Obj(i1, s2)>>],
      [key |-> k2, objects |-> <<Obj(i2, s0)>>],
      [key |-> k1, objects |-> <<Obj(i2, s1), Obj(i1, bad)>>],
      [key |-> k2, objects |-> <<Obj(i1, s1), [Obj(i2, s1) EXCEPT !.content = h3]>>] }

Symmetry == Permutations(Conns)
=============================================================================
