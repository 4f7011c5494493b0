-------------------------- MODULE MCReviewCheckout --------------------------
(* Two patches, one of which has two patch objects with different diffs. *)
EXTENDS ReviewCheckout, TLC

CONSTANTS i, j, d, e, f

Three == {[id |-> i, rank |-> 1, diff |-> d], [id |-> i, rank |-> 2, diff |-> e],
          [id |-> j, rank |-> 3, diff |-> f]}
Symmetry == Permutations(Procs)
=============================================================================
