---------------------------- MODULE MCPatchApply ----------------------------
(* Two patch objects with one patch id and different diffs. *)
EXTENDS PatchApply, TLC

CONSTANTS i, d, e

SameId == {[id |-> i, rank |-> 1, diff |-> d], [id |-> i, rank |-> 2, diff |-> e]}
Symmetry == Permutations(Procs) \cup Permutations(Stamps)
=============================================================================
