----------------------------- MODULE MCWorkFlow -----------------------------
(* One attempt, started in a worktree and in place. *)
EXTENDS WorkFlow, TLC

BothWays == [id : Ids, inPlace : BOOLEAN]
OneIntent == [a \in Ids |-> CHOOSE n \in Intents : TRUE]
InPlaceLast == [i \in Ids |-> FALSE]
Symmetry == Permutations(Procs)
=============================================================================
