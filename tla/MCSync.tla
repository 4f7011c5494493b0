------------------------------- MODULE MCSync -------------------------------
(* A patch and its diff, which exists under two signatures. *)
EXTENDS Sync, TLC

CONSTANTS patch, diff, mine, theirs

MCWires == patch :> {mine} @@ diff :> {mine, theirs}
MCDiffOf == patch :> diff
=============================================================================
