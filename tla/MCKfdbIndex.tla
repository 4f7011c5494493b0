---------------------------- MODULE MCKfdbIndex ----------------------------
(* TLC instance of KfdbIndex. *)
EXTENDS KfdbIndex, TLC

CONSTANTS ch, pt, pk, fl, rn, at

(* A signed change with a file and a run, two patches of one patch id, and *)
(* the trace of the run.                                                   *)
MCKind == <<"agent.change", "agent.patch", "agent.patch", "agent.run_trace">>

MCBody ==
    << [change_id |-> <<ch>>, run_ids |-> <<rn>>, file_paths |-> <<fl>>],
       [patch_id |-> <<pt>>, change_ids |-> <<ch>>],
       [patch_id |-> <<pt>>],
       [run_id |-> <<rn>>, attempt_id |-> <<at>>] >>

MCSigners == << <<pk>>, <<>>, <<>>, <<>> >>

MCBundles == {<<1, 2>>, <<3, 4>>}

Symmetry == Permutations(Threads)
=============================================================================
