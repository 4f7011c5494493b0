---------------------------- MODULE PatchObjects ----------------------------
(***************************************************************************)
(* What `patch apply' and `patch checkout' (crates/rickydata-git-cli)      *)
(* share: processes that take a patch object from the store by its id and  *)
(* then go on step by step.                                                *)
(***************************************************************************)
EXTENDS Naturals

CONSTANTS
    Procs,      \* rickygit processes in the clone
    Patches     \* the patch objects that may be there: [id, rank, diff]

PatchIds == {o.id : o \in Patches}
Diffs == {o.diff : o \in Patches}

ASSUME PatchConstants ==
    \A o, q \in Patches : o.rank \in Nat /\ (o.rank = q.rank => o = q)

VARIABLES
    listed,     \* agent.patch objects in the store
    pc, job     \* the next step of each process, and what it works on

Begin(p, l, j) ==
    /\ pc[p] = "idle"
    /\ pc' = [pc EXCEPT ![p] = l]
    /\ job' = [job EXCEPT ![p] = j]

Step(p, from, to) ==
    /\ pc[p] = from
    /\ pc' = [pc EXCEPT ![p] = to]

(* The patch that list_patches returns first for an id. *)
First(id, o) ==
    /\ o \in listed /\ o.id = id
    /\ \A q \in listed : q.id = id => o.rank <= q.rank
=============================================================================
