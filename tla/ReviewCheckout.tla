--------------------------- MODULE ReviewCheckout ---------------------------
(***************************************************************************)
(* `rickygit patch checkout' and `patch retire' (crates/rickydata-git-cli):*)
(* a review worktree per path, built by several processes: the path is     *)
(* inspected, an old checkout removed, a worktree added, the diff applied  *)
(* in it and a marker written last, which is what allows a later --force   *)
(* to replace it.                                                          *)
(***************************************************************************)
EXTENDS PatchObjects

CONSTANTS
    Paths,      \* checkout paths
    Absent,     \* nothing is at the path
    Empty,      \* an empty directory that the user made
    Foreign,    \* a directory with files of the user
    Nothing     \* no diff, no marker or no job

Job == [id : PatchIds, diff : Diffs, path : Paths, force : BOOLEAN]
Checkout == [diff : Diffs \cup {Nothing}, marker : PatchIds \cup {Nothing}]

ASSUME CheckoutConstants ==
    /\ Nothing \notin Diffs \cup PatchIds
    /\ Absent # Empty /\ Absent # Foreign /\ Empty # Foreign
    /\ Absent \notin Checkout /\ Empty \notin Checkout /\ Foreign \notin Checkout

VARIABLES
    retired,    \* agent.patch_retirement: patch ids
    head,       \* HEAD is the base commit of the patches
    dir,        \* [Paths -> Absent, Empty, Foreign or a Checkout]
    clash,      \* history: paths where two checkouts were at work at once, or
                \* where the user put files while git was adding the worktree
    torn        \* history: paths that hold what a checkout or a removal left
                \* that died or failed half way

history == <<clash, torn>>
store == <<listed, retired>>
vars == <<store, head, dir, pc, job, history>>

Init ==
    /\ listed = {} /\ retired = {} /\ head = TRUE
    /\ dir \in [Paths -> {Absent, Empty, Foreign}]
    /\ pc = [p \in Procs |-> "idle"]
    /\ job = [p \in Procs |-> Nothing]
    /\ clash = {} /\ torn = {}

----------------------------------------------------------------------------
Done(p, from) ==
    /\ Step(p, from, "idle")
    /\ job' = [job EXCEPT ![p] = Nothing]

(* Without --allow-base-drift HEAD must be the base commit. *)
AtBase(drift) == drift \/ head

----------------------------------------------------------------------------
(* patch checkout *)
Free == {Absent, Empty}
IsCheckout(t) == dir[t] \notin {Absent, Empty, Foreign}
Labels == {"remove", "fill", "tree", "mark", "cleanup"}
Inside(q, t) == pc[q] \in Labels /\ job[q].path = t

(* History: a process that goes to work on a path where another one is. *)
Enter(p, t) ==
    clash' = IF \E q \in Procs \ {p} : Inside(q, t) THEN clash \cup {t} ELSE clash

StartCheckout(p, o, path, drift, force) ==
    /\ First(o.id, o)
    /\ AtBase(drift)
    /\ Begin(p, "path", [id |-> o.id, diff |-> o.diff,
                         path |-> path, force |-> force])
    /\ UNCHANGED <<store, head, dir, history>>

(* prepare_review_checkout_path: nothing is at the path ... *)
TakePath(p) ==
    /\ Step(p, "path", "add")
    /\ dir[job[p].path] = Absent
    /\ UNCHANGED <<store, head, dir, job, history>>

(* ... or with --force it holds a checkout marked as one of this patch. *)
Replace(p) ==
    LET t == job[p].path IN
    /\ Step(p, "path", "remove")
    /\ job[p].force
    /\ IsCheckout(t) /\ dir[t].marker = job[p].id
    /\ Enter(p, t)
    /\ UNCHANGED <<store, head, dir, job, torn>>

Vacate(t) ==
    /\ dir' = [dir EXCEPT ![t] = Absent]
    /\ torn' = torn \ {t}
    /\ UNCHANGED <<store, head, clash>>

RemoveOld(p) ==
    /\ Step(p, "remove", "add")
    /\ Vacate(job[p].path)
    /\ UNCHANGED job

(* git worktree add: git looks whether the path is free, and an empty      *)
(* directory is good enough.  When it is taken by now, the command ends    *)
(* without a cleanup.                                                      *)
AddLooks(p) ==
    LET t == job[p].path IN
    /\ Step(p, "add", "fill")
    /\ dir[t] \in Free
    /\ Enter(p, t)
    /\ UNCHANGED <<store, head, dir, job, torn>>

(* Mutant: a failed git worktree add is cleaned up too. *)
AddFailsCleanup(p) ==
    /\ Step(p, "add", "cleanup")
    /\ UNCHANGED <<store, head, dir, job, history>>

AddFails(p) ==
    /\ Done(p, "add")
    /\ UNCHANGED <<store, head, dir, history>>

Bare == [diff |-> Nothing, marker |-> Nothing]

(* Mutant: the worktree is marked when it is made. *)
AddTreeMarked(p) ==
    /\ Step(p, "fill", "tree")
    /\ dir' = [dir EXCEPT ![job[p].path] = [Bare EXCEPT !.marker = job[p].id]]
    /\ UNCHANGED <<store, head, job, history>>

(* The worktree is made, in whatever is at the path by now. *)
AddTree(p) ==
    /\ Step(p, "fill", "tree")
    /\ dir' = [dir EXCEPT ![job[p].path] = Bare]
    /\ UNCHANGED <<store, head, job, history>>

(* A git worktree add that fails or is interrupted deletes the directory. *)
AddUndone(p) ==
    /\ Done(p, "fill")
    /\ Vacate(job[p].path)

(* git apply reads the temp file, which holds the diff of the patch that   *)
(* was found, or the one of another patch object of the same id, when a    *)
(* command made its file in the same millisecond (see PatchApply).         *)
ApplyTree(p) ==
    LET t == job[p].path IN
    /\ Step(p, "tree", "mark")
    /\ IsCheckout(t) /\ dir[t].diff = Nothing
    /\ \E o \in listed :
         o.id = job[p].id /\ dir' = [dir EXCEPT ![t].diff = o.diff]
    /\ UNCHANGED <<store, head, job, history>>

(* write_review_checkout_marker *)
Mark(p) ==
    LET t == job[p].path IN
    /\ Done(p, "mark")
    /\ IsCheckout(t)
    /\ dir' = [dir EXCEPT ![t].marker = job[p].id]
    /\ UNCHANGED <<store, head, history>>

(* Mutant: the worktree is left behind. *)
TreeFailsQuietly(p) ==
    /\ pc[p] \in {"tree", "mark"}
    /\ Done(p, pc[p])
    /\ UNCHANGED <<store, head, dir, history>>

(* An error of git apply or of the marker removes the worktree. *)
TreeFails(p) ==
    /\ pc[p] \in {"tree", "mark"}
    /\ Step(p, pc[p], "cleanup")
    /\ UNCHANGED <<store, head, dir, job, history>>

Cleanup(p) ==
    /\ Done(p, "cleanup")
    /\ Vacate(job[p].path)

----------------------------------------------------------------------------
(* A command is refused or fails before it is at work on the path, or is   *)
(* killed at any point, between its steps or before git made anything.     *)
Stop(p) ==
    /\ pc[p] # "idle"
    /\ Done(p, pc[p])
    /\ torn' = IF pc[p] \in {"tree", "mark", "cleanup"}
                 THEN torn \cup {job[p].path} ELSE torn
    /\ UNCHANGED <<store, head, dir, clash>>

(* git worktree add is killed while it makes the directory ... *)
KillAdd(p) ==
    LET t == job[p].path IN
    /\ Done(p, "fill")
    /\ dir' = [dir EXCEPT ![t] = Bare]
    /\ torn' = torn \cup {t}
    /\ UNCHANGED <<store, head, clash>>

(* ... or a removal is cut half way, killed or for an error: files go in   *)
(* the order of the directory, so the diff may be gone, the marker, both.  *)
Some(x) == {x, Nothing}

RemoveHalf(p) ==
    LET t == job[p].path IN
    /\ pc[p] \in {"remove", "cleanup"}
    /\ Done(p, pc[p])
    /\ IsCheckout(t)
    /\ \E d \in Some(dir[t].diff), m \in Some(dir[t].marker) :
         dir' = [dir EXCEPT ![t] = [diff |-> d, marker |-> m]]
    /\ torn' = torn \cup {t}
    /\ UNCHANGED <<store, head, clash>>

(* A patch arrives: patch prepare, sync pull or relay pull. *)
Land(o) ==
    /\ o \notin listed
    /\ listed' = listed \cup {o}
    /\ UNCHANGED <<retired, head, dir, pc, job, history>>

(* patch retire needs a listed patch.  It takes the patch off the review   *)
(* queue; checkout and apply do not look at it.                            *)
Retire(id) ==
    /\ id \notin retired
    /\ \E o \in listed : o.id = id
    /\ retired' = retired \cup {id}
    /\ UNCHANGED <<listed, head, dir, pc, job, history>>

(* The user moves HEAD, makes a directory of his own ... *)
MoveHead ==
    /\ head' = ~head
    /\ UNCHANGED <<store, dir, pc, job, history>>

MakeDir(t) ==
    /\ dir[t] = Absent
    /\ dir' = [dir EXCEPT ![t] = Empty]
    /\ UNCHANGED <<store, head, pc, job, history>>

(* ... or puts files there. *)
PutFiles(t) ==
    /\ dir[t] \in Free
    /\ dir' = [dir EXCEPT ![t] = Foreign]
    /\ clash' = IF \E q \in Procs : Inside(q, t) THEN clash \cup {t} ELSE clash
    /\ UNCHANGED <<store, head, pc, job, torn>>

PatchCheckout(p) ==
    \/ \E o \in Patches, t \in Paths, drift, force \in BOOLEAN :
         StartCheckout(p, o, t, drift, force)
    \/ TakePath(p) \/ Replace(p) \/ RemoveOld(p)
    \/ AddLooks(p) \/ AddFails(p) \/ AddTree(p) \/ AddUndone(p)
    \/ ApplyTree(p) \/ Mark(p) \/ TreeFails(p) \/ Cleanup(p)
    \/ Stop(p) \/ KillAdd(p) \/ RemoveHalf(p)

Next ==
    \/ \E p \in Procs : PatchCheckout(p)
    \/ \E o \in Patches : Land(o)
    \/ \E id \in PatchIds : Retire(id)
    \/ MoveHead
    \/ \E t \in Paths : MakeDir(t) \/ PutFiles(t)

Spec == Init /\ [][Next]_vars

----------------------------------------------------------------------------
TypeOK ==
    /\ listed \subseteq Patches /\ retired \subseteq PatchIds
    /\ head \in BOOLEAN
    /\ pc \in [Procs -> {"idle", "path", "add"} \cup Labels]
    /\ job \in [Procs -> Job \cup {Nothing}]
    /\ dir \in [Paths -> Checkout \cup {Absent, Empty, Foreign}]
    /\ clash \subseteq Paths /\ torn \subseteq Paths

(* The marker comes last: a marked checkout is one of a patch on record    *)
(* and holds its diff, but where the last checkout or removal died or      *)
(* failed half way.  A removal cut short may leave the marker alone; the   *)
(* --force that it allows makes the path whole again.  (Not where two      *)
(* checkouts were at work at once.)                                        *)
MarkedWhole ==
    \A t \in Paths \ clash : IsCheckout(t) /\ dir[t].marker # Nothing =>
        \E o \in listed : /\ o.id = dir[t].marker
                          /\ o.diff = dir[t].diff \/ t \in torn

(* What a checkout that has ended leaves behind is marked, and so can be   *)
(* replaced with --force, unless it died half way or two were at work.     *)
LeftoversMarked ==
    \A t \in Paths : /\ IsCheckout(t) /\ dir[t].marker = Nothing
                     /\ \A p \in Procs : ~Inside(p, t)
        => t \in torn \cup clash

(* Files of the user and a marked checkout stay as they are: only a forced *)
(* checkout of the same patch takes the latter away.  An empty directory   *)
(* that the user makes after the look is taken over.                       *)
Untouched ==
    [][\A t \in Paths \ clash' :
          /\ dir[t] = Foreign => dir'[t] = Foreign
          /\ IsCheckout(t) /\ dir[t].marker # Nothing =>
               \/ dir'[t] = dir[t]
               \/ \E p \in Procs : /\ pc[p] = "remove" /\ job[p].path = t
                                   /\ job[p].id = dir[t].marker]_vars
=============================================================================
