----------------------------- MODULE PatchApply -----------------------------
(***************************************************************************)
(* `rickygit patch apply' (crates/rickydata-git-cli) by several processes  *)
(* in one clone, while the user edits, commits and resets the main working *)
(* tree.  An apply checks the repository, changes the tree and records the *)
(* application, one after the other.  Of `patch checkout' there is what it *)
(* shares with an apply, the temp file of the patch (see ReviewCheckout).  *)
(*                                                                         *)
(* The main tree is the set of changes it holds: committed in HEAD, and    *)
(* dirty besides.  HEAD is the base commit of the patches when nothing is  *)
(* committed.                                                              *)
(***************************************************************************)
EXTENDS PatchObjects, FiniteSets

CONSTANTS
    Keys,       \* idempotency keys
    NoKey,
    Own,        \* a change that the user made by hand
    NoFile,
    Stamps,     \* milliseconds in which temp files are made
    NoStamp,
    MaxApps     \* bound: recorded applications, made here or pulled

ASSUME ApplyConstants ==
    /\ Own \notin Diffs /\ NoKey \notin Keys
    /\ NoStamp \notin Stamps /\ MaxApps \in Nat

VARIABLES
    apps,       \* agent.patch_application: [id, key, diff, no], made here,
                \* of which no tells equal ones apart
    pulled,     \* and those of other clones: <<id, key>>
    committed, dirty,
    temp,       \* the temp patch files: [<<id, stamp>> -> diff]
    rivals,     \* history: <<id, key>> of applies that overlapped
    lost        \* history: diffs whose apply died before its record, or
                \* whose temp file another diff was written to

objects == <<listed, apps, pulled>>
main == <<committed, dirty>>
exceptions == <<rivals, lost>>
applyVars == <<objects, main, temp, pc, job, exceptions>>

Idle == [op |-> "none"]

ApplyInit ==
    /\ listed = {} /\ apps = {} /\ pulled = {}
    /\ committed = {} /\ dirty = {}
    /\ temp = [f \in PatchIds \X Stamps |-> NoFile]
    /\ pc = [p \in Procs |-> "idle"]
    /\ job = [p \in Procs |-> Idle]
    /\ rivals = {} /\ lost = {}

----------------------------------------------------------------------------
(* Mutant: the name of the temp file does not hold the time. *)
TempNameFixed(j) == <<j.id, CHOOSE t \in Stamps : TRUE>>

(* TempPatchFile is named after the patch and the millisecond. *)
TempName(j) == <<j.id, j.stamp>>

WithTemp(p) == pc[p] \in {"review", "replay", "clean", "apply", "record"}

(* The command ends; a temp file is removed when its command returns. *)
EndApply(p, from) ==
    /\ Step(p, from, "idle")
    /\ job' = [job EXCEPT ![p] = Idle]
    /\ temp' = IF WithTemp(p) THEN [temp EXCEPT ![TempName(job[p])] = NoFile] ELSE temp

(* Without --allow-base-drift HEAD must be the base commit. *)
HeadIsBase(drift) == drift \/ committed = {}

----------------------------------------------------------------------------
(* patch apply: the patch, HEAD and the stored diff are read ... *)
StartApply(p, o, key, drift, any) ==
    /\ First(o.id, o)
    /\ HeadIsBase(drift)
    /\ Begin(p, "temp", [op |-> "apply", id |-> o.id, diff |-> o.diff,
                         key |-> key, any |-> any, stamp |-> NoStamp])
    /\ UNCHANGED <<objects, main, temp, exceptions>>

(* patch checkout begins in the same way. *)
StartReview(p, o, drift) ==
    /\ First(o.id, o)
    /\ HeadIsBase(drift)
    /\ Begin(p, "temp", [op |-> "checkout", id |-> o.id, diff |-> o.diff,
                         key |-> NoKey, any |-> FALSE, stamp |-> NoStamp])
    /\ UNCHANGED <<objects, main, temp, exceptions>>

(* ... the diff is written to a temp file, by an apply as by a checkout ...*)
(* History: a command that works with another diff of the patch has made   *)
(* its file in the same millisecond.                                       *)
MakeTemp(p, stamp) ==
    LET j == [job[p] EXCEPT !.stamp = stamp]
        twins == {q \in Procs : /\ WithTemp(q) /\ job[q].diff # j.diff
                                /\ job[q].id = j.id /\ job[q].stamp = stamp}
    IN
    /\ Step(p, "temp", IF j.op = "apply" THEN "replay" ELSE "review")
    /\ job' = [job EXCEPT ![p] = j]
    /\ temp' = [temp EXCEPT ![TempName(j)] = j.diff]
    /\ lost' = IF twins = {} THEN lost
               ELSE lost \cup {j.diff} \cup {job[q].diff : q \in twins}
    /\ UNCHANGED <<objects, main, rivals>>

(* The checkout has read the file, or failed, and drops it. *)
EndReview(p) ==
    /\ EndApply(p, "review")
    /\ UNCHANGED <<objects, main, exceptions>>

(* find_patch_application_by_idempotency does not tell where a record was  *)
(* made.                                                                   *)
Applied(id, key) ==
    /\ key # NoKey
    /\ <<id, key>> \in pulled \/ \E a \in apps : a.id = id /\ a.key = key

Applying(q, id, key) ==
    /\ pc[q] \in {"clean", "apply", "record"}
    /\ job[q].id = id /\ job[q].key = key

Proceed(p) ==
    LET j == job[p] IN
    /\ Step(p, "replay", "clean")
    /\ rivals' = IF j.key # NoKey /\ \E q \in Procs \ {p} : Applying(q, j.id, j.key)
                   THEN rivals \cup {<<j.id, j.key>>} ELSE rivals
    /\ UNCHANGED <<objects, main, temp, job, lost>>

(* Mutant: the key is not looked up. *)
LookupNone(p) == Proceed(p)

(* ... a known key is answered from its record ... *)
Replay(p) ==
    /\ pc[p] = "replay" /\ Applied(job[p].id, job[p].key)
    /\ EndApply(p, "replay")
    /\ UNCHANGED <<objects, main, exceptions>>

Lookup(p) ==
    /\ pc[p] = "replay" /\ ~Applied(job[p].id, job[p].key)
    /\ Proceed(p)

(* ... the tree must be clean, unless --allow-dirty, which has no say from *)
(* here on ...                                                             *)
CheckClean(p) ==
    /\ Step(p, "clean", "apply")
    /\ job[p].any \/ dirty = {}
    /\ job' = [job EXCEPT ![p].any = FALSE]
    /\ UNCHANGED <<objects, main, temp, exceptions>>

(* ... git apply reads the temp file, first with --check, and refuses what *)
(* is there already ...                                                    *)
Apply(p) ==
    LET diff == temp[TempName(job[p])] IN
    /\ Step(p, "apply", "record")
    /\ diff # NoFile /\ diff \notin committed \cup dirty
    /\ dirty' = dirty \cup {diff}
    /\ UNCHANGED <<objects, committed, temp, job, exceptions>>

Room == Cardinality(apps) + Cardinality(pulled) < MaxApps

(* ... and the application is recorded. *)
Record(p) ==
    LET j == job[p]
        same == {a \in apps : a.id = j.id /\ a.key = j.key /\ a.diff = j.diff}
    IN
    /\ EndApply(p, "record")
    /\ Room
    /\ apps' = apps \cup {[id |-> j.id, key |-> j.key, diff |-> j.diff,
                           no |-> Cardinality(same) + 1]}
    /\ UNCHANGED <<listed, pulled, main, exceptions>>

----------------------------------------------------------------------------
(* A command is refused or fails, at any point, or is killed. *)
Fail(p) ==
    /\ pc[p] # "idle"
    /\ EndApply(p, pc[p])
    /\ lost' = IF pc[p] = "record" THEN lost \cup {job[p].diff} ELSE lost
    /\ UNCHANGED <<objects, main, rivals>>

Shared(p) ==
    \E q \in Procs \ {p} : WithTemp(q) /\ WithTemp(p) /\ TempName(job[q]) = TempName(job[p])

(* A command is killed: its temp file stays.  (Only a command that writes  *)
(* it again would read it, so a file that nobody else uses is forgotten.)  *)
Kill(p) ==
    /\ Shared(p)
    /\ pc' = [pc EXCEPT ![p] = "idle"]
    /\ job' = [job EXCEPT ![p] = Idle]
    /\ lost' = IF pc[p] = "record" THEN lost \cup {job[p].diff} ELSE lost
    /\ UNCHANGED <<objects, main, temp, rivals>>

(* A patch arrives: patch prepare, sync pull or relay pull. *)
LandPatch(o) ==
    /\ o \notin listed
    /\ listed' = listed \cup {o}
    /\ UNCHANGED <<apps, pulled, main, temp, pc, job, exceptions>>

(* The record of an apply in another clone arrives with a pull. *)
LandApplication(id, key) ==
    /\ Room
    /\ pulled' = pulled \cup {<<id, key>>}
    /\ UNCHANGED <<listed, apps, main, temp, pc, job, exceptions>>

(* The user edits (a bound: the tree as it was checked out), commits or    *)
(* resets the main tree.                                                   *)
EditMain ==
    /\ committed \cup dirty = {}
    /\ dirty' = dirty \cup {Own}
    /\ UNCHANGED <<objects, committed, temp, pc, job, exceptions>>

Commit ==
    /\ dirty # {}
    /\ committed' = committed \cup dirty
    /\ dirty' = {}
    /\ UNCHANGED <<objects, temp, pc, job, exceptions>>

Reset ==
    /\ dirty' = {}
    /\ UNCHANGED <<objects, committed, temp, pc, job, exceptions>>

PatchApply(p) ==
    \/ \E o \in Patches, key \in Keys \cup {NoKey}, drift, any \in BOOLEAN :
         StartApply(p, o, key, drift, any)
    \/ \E o \in Patches, drift \in BOOLEAN : StartReview(p, o, drift)
    \/ \E stamp \in Stamps : MakeTemp(p, stamp)
    \/ EndReview(p) \/ Replay(p) \/ Lookup(p) \/ CheckClean(p) \/ Apply(p) \/ Record(p)
    \/ Fail(p) \/ Kill(p)

ApplyNext ==
    \/ \E p \in Procs : PatchApply(p)
    \/ \E o \in Patches : LandPatch(o)
    \/ \E id \in PatchIds, key \in Keys : LandApplication(id, key)
    \/ EditMain \/ Commit \/ Reset

ApplySpec == ApplyInit /\ [][ApplyNext]_applyVars

----------------------------------------------------------------------------
(* A retried apply is recorded once per patch and key, even after resets   *)
(* and commits, unless two with the same key passed the lookup together.   *)
(* (Of the records made in this clone: another one may use the key too.)   *)
OneApplicationPerKey ==
    \A a, b \in apps :
        a.id = b.id /\ a.key = b.key /\ a.key # NoKey
            /\ <<a.id, a.key>> \notin rivals => a = b

(* A diff in the main tree is that of an application made and recorded     *)
(* here, or about to be, unless its apply died between git apply and the   *)
(* record, or two commands, an apply and another apply or a checkout, made *)
(* the temp file of different diffs of one patch in the same millisecond.  *)
AppliedRecorded ==
    \A d \in (committed \cup dirty) \cap Diffs :
        \/ \E a \in apps : a.diff = d
        \/ \E p \in Procs : pc[p] = "record" /\ job[p].diff = d
        \/ d \in lost
=============================================================================
