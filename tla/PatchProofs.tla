---------------------------- MODULE PatchProofs ----------------------------
(***************************************************************************)
(* Proofs about ReviewCheckout and PatchApply, each a specification of its *)
(* own over PatchObjects, for any number of processes, patches and paths,  *)
(* any idempotency keys and any clock.                                     *)
(***************************************************************************)
EXTENDS ReviewCheckout, PatchApply, FiniteSetTheorems, TLAPS

(* 1. patch checkout                                                       *)

Building == {"tree", "mark", "cleanup"}
At(p, t) == pc[p] \in Building /\ job[p].path = t

(* A command under way names a patch that is in the store. *)
JobInv ==
    \A p \in Procs : pc[p] # "idle" =>
        /\ job[p] \in Job
        /\ \E o \in listed : o.id = job[p].id /\ o.diff = job[p].diff

(* A process at work finds on its path what it looked at or made there.    *)
Fits(p, t) ==
    /\ pc[p] = "remove" => IsCheckout(t) /\ dir[t].marker = job[p].id
    /\ pc[p] = "fill" => dir[t] \in Free
    /\ pc[p] \in Building => IsCheckout(t) /\ dir[t].marker = Nothing
    /\ pc[p] = "mark" => \E o \in listed : o.id = job[p].id /\ o.diff = dir[t].diff

(* On a path without a clash it is alone, and so it does. *)
Alone ==
    \A t \in Paths \ clash : \A p \in Procs : Inside(p, t) =>
        Fits(p, t) /\ \A q \in Procs : Inside(q, t) => q = p

(* There, a worktree without a marker has its builder, or one died in it,  *)
(* and one with a marker is whole.                                         *)
Manned(t) ==
    IsCheckout(t) /\ dir[t].marker = Nothing =>
        t \in torn \/ \E p \in Procs : At(p, t)

Whole(t) ==
    IsCheckout(t) /\ dir[t].marker # Nothing =>
        \E o \in listed : /\ o.id = dir[t].marker
                          /\ o.diff = dir[t].diff \/ t \in torn

CheckoutInv ==
    /\ TypeOK /\ JobInv /\ Alone
    /\ \A t \in Paths \ clash : Manned(t) /\ Whole(t)

(* A worktree without a diff or a marker is a checkout, unmarked. *)
LEMMA BareIsCheckout ==
    /\ Bare \in Checkout /\ Bare.marker = Nothing /\ Bare.diff = Nothing
    /\ \A x \in Checkout : x \notin {Absent, Empty, Foreign}
  BY CheckoutConstants DEF Bare, Checkout

LEMMA InitHolds == Init => CheckoutInv
<1> SUFFICES ASSUME Init PROVE CheckoutInv
  OBVIOUS
<1> USE DEF Init
<1>1. TypeOK
  BY DEF TypeOK
<1>2. JobInv /\ Alone
  BY DEF JobInv, Alone, Inside, Labels
<1>3. \A t \in Paths : ~IsCheckout(t)
  BY DEF IsCheckout
<1> QED
  BY <1>1, <1>2, <1>3 DEF CheckoutInv, Manned, Whole

(* What has to be shown of a step of one process: it concerns the path of  *)
(* that process alone, whose content changes only by a process at work     *)
(* there, and nobody comes to work there beside another one.               *)
LEMMA OwnStep ==
    ASSUME CheckoutInv, NEW p \in Procs, NEW t \in Paths, TypeOK', JobInv',
           \A q \in Procs \ {p} : pc'[q] = pc[q] /\ job'[q] = job[q],
           listed' = listed, clash \subseteq clash',
           \A u \in Paths \ {t} : dir'[u] = dir[u] /\ (u \in torn => u \in torn'),
           \A u \in Paths \ {t} : ~Inside(p, u) /\ ~Inside(p, u)',
           t \notin clash' =>
             /\ dir'[t] = dir[t] \/ Inside(p, t)
             /\ Inside(p, t)' =>
                  /\ Fits(p, t)'
                  /\ Inside(p, t) \/ \A q \in Procs \ {p} : ~Inside(q, t)
             /\ Manned(t)' /\ Whole(t)'
    PROVE  CheckoutInv'
<1>1. \A q \in Procs \ {p}, u \in Paths : Inside(q, u)' <=> Inside(q, u)
  BY DEF Inside
<1>2. ASSUME NEW u \in Paths \ clash', NEW q \in Procs, Inside(q, u)'
      PROVE  Fits(q, u)' /\ \A r \in Procs : Inside(r, u)' => r = q
  <2>1. CASE q = p
    <3>1. u = t
      BY <1>2, <2>1
    <3>2. \A r \in Procs \ {p} : ~Inside(r, t)
      BY <1>2, <2>1, <3>1 DEF CheckoutInv, Alone
    <3> QED
      BY <1>1, <1>2, <2>1, <3>1, <3>2
  <2>2. CASE q # p
    <3>1. Inside(q, u) /\ u \notin clash
      BY <1>1, <1>2, <2>2
    <3>2. Fits(q, u) /\ ~Inside(p, u)
      BY <2>2, <3>1 DEF CheckoutInv, Alone
    <3>3. ~Inside(p, u)' /\ dir'[u] = dir[u]
      BY <1>2, <2>2, <3>1, <3>2
    <3>4. Fits(q, u)'
      BY <2>2, <3>2, <3>3 DEF Fits, IsCheckout
    <3> QED
      BY <1>1, <3>1, <3>3, <3>4 DEF CheckoutInv, Alone
  <2> QED
    BY <2>1, <2>2
<1>3. ASSUME NEW u \in Paths \ clash' PROVE Manned(u)' /\ Whole(u)'
  <2>1. CASE u = t
    BY <1>3, <2>1
  <2>2. CASE u # t
    <3>1. \A q \in Procs : At(q, u) => At(q, u)'
      BY <2>2 DEF At, Inside, Labels, Building
    <3> QED
      BY <1>3, <2>2, <3>1 DEF CheckoutInv, Manned, Whole, IsCheckout
  <2> QED
    BY <2>1, <2>2
<1> QED
  BY <1>2, <1>3 DEF CheckoutInv, Alone

(* A process that is not at work leaves every path as it is. *)
LEMMA IdleStep ==
    ASSUME CheckoutInv, NEW p \in Procs, NEW t \in Paths, TypeOK', JobInv',
           \A q \in Procs \ {p} : pc'[q] = pc[q] /\ job'[q] = job[q],
           UNCHANGED <<listed, dir, clash, torn>>,
           \A u \in Paths : ~Inside(p, u) /\ ~Inside(p, u)'
    PROVE  CheckoutInv'
<1>1. ASSUME t \notin clash' PROVE Manned(t)' /\ Whole(t)'
  <2>1. \A q \in Procs : At(q, t) => At(q, t)'
    BY DEF At, Inside, Labels, Building
  <2> QED
    BY <1>1, <2>1 DEF CheckoutInv, Manned, Whole, IsCheckout
<1> QED
  BY <1>1, OwnStep

LEMMA StartHolds ==
    ASSUME CheckoutInv, NEW p \in Procs, NEW o \in Patches, NEW t \in Paths,
           NEW drift \in BOOLEAN, NEW force \in BOOLEAN,
           StartCheckout(p, o, t, drift, force)
    PROVE  CheckoutInv'
<1> USE DEF CheckoutInv, TypeOK, JobInv, StartCheckout, Begin
<1>0. /\ \A q \in Procs \ {p} : pc'[q] = pc[q] /\ job'[q] = job[q]
      /\ UNCHANGED <<listed, dir, clash, torn>>
      /\ \A u \in Paths : ~Inside(p, u) /\ ~Inside(p, u)'
  BY DEF store, history, Inside, Labels
<1>1. TypeOK'
  BY <1>0 DEF store, Job, PatchIds, Diffs, First, history
<1>2. JobInv'
  BY <1>0 DEF store, First, PatchIds, Diffs, Job
<1> QED
  BY <1>0, <1>1, <1>2, IdleStep

LEMMA BeforeWorkHolds ==
    ASSUME CheckoutInv, NEW p \in Procs, TakePath(p) \/ AddFails(p)
    PROVE  CheckoutInv'
<1> USE DEF CheckoutInv, TypeOK, JobInv, TakePath, AddFails, Step, Done
<1>0. /\ \A q \in Procs \ {p} : pc'[q] = pc[q] /\ job'[q] = job[q]
      /\ UNCHANGED <<listed, dir, clash, torn>>
      /\ \A u \in Paths : ~Inside(p, u) /\ ~Inside(p, u)'
  BY DEF store, history, Inside, Labels
<1>1. TypeOK'
  BY <1>0 DEF store, history
<1>2. JobInv'
  BY <1>0 DEF store
<1>3. job[p].path \in Paths
  BY DEF Job
<1> QED
  BY <1>0, <1>1, <1>2, <1>3, IdleStep

(* Any other process at work there would be a clash. *)
LEMMA ReplaceHolds ==
    ASSUME CheckoutInv, NEW p \in Procs, Replace(p)
    PROVE  CheckoutInv'
<1> PICK t \in Paths : t = job[p].path /\ pc[p] # "idle"
  BY DEF CheckoutInv, JobInv, Job, Replace, Step, Enter
<1> USE DEF CheckoutInv, TypeOK, JobInv, Replace, Step, Enter
<1>0. /\ \A q \in Procs \ {p} : pc'[q] = pc[q] /\ job'[q] = job[q]
      /\ t \in Paths /\ listed' = listed /\ clash \subseteq clash'
      /\ \A u \in Paths \ {t} : dir'[u] = dir[u] /\ (u \in torn => u \in torn')
  BY DEF Job, store, history
<1>1. TypeOK'
  BY <1>0, BareIsCheckout DEF store, Labels, Job, history
<1>2. JobInv'
  BY <1>0 DEF store
<1>3. \A u \in Paths \ {t} : ~Inside(p, u) /\ ~Inside(p, u)'
  BY DEF Inside, Labels
<1>4. ASSUME t \notin clash'
      PROVE  /\ dir'[t] = dir[t] \/ Inside(p, t)
             /\ Inside(p, t)' =>
                  /\ Fits(p, t)'
                  /\ Inside(p, t) \/ \A q \in Procs \ {p} : ~Inside(q, t)
             /\ Manned(t)' /\ Whole(t)'
  BY <1>0, <1>4, CheckoutConstants, BareIsCheckout, <1>0 DEF Alone, Fits, Manned, Whole, IsCheckout, Inside, At, Labels, Building, Free
<1> QED
  BY <1>0, <1>1, <1>2, <1>3, <1>4, OwnStep

LEMMA AddLooksHolds ==
    ASSUME CheckoutInv, NEW p \in Procs, AddLooks(p)
    PROVE  CheckoutInv'
<1> PICK t \in Paths : t = job[p].path /\ pc[p] # "idle"
  BY DEF CheckoutInv, JobInv, Job, AddLooks, Step, Enter
<1> USE DEF CheckoutInv, TypeOK, JobInv, AddLooks, Step, Enter
<1>0. /\ \A q \in Procs \ {p} : pc'[q] = pc[q] /\ job'[q] = job[q]
      /\ t \in Paths /\ listed' = listed /\ clash \subseteq clash'
      /\ \A u \in Paths \ {t} : dir'[u] = dir[u] /\ (u \in torn => u \in torn')
  BY DEF Job, store, history
<1>1. TypeOK'
  BY <1>0, BareIsCheckout DEF store, Labels, Job, history
<1>2. JobInv'
  BY <1>0 DEF store
<1>3. \A u \in Paths \ {t} : ~Inside(p, u) /\ ~Inside(p, u)'
  BY DEF Inside, Labels
<1>4. ASSUME t \notin clash'
      PROVE  /\ dir'[t] = dir[t] \/ Inside(p, t)
             /\ Inside(p, t)' =>
                  /\ Fits(p, t)'
                  /\ Inside(p, t) \/ \A q \in Procs \ {p} : ~Inside(q, t)
             /\ Manned(t)' /\ Whole(t)'
  BY <1>0, <1>4, CheckoutConstants, BareIsCheckout
     DEF Alone, Fits, Manned, Whole, IsCheckout, Inside, At, Labels, Building, Free
<1> QED
  BY <1>0, <1>1, <1>2, <1>3, <1>4, OwnStep

LEMMA RemoveOldHolds ==
    ASSUME CheckoutInv, NEW p \in Procs, RemoveOld(p)
    PROVE  CheckoutInv'
<1> PICK t \in Paths : t = job[p].path /\ pc[p] # "idle"
  BY DEF CheckoutInv, JobInv, Job, RemoveOld, Step, Vacate
<1> USE DEF CheckoutInv, TypeOK, JobInv, RemoveOld, Step, Vacate
<1>0. /\ \A q \in Procs \ {p} : pc'[q] = pc[q] /\ job'[q] = job[q]
      /\ t \in Paths /\ listed' = listed /\ clash \subseteq clash'
      /\ \A u \in Paths \ {t} : dir'[u] = dir[u] /\ (u \in torn => u \in torn')
  BY DEF Job, store, history
<1>1. TypeOK'
  BY <1>0, BareIsCheckout DEF store, Labels, Job, history
<1>2. JobInv'
  BY <1>0 DEF store
<1>3. \A u \in Paths \ {t} : ~Inside(p, u) /\ ~Inside(p, u)'
  BY DEF Inside, Labels
<1>4. ASSUME t \notin clash'
      PROVE  /\ dir'[t] = dir[t] \/ Inside(p, t)
             /\ Inside(p, t)' =>
                  /\ Fits(p, t)'
                  /\ Inside(p, t) \/ \A q \in Procs \ {p} : ~Inside(q, t)
             /\ Manned(t)' /\ Whole(t)'
  BY <1>0, <1>4, CheckoutConstants, BareIsCheckout
     DEF Alone, Fits, Manned, Whole, IsCheckout, Inside, At, Labels, Building, Free
<1> QED
  BY <1>0, <1>1, <1>2, <1>3, <1>4, OwnStep

(* Alone there, the process knows that the path is free. *)
LEMMA AddTreeHolds ==
    ASSUME CheckoutInv, NEW p \in Procs, AddTree(p)
    PROVE  CheckoutInv'
<1> PICK t \in Paths : t = job[p].path /\ pc[p] # "idle"
  BY DEF CheckoutInv, JobInv, Job, AddTree, Step
<1> USE DEF CheckoutInv, TypeOK, JobInv, AddTree, Step
<1>0. /\ \A q \in Procs \ {p} : pc'[q] = pc[q] /\ job'[q] = job[q]
      /\ t \in Paths /\ listed' = listed /\ clash \subseteq clash'
      /\ \A u \in Paths \ {t} : dir'[u] = dir[u] /\ (u \in torn => u \in torn')
  BY DEF Job, store, history
<1>1. TypeOK'
  BY <1>0, BareIsCheckout DEF store, Labels, Job, history
<1>2. JobInv'
  BY <1>0 DEF store
<1>3. \A u \in Paths \ {t} : ~Inside(p, u) /\ ~Inside(p, u)'
  BY DEF Inside, Labels
<1>4. ASSUME t \notin clash'
      PROVE  /\ dir'[t] = dir[t] \/ Inside(p, t)
             /\ Inside(p, t)' =>
                  /\ Fits(p, t)'
                  /\ Inside(p, t) \/ \A q \in Procs \ {p} : ~Inside(q, t)
             /\ Manned(t)' /\ Whole(t)'
  BY <1>0, <1>4, CheckoutConstants, BareIsCheckout
     DEF Alone, Fits, Manned, Whole, IsCheckout, Inside, At, Labels, Building, Free
<1> QED
  BY <1>0, <1>1, <1>2, <1>3, <1>4, OwnStep

LEMMA AddUndoneHolds ==
    ASSUME CheckoutInv, NEW p \in Procs, AddUndone(p)
    PROVE  CheckoutInv'
<1> PICK t \in Paths : t = job[p].path /\ pc[p] # "idle"
  BY DEF CheckoutInv, JobInv, Job, AddUndone, Step, Done, Vacate
<1> USE DEF CheckoutInv, TypeOK, JobInv, AddUndone, Step, Done, Vacate
<1>0. /\ \A q \in Procs \ {p} : pc'[q] = pc[q] /\ job'[q] = job[q]
      /\ t \in Paths /\ listed' = listed /\ clash \subseteq clash'
      /\ \A u \in Paths \ {t} : dir'[u] = dir[u] /\ (u \in torn => u \in torn')
  BY DEF Job, store, history
<1>1. TypeOK'
  BY <1>0, BareIsCheckout DEF store, Labels, Job, history
<1>2. JobInv'
  BY <1>0 DEF store
<1>3. \A u \in Paths \ {t} : ~Inside(p, u) /\ ~Inside(p, u)'
  BY DEF Inside, Labels
<1>4. ASSUME t \notin clash'
      PROVE  /\ dir'[t] = dir[t] \/ Inside(p, t)
             /\ Inside(p, t)' =>
                  /\ Fits(p, t)'
                  /\ Inside(p, t) \/ \A q \in Procs \ {p} : ~Inside(q, t)
             /\ Manned(t)' /\ Whole(t)'
  BY <1>0, <1>4, CheckoutConstants, BareIsCheckout
     DEF Alone, Fits, Manned, Whole, IsCheckout, Inside, At, Labels, Building, Free
<1> QED
  BY <1>0, <1>1, <1>2, <1>3, <1>4, OwnStep

LEMMA ApplyTreeHolds ==
    ASSUME CheckoutInv, NEW p \in Procs, ApplyTree(p)
    PROVE  CheckoutInv'
<1> PICK t \in Paths : t = job[p].path /\ pc[p] # "idle"
  BY DEF CheckoutInv, JobInv, Job, ApplyTree, Step
<1> USE DEF CheckoutInv, TypeOK, JobInv, ApplyTree, Step
<1>0. /\ \A q \in Procs \ {p} : pc'[q] = pc[q] /\ job'[q] = job[q]
      /\ t \in Paths /\ listed' = listed /\ clash \subseteq clash'
      /\ \A u \in Paths \ {t} : dir'[u] = dir[u] /\ (u \in torn => u \in torn')
  BY DEF Job, store, history
<1>5. /\ dir'[t] \in Checkout /\ dir' = [dir EXCEPT ![t] = dir'[t]]
      /\ dir'[t].marker = dir[t].marker
      /\ \E o \in listed : o.id = job[p].id /\ dir'[t].diff = o.diff
  <2>1. PICK o \in listed : o.id = job[p].id /\ dir' = [dir EXCEPT ![t].diff = o.diff]
    OBVIOUS
  <2>2. dir[t] \in Checkout /\ o.diff \in Diffs
    BY DEF IsCheckout, Diffs
  <2>3. dir'[t] = [diff |-> o.diff, marker |-> dir[t].marker]
    BY <2>1, <2>2 DEF Checkout
  <2> QED
    BY <2>1, <2>2, <2>3 DEF Checkout
<1>1. TypeOK'
  BY <1>0, <1>5 DEF store, Labels, Job, history
<1>2. JobInv'
  BY <1>0 DEF store
<1>3. \A u \in Paths \ {t} : ~Inside(p, u) /\ ~Inside(p, u)'
  BY DEF Inside, Labels
<1>4. ASSUME t \notin clash'
      PROVE  /\ dir'[t] = dir[t] \/ Inside(p, t)
             /\ Inside(p, t)' =>
                  /\ Fits(p, t)'
                  /\ Inside(p, t) \/ \A q \in Procs \ {p} : ~Inside(q, t)
             /\ Manned(t)' /\ Whole(t)'
  BY <1>0, <1>4, <1>5, CheckoutConstants, BareIsCheckout
     DEF Alone, Fits, Manned, Whole, IsCheckout, Inside, At, Labels, Building, Free
<1> QED
  BY <1>0, <1>1, <1>2, <1>3, <1>4, OwnStep

LEMMA MarkHolds ==
    ASSUME CheckoutInv, NEW p \in Procs, Mark(p)
    PROVE  CheckoutInv'
<1> PICK t \in Paths : t = job[p].path /\ pc[p] # "idle"
  BY DEF CheckoutInv, JobInv, Job, Mark, Step, Done
<1> USE DEF CheckoutInv, TypeOK, JobInv, Mark, Step, Done
<1>0. /\ \A q \in Procs \ {p} : pc'[q] = pc[q] /\ job'[q] = job[q]
      /\ t \in Paths /\ listed' = listed /\ clash \subseteq clash'
      /\ \A u \in Paths \ {t} : dir'[u] = dir[u] /\ (u \in torn => u \in torn')
  BY DEF Job, store, history
<1>5. /\ dir'[t] \in Checkout /\ dir' = [dir EXCEPT ![t] = dir'[t]]
      /\ dir'[t].marker = job[p].id /\ dir'[t].diff = dir[t].diff
  <2>1. dir[t] \in Checkout /\ job[p].id \in PatchIds
    BY DEF IsCheckout, Job
  <2>2. dir'[t] = [diff |-> dir[t].diff, marker |-> job[p].id]
    BY <2>1 DEF Checkout
  <2> QED
    BY <2>1, <2>2 DEF Checkout
<1>1. TypeOK'
  BY <1>0, <1>5 DEF store, Labels, Job, history
<1>2. JobInv'
  BY <1>0 DEF store
<1>3. \A u \in Paths \ {t} : ~Inside(p, u) /\ ~Inside(p, u)'
  BY DEF Inside, Labels
<1>4. ASSUME t \notin clash'
      PROVE  /\ dir'[t] = dir[t] \/ Inside(p, t)
             /\ Inside(p, t)' =>
                  /\ Fits(p, t)'
                  /\ Inside(p, t) \/ \A q \in Procs \ {p} : ~Inside(q, t)
             /\ Manned(t)' /\ Whole(t)'
  <2>1. Inside(p, t) /\ Fits(p, t) /\ ~Inside(p, t)'
    BY <1>0, <1>4 DEF Alone, Inside, Labels
  <2>2. \E o \in listed : o.id = job[p].id /\ o.diff = dir[t].diff
    BY <2>1 DEF Fits
  <2>3. Manned(t)' /\ Whole(t)'
    BY <1>0, <1>5, <2>2, CheckoutConstants DEF Manned, Whole, Job
  <2> QED
    BY <2>1, <2>3
<1> QED
  BY <1>0, <1>1, <1>2, <1>3, <1>4, OwnStep

LEMMA TreeFailsHolds ==
    ASSUME CheckoutInv, NEW p \in Procs, TreeFails(p)
    PROVE  CheckoutInv'
<1> PICK t \in Paths : t = job[p].path /\ pc[p] # "idle"
  BY DEF CheckoutInv, JobInv, Job, TreeFails, Step
<1> USE DEF CheckoutInv, TypeOK, JobInv, TreeFails, Step
<1>0. /\ \A q \in Procs \ {p} : pc'[q] = pc[q] /\ job'[q] = job[q]
      /\ t \in Paths /\ listed' = listed /\ clash \subseteq clash'
      /\ \A u \in Paths \ {t} : dir'[u] = dir[u] /\ (u \in torn => u \in torn')
  BY DEF Job, store, history
<1>1. TypeOK'
  BY <1>0, BareIsCheckout DEF store, Labels, Job, history
<1>2. JobInv'
  BY <1>0 DEF store
<1>3. \A u \in Paths \ {t} : ~Inside(p, u) /\ ~Inside(p, u)'
  BY DEF Inside, Labels
<1>4. ASSUME t \notin clash'
      PROVE  /\ dir'[t] = dir[t] \/ Inside(p, t)
             /\ Inside(p, t)' =>
                  /\ Fits(p, t)'
                  /\ Inside(p, t) \/ \A q \in Procs \ {p} : ~Inside(q, t)
             /\ Manned(t)' /\ Whole(t)'
  BY <1>0, <1>4, CheckoutConstants, BareIsCheckout
     DEF Alone, Fits, Manned, Whole, IsCheckout, Inside, At, Labels, Building, Free
<1> QED
  BY <1>0, <1>1, <1>2, <1>3, <1>4, OwnStep

LEMMA CleanupHolds ==
    ASSUME CheckoutInv, NEW p \in Procs, Cleanup(p)
    PROVE  CheckoutInv'
<1> PICK t \in Paths : t = job[p].path /\ pc[p] # "idle"
  BY DEF CheckoutInv, JobInv, Job, Cleanup, Step, Done, Vacate
<1> USE DEF CheckoutInv, TypeOK, JobInv, Cleanup, Step, Done, Vacate
<1>0. /\ \A q \in Procs \ {p} : pc'[q] = pc[q] /\ job'[q] = job[q]
      /\ t \in Paths /\ listed' = listed /\ clash \subseteq clash'
      /\ \A u \in Paths \ {t} : dir'[u] = dir[u] /\ (u \in torn => u \in torn')
  BY DEF Job, store, history
<1>1. TypeOK'
  BY <1>0, BareIsCheckout DEF store, Labels, Job, history
<1>2. JobInv'
  BY <1>0 DEF store
<1>3. \A u \in Paths \ {t} : ~Inside(p, u) /\ ~Inside(p, u)'
  BY DEF Inside, Labels
<1>4. ASSUME t \notin clash'
      PROVE  /\ dir'[t] = dir[t] \/ Inside(p, t)
             /\ Inside(p, t)' =>
                  /\ Fits(p, t)'
                  /\ Inside(p, t) \/ \A q \in Procs \ {p} : ~Inside(q, t)
             /\ Manned(t)' /\ Whole(t)'
  BY <1>0, <1>4, CheckoutConstants, BareIsCheckout
     DEF Alone, Fits, Manned, Whole, IsCheckout, Inside, At, Labels, Building, Free
<1> QED
  BY <1>0, <1>1, <1>2, <1>3, <1>4, OwnStep

LEMMA StopHolds ==
    ASSUME CheckoutInv, NEW p \in Procs, Stop(p)
    PROVE  CheckoutInv'
<1> PICK t \in Paths : t = job[p].path /\ pc[p] # "idle"
  BY DEF CheckoutInv, JobInv, Job, Stop, Step, Done
<1> USE DEF CheckoutInv, TypeOK, JobInv, Stop, Step, Done
<1>0. /\ \A q \in Procs \ {p} : pc'[q] = pc[q] /\ job'[q] = job[q]
      /\ t \in Paths /\ listed' = listed /\ clash \subseteq clash'
      /\ \A u \in Paths \ {t} : dir'[u] = dir[u] /\ (u \in torn => u \in torn')
  BY DEF Job, store, history
<1>1. TypeOK'
  BY <1>0, BareIsCheckout DEF store, Labels, Job, history
<1>2. JobInv'
  BY <1>0 DEF store
<1>3. \A u \in Paths \ {t} : ~Inside(p, u) /\ ~Inside(p, u)'
  BY DEF Inside, Labels
<1>4. ASSUME t \notin clash'
      PROVE  /\ dir'[t] = dir[t] \/ Inside(p, t)
             /\ Inside(p, t)' =>
                  /\ Fits(p, t)'
                  /\ Inside(p, t) \/ \A q \in Procs \ {p} : ~Inside(q, t)
             /\ Manned(t)' /\ Whole(t)'
  BY <1>0, <1>4, CheckoutConstants, BareIsCheckout
     DEF Alone, Fits, Manned, Whole, IsCheckout, Inside, At, Labels, Building, Free
<1> QED
  BY <1>0, <1>1, <1>2, <1>3, <1>4, OwnStep

LEMMA KillAddHolds ==
    ASSUME CheckoutInv, NEW p \in Procs, KillAdd(p)
    PROVE  CheckoutInv'
<1> PICK t \in Paths : t = job[p].path /\ pc[p] # "idle"
  BY DEF CheckoutInv, JobInv, Job, KillAdd, Step, Done
<1> USE DEF CheckoutInv, TypeOK, JobInv, KillAdd, Step, Done
<1>0. /\ \A q \in Procs \ {p} : pc'[q] = pc[q] /\ job'[q] = job[q]
      /\ t \in Paths /\ listed' = listed /\ clash \subseteq clash'
      /\ \A u \in Paths \ {t} : dir'[u] = dir[u] /\ (u \in torn => u \in torn')
  BY DEF Job, store, history
<1>1. TypeOK'
  BY <1>0, BareIsCheckout DEF store, Labels, Job, history
<1>2. JobInv'
  BY <1>0 DEF store
<1>3. \A u \in Paths \ {t} : ~Inside(p, u) /\ ~Inside(p, u)'
  BY DEF Inside, Labels
<1>4. ASSUME t \notin clash'
      PROVE  /\ dir'[t] = dir[t] \/ Inside(p, t)
             /\ Inside(p, t)' =>
                  /\ Fits(p, t)'
                  /\ Inside(p, t) \/ \A q \in Procs \ {p} : ~Inside(q, t)
             /\ Manned(t)' /\ Whole(t)'
  BY <1>0, <1>4, CheckoutConstants, BareIsCheckout
     DEF Alone, Fits, Manned, Whole, IsCheckout, Inside, At, Labels, Building, Free
<1> QED
  BY <1>0, <1>1, <1>2, <1>3, <1>4, OwnStep

LEMMA RemoveHalfHolds ==
    ASSUME CheckoutInv, NEW p \in Procs, RemoveHalf(p)
    PROVE  CheckoutInv'
<1> PICK t \in Paths : t = job[p].path /\ pc[p] # "idle"
  BY DEF CheckoutInv, JobInv, Job, RemoveHalf, Step, Done
<1> USE DEF CheckoutInv, TypeOK, JobInv, RemoveHalf, Step, Done
<1>0. /\ \A q \in Procs \ {p} : pc'[q] = pc[q] /\ job'[q] = job[q]
      /\ t \in Paths /\ listed' = listed /\ clash \subseteq clash'
      /\ \A u \in Paths \ {t} : dir'[u] = dir[u] /\ (u \in torn => u \in torn')
  BY DEF Job, store, history
<1>5. /\ dir'[t] \in Checkout /\ dir' = [dir EXCEPT ![t] = dir'[t]]
      /\ dir'[t].marker \in {dir[t].marker, Nothing}
  <2>1. PICK d \in Some(dir[t].diff), m \in Some(dir[t].marker) :
           dir' = [dir EXCEPT ![t] = [diff |-> d, marker |-> m]]
    OBVIOUS
  <2>2. dir[t] \in Checkout
    BY DEF IsCheckout
  <2>3. d \in Diffs \cup {Nothing} /\ m \in PatchIds \cup {Nothing}
    BY <2>2 DEF Checkout, Some
  <2> QED
    BY <2>1, <2>3 DEF Checkout, Some
<1>1. TypeOK'
  BY <1>0, <1>5 DEF store, Labels, Job, history
<1>2. JobInv'
  BY <1>0 DEF store
<1>3. \A u \in Paths \ {t} : ~Inside(p, u) /\ ~Inside(p, u)'
  BY DEF Inside, Labels
<1>4. ASSUME t \notin clash'
      PROVE  /\ dir'[t] = dir[t] \/ Inside(p, t)
             /\ Inside(p, t)' =>
                  /\ Fits(p, t)'
                  /\ Inside(p, t) \/ \A q \in Procs \ {p} : ~Inside(q, t)
             /\ Manned(t)' /\ Whole(t)'
  BY <1>0, <1>4, <1>5, CheckoutConstants, BareIsCheckout
     DEF Alone, Fits, Manned, Whole, IsCheckout, Inside, At, Labels, Building, Free, Some
<1> QED
  BY <1>0, <1>1, <1>2, <1>3, <1>4, OwnStep

(* The user, and patches that arrive. *)
LEMMA UserHolds ==
    ASSUME CheckoutInv,
           \/ \E o \in Patches : Land(o)
           \/ \E id \in PatchIds : Retire(id)
           \/ MoveHead
           \/ \E t \in Paths : MakeDir(t) \/ PutFiles(t)
    PROVE  CheckoutInv'
<1> USE DEF CheckoutInv, Land, Retire, MoveHead, MakeDir, PutFiles, Free, store, history
<1>1. TypeOK'
  BY DEF TypeOK
<1>2. /\ pc' = pc /\ job' = job /\ clash \subseteq clash' /\ torn' = torn
      /\ listed \subseteq listed'
  OBVIOUS
<1>3. \A t \in Paths : \/ dir'[t] = dir[t]
                       \/ /\ ~IsCheckout(t) /\ ~IsCheckout(t)'
                          /\ dir'[t] \in Free \/ t \in clash' \/ \A p \in Procs : ~Inside(p, t)
  BY CheckoutConstants DEF IsCheckout, TypeOK
<1>4. \A p \in Procs, t \in Paths : (Inside(p, t)' <=> Inside(p, t)) /\ (At(p, t)' <=> At(p, t))
  BY <1>2 DEF Inside, At
<1>5. JobInv'
  BY <1>2 DEF JobInv
<1>6. Alone'
  <2>1. ASSUME NEW t \in Paths \ clash', NEW p \in Procs, Inside(p, t)
        PROVE  Fits(p, t)' /\ \A q \in Procs : Inside(q, t) => q = p
    <3>1. /\ Fits(p, t) /\ \A q \in Procs : Inside(q, t) => q = p
          /\ dir'[t] = dir[t] \/ (dir'[t] \in Free /\ ~IsCheckout(t))
      BY <1>2, <1>3, <2>1 DEF Alone
    <3> QED
      BY <1>2, <3>1 DEF Fits, IsCheckout, Building
  <2> QED
    BY <1>4, <2>1 DEF Alone
<1>7. \A t \in Paths \ clash' : Manned(t)' /\ Whole(t)'
  BY <1>2, <1>3, <1>4 DEF Manned, Whole, IsCheckout
<1> QED
  BY <1>1, <1>5, <1>6, <1>7

LEMMA StutterHolds ==
    ASSUME CheckoutInv, UNCHANGED vars
    PROVE  CheckoutInv'
  BY DEF CheckoutInv, TypeOK, JobInv, Alone, Fits, Manned, Whole, Inside, At, IsCheckout,
         vars, store, history

LEMMA NextHolds == CheckoutInv /\ [Next]_vars => CheckoutInv'
<1> SUFFICES ASSUME CheckoutInv, [Next]_vars PROVE CheckoutInv'
  OBVIOUS
<1>1. ASSUME NEW p \in Procs, PatchCheckout(p) PROVE CheckoutInv'
  BY <1>1, StartHolds, BeforeWorkHolds, ReplaceHolds, RemoveOldHolds, AddLooksHolds,
     AddTreeHolds, AddUndoneHolds, ApplyTreeHolds, MarkHolds, TreeFailsHolds,
     CleanupHolds, StopHolds, KillAddHolds, RemoveHalfHolds DEF PatchCheckout
<1> QED
  BY <1>1, UserHolds, StutterHolds DEF Next

THEOREM InvariantHolds == Spec => []CheckoutInv
  BY InitHolds, NextHolds, PTL DEF Spec

(* A marked review checkout holds a diff of the patch it is marked with,   *)
(* for patch_checkout writes the marker last, on every path where no two   *)
(* checkouts were at work at once; where one died or a removal was cut     *)
(* short the marker still names a patch on record.                         *)
THEOREM MarkedCheckoutsAreWhole == Spec => []MarkedWhole
<1>1. CheckoutInv => MarkedWhole
  BY DEF CheckoutInv, Whole, MarkedWhole
<1> QED
  BY <1>1, InvariantHolds, PTL

(* The cleanup of patch_checkout leaves no unmarked worktree, which --force *)
(* would refuse, unless the command died or two were at work at once.      *)
THEOREM LeftoversAreMarked == Spec => []LeftoversMarked
<1>1. CheckoutInv => LeftoversMarked
  BY DEF CheckoutInv, Manned, LeftoversMarked, At, Inside, Building, Labels
<1> QED
  BY <1>1, InvariantHolds, PTL

(* prepare_review_checkout_path, git worktree add and the cleanup take     *)
(* nothing away but what the command made, was forced to replace or found  *)
(* empty: not the files of the user, not another checkout, unless they     *)
(* came while the command was at work on the path.                         *)
THEOREM OthersAreUntouched == Spec => Untouched
<1> DEFINE Same(t) ==
      /\ dir[t] = Foreign => dir'[t] = Foreign
      /\ IsCheckout(t) /\ dir[t].marker # Nothing =>
           \/ dir'[t] = dir[t]
           \/ \E p \in Procs : /\ pc[p] = "remove" /\ job[p].path = t
                               /\ job[p].id = dir[t].marker
<1>1. ASSUME CheckoutInv, [Next]_vars PROVE [\A t \in Paths \ clash' : Same(t)]_vars
  <2> SUFFICES ASSUME Next, NEW t \in Paths \ clash' PROVE Same(t)
    BY <1>1
  <2>0. t \in Paths /\ dir \in [Paths -> Checkout \cup {Absent, Empty, Foreign}]
    BY <1>1 DEF CheckoutInv, TypeOK
  <2>1. ASSUME NEW p \in Procs, PatchCheckout(p) PROVE Same(t)
    <3> USE DEF Step, Done, Vacate, Enter, history, PatchCheckout, StartCheckout, TakePath,
                Replace, RemoveOld, AddLooks, AddFails, AddTree, AddUndone, ApplyTree,
                Mark, TreeFails, Cleanup, Stop, KillAdd, RemoveHalf
    <3>1. t \notin clash
      BY <2>1
    <3>2. CASE dir'[t] = dir[t]
      BY <3>2
    <3>3. CASE dir'[t] # dir[t]
      <4>1. job[p].path = t
        BY <2>0, <2>1, <3>3
      <4>2. pc[p] \in Labels
        BY <2>1, <3>3 DEF Labels
      <4>3. Fits(p, t)
        BY <1>1, <3>1, <4>1, <4>2 DEF CheckoutInv, Alone, Inside
      <4> QED
        BY <4>1, <4>2, <4>3, CheckoutConstants DEF Fits, IsCheckout, Free, Labels, Building
    <3> QED
      BY <3>2, <3>3
  <2>2. CASE \/ \E o \in Patches : Land(o)
             \/ \E id \in PatchIds : Retire(id)
             \/ MoveHead
             \/ \E u \in Paths : MakeDir(u) \/ PutFiles(u)
    BY <2>0, <2>2, CheckoutConstants
       DEF Land, Retire, MoveHead, MakeDir, PutFiles, Free, IsCheckout, store
  <2> QED
    BY <2>1, <2>2 DEF Next
<1> QED
  BY <1>1, InvariantHolds, PTL DEF Spec, Untouched

----------------------------------------------------------------------------
(* 2. patch apply                                                          *)

ApplyJob ==
    [op : {"apply", "checkout"}, id : PatchIds, diff : Diffs, key : Keys \cup {NoKey},
     any : BOOLEAN, stamp : Stamps \cup {NoStamp}]

Busy ==
    \A p \in Procs : /\ pc[p] # "idle" => job[p] \in ApplyJob
                     /\ WithTemp(p) => job[p].stamp \in Stamps

ApplyTypeOK ==
    /\ listed \subseteq Patches
    /\ apps \subseteq [id : PatchIds, key : Keys \cup {NoKey}, diff : Diffs, no : Nat]
    /\ IsFiniteSet(apps) /\ pulled \subseteq PatchIds \X Keys
    /\ committed \subseteq Diffs \cup {Own} /\ dirty \subseteq Diffs \cup {Own}
    /\ temp \in [PatchIds \X Stamps -> Diffs \cup {NoFile}]
    /\ pc \in [Procs -> {"idle", "temp", "review", "replay", "clean", "apply", "record"}]
    /\ job \in [Procs -> ApplyJob \cup {Idle}]
    /\ Busy

RecordedHere(id, key) == \E a \in apps : a.id = id /\ a.key = key

(* An apply that has passed the lookup of its key is the only one, and is  *)
(* not on record yet, unless it overlapped with another one there.         *)
LookedUp ==
    \A p \in Procs :
      LET j == job[p] IN
      pc[p] \in {"clean", "apply", "record"} /\ j.key # NoKey
          /\ <<j.id, j.key>> \notin rivals =>
        /\ ~RecordedHere(j.id, j.key)
        /\ \A q \in Procs : Applying(q, j.id, j.key) => q = p

(* What an apply finds in its temp file is its own diff, or one that is    *)
(* known to have been written there by another command.                    *)
OwnTemp ==
    \A p \in Procs : WithTemp(p) =>
      temp[TempName(job[p])] \in {NoFile, job[p].diff} \cup lost

ApplyInv ==
    ApplyTypeOK /\ LookedUp /\ OneApplicationPerKey /\ OwnTemp /\ AppliedRecorded

LEMMA ApplyInitInv == ApplyInit => ApplyInv
<1> SUFFICES ASSUME ApplyInit PROVE ApplyInv
  OBVIOUS
<1> USE DEF ApplyInit
<1>1. ApplyTypeOK
  BY FS_EmptySet DEF ApplyTypeOK, Busy, WithTemp
<1>2. LookedUp /\ OneApplicationPerKey /\ OwnTemp /\ AppliedRecorded
  BY DEF LookedUp, OneApplicationPerKey, OwnTemp, AppliedRecorded, WithTemp
<1> QED
  BY <1>1, <1>2 DEF ApplyInv

LEMMA TempNames ==
    ASSUME ApplyTypeOK, NEW p \in Procs, WithTemp(p)
    PROVE  job[p] \in ApplyJob /\ TempName(job[p]) \in PatchIds \X Stamps
<1>1. job[p] \in ApplyJob /\ job[p].stamp \in Stamps
  <2>1. Busy
    BY DEF ApplyTypeOK
  <2> QED
    BY <2>1 DEF Busy, WithTemp
<1>2. job[p].id \in PatchIds
  BY <1>1 DEF ApplyJob
<1> QED
  BY <1>1, <1>2 DEF TempName

(* The command that ends is out of the way, with its temp file. *)
LEMMA EndApplyFacts ==
    ASSUME ApplyTypeOK, NEW p \in Procs, NEW l, EndApply(p, l)
    PROVE  /\ pc' = [pc EXCEPT ![p] = "idle"] /\ job' = [job EXCEPT ![p] = Idle]
           /\ pc \in [Procs -> {"idle", "temp", "review", "replay", "clean", "apply", "record"}]
           /\ job \in [Procs -> ApplyJob \cup {Idle}]
           /\ temp' \in [PatchIds \X Stamps -> Diffs \cup {NoFile}]
           /\ \A f \in PatchIds \X Stamps : temp'[f] \in {NoFile, temp[f]}
<1> USE DEF ApplyTypeOK, EndApply, Step
<1>1. CASE WithTemp(p)
  <2>1. temp' = [temp EXCEPT ![TempName(job[p])] = NoFile]
    BY <1>1
  <2> QED
    BY <2>1
<1>2. CASE ~WithTemp(p)
  BY <1>2
<1> QED
  BY <1>1, <1>2

(* A command that ends, for whatever reason, leaves the others as they are. *)
LEMMA EndKeeps ==
    ASSUME ApplyInv, NEW p \in Procs,
           pc' = [pc EXCEPT ![p] = "idle"], job' = [job EXCEPT ![p] = Idle],
           temp' \in [PatchIds \X Stamps -> Diffs \cup {NoFile}],
           \A f \in PatchIds \X Stamps : temp'[f] \in {NoFile, temp[f]},
           UNCHANGED <<objects, main, rivals>>,
           lost \subseteq lost', pc[p] = "record" => job[p].diff \in lost'
    PROVE  ApplyInv'
<1> USE DEF objects, main
<1>1. ApplyTypeOK
  BY DEF ApplyInv
<1>2. /\ pc'[p] = "idle"
      /\ \A q \in Procs \ {p} : pc'[q] = pc[q] /\ job'[q] = job[q]
  BY <1>1 DEF ApplyTypeOK
<1>3. ApplyTypeOK'
  BY <1>1, <1>2 DEF ApplyTypeOK, Busy, WithTemp
<1>4. LookedUp'
  BY <1>2 DEF ApplyInv, LookedUp, RecordedHere, Applying
<1>5. OneApplicationPerKey'
  BY DEF ApplyInv, OneApplicationPerKey
<1>6. OwnTemp'
  <2> SUFFICES ASSUME NEW q \in Procs, WithTemp(q)'
               PROVE  temp'[TempName(job'[q])] \in {NoFile, job'[q].diff} \cup lost'
    BY DEF OwnTemp, TempName
  <2>1. q # p /\ WithTemp(q) /\ job'[q] = job[q]
    BY <1>2 DEF WithTemp
  <2>2. TempName(job[q]) \in PatchIds \X Stamps
    BY <1>1, <2>1, TempNames
  <2> QED
    BY <2>1, <2>2 DEF ApplyInv, OwnTemp
<1>7. AppliedRecorded'
  BY <1>2 DEF ApplyInv, AppliedRecorded
<1> QED
  BY <1>3, <1>4, <1>5, <1>6, <1>7 DEF ApplyInv

(* An apply or a checkout that begins. *)
LEMMA StartKeeps ==
    ASSUME ApplyInv, NEW p \in Procs, NEW j \in ApplyJob, Begin(p, "temp", j),
           UNCHANGED <<objects, main, temp, exceptions>>
    PROVE  ApplyInv'
<1>1. ApplyTypeOK
  BY DEF ApplyInv
<1>2. /\ pc[p] = "idle" /\ pc' = [pc EXCEPT ![p] = "temp"] /\ job' = [job EXCEPT ![p] = j]
      /\ UNCHANGED <<listed, apps, pulled, committed, dirty, temp, rivals, lost>>
  BY DEF Begin, objects, main, exceptions
<1>3. /\ pc'[p] = "temp" /\ job'[p] = j
      /\ \A q \in Procs \ {p} : pc'[q] = pc[q] /\ job'[q] = job[q]
  BY <1>1, <1>2 DEF ApplyTypeOK
<1>4. ApplyTypeOK'
  BY <1>1, <1>2, <1>3 DEF ApplyTypeOK, Busy, WithTemp
<1>5. LookedUp' /\ OneApplicationPerKey'
  BY <1>2, <1>3 DEF ApplyInv, LookedUp, OneApplicationPerKey, RecordedHere, Applying
<1>6. OwnTemp'
  BY <1>2, <1>3 DEF ApplyInv, OwnTemp, WithTemp, TempName
<1>7. AppliedRecorded'
  BY <1>2, <1>3 DEF ApplyInv, AppliedRecorded
<1> QED
  BY <1>4, <1>5, <1>6, <1>7 DEF ApplyInv

LEMMA StartApplyKeeps ==
    ASSUME ApplyInv, NEW p \in Procs, NEW o \in Patches, NEW key \in Keys \cup {NoKey},
           NEW drift \in BOOLEAN, NEW any \in BOOLEAN, StartApply(p, o, key, drift, any)
    PROVE  ApplyInv'
<1>1. [op |-> "apply", id |-> o.id, diff |-> o.diff,
       key |-> key, any |-> any, stamp |-> NoStamp] \in ApplyJob
  BY DEF ApplyJob, PatchIds, Diffs
<1> QED
  BY <1>1, StartKeeps DEF StartApply

LEMMA StartReviewKeeps ==
    ASSUME ApplyInv, NEW p \in Procs, NEW o \in Patches, NEW drift \in BOOLEAN,
           StartReview(p, o, drift)
    PROVE  ApplyInv'
<1>1. [op |-> "checkout", id |-> o.id, diff |-> o.diff,
       key |-> NoKey, any |-> FALSE, stamp |-> NoStamp] \in ApplyJob
  BY DEF ApplyJob, PatchIds, Diffs
<1> QED
  BY <1>1, StartKeeps DEF StartReview

(* The temp file of a command holds its diff; whoever has the same name    *)
(* and another diff has been noted.                                        *)
LEMMA MakeTempKeeps ==
    ASSUME ApplyInv, NEW p \in Procs, NEW stamp \in Stamps, MakeTemp(p, stamp)
    PROVE  ApplyInv'
<1> DEFINE j == [job[p] EXCEPT !.stamp = stamp]
           twins == {q \in Procs : /\ WithTemp(q) /\ job[q].diff # j.diff
                                   /\ job[q].id = j.id /\ job[q].stamp = stamp}
<1>1. ApplyTypeOK /\ pc[p] = "temp" /\ job[p] \in ApplyJob
  <2>1. ApplyTypeOK /\ Busy /\ pc[p] = "temp"
    BY DEF ApplyInv, ApplyTypeOK, MakeTemp, Step
  <2> QED
    BY <2>1 DEF Busy
<1>2. /\ j \in ApplyJob /\ j.stamp = stamp /\ j.id = job[p].id /\ j.diff = job[p].diff
      /\ j.key = job[p].key /\ j.diff \in Diffs /\ TempName(j) = <<j.id, stamp>>
      /\ TempName(j) \in PatchIds \X Stamps
  BY <1>1 DEF ApplyJob, TempName
<1>3. /\ pc' = [pc EXCEPT ![p] = pc'[p]] /\ pc'[p] \in {"review", "replay"}
      /\ job' = [job EXCEPT ![p] = j]
      /\ temp' = [temp EXCEPT ![TempName(j)] = j.diff]
      /\ lost \subseteq lost' /\ \A q \in twins : j.diff \in lost'
      /\ UNCHANGED <<listed, apps, pulled, committed, dirty, rivals>>
  BY <1>1 DEF MakeTemp, Step, ApplyTypeOK, objects, main
<1> HIDE DEF j
<1>4. /\ job'[p] = j
      /\ \A q \in Procs \ {p} : pc'[q] = pc[q] /\ job'[q] = job[q]
  BY <1>1, <1>3 DEF ApplyTypeOK
<1>5. ApplyTypeOK'
  <2>1. temp' \in [PatchIds \X Stamps -> Diffs \cup {NoFile}]
    BY <1>1, <1>2, <1>3 DEF ApplyTypeOK
  <2> QED
    BY <1>1, <1>2, <1>3, <1>4, <2>1 DEF ApplyTypeOK, Busy, WithTemp
<1>6. LookedUp' /\ OneApplicationPerKey'
  BY <1>3, <1>4 DEF ApplyInv, LookedUp, OneApplicationPerKey, RecordedHere, Applying
<1>7. OwnTemp'
  <2> SUFFICES ASSUME NEW q \in Procs, WithTemp(q)'
               PROVE  temp'[TempName(job'[q])] \in {NoFile, job'[q].diff} \cup lost'
    BY DEF OwnTemp, TempName
  <2>1. CASE q = p
    BY <1>1, <1>2, <1>3, <1>4, <2>1 DEF ApplyTypeOK
  <2>2. CASE q # p /\ TempName(job[q]) = TempName(j)
    <3>1. q \in twins \/ job[q].diff = j.diff
      BY <1>2, <1>4, <2>2 DEF WithTemp, TempName
    <3> QED
      BY <1>1, <1>2, <1>3, <1>4, <2>2, <3>1 DEF ApplyTypeOK
  <2>3. CASE q # p /\ TempName(job[q]) # TempName(j)
    <3>1. WithTemp(q) /\ job'[q] = job[q]
      BY <1>4, <2>3 DEF WithTemp
    <3>2. temp'[TempName(job[q])] = temp[TempName(job[q])]
      BY <1>1, <1>2, <1>3, <2>3, <3>1, TempNames DEF ApplyTypeOK
    <3> QED
      BY <1>3, <3>1, <3>2 DEF ApplyInv, OwnTemp
  <2> QED
    BY <2>1, <2>2, <2>3
<1>8. AppliedRecorded'
  BY <1>1, <1>3, <1>4 DEF ApplyInv, AppliedRecorded
<1> QED
  BY <1>5, <1>6, <1>7, <1>8 DEF ApplyInv

(* Only the first of several applies of one key gets past the lookup       *)
(* without a note.                                                         *)
LEMMA LookupKeeps ==
    ASSUME ApplyInv, NEW p \in Procs, Lookup(p)
    PROVE  ApplyInv'
<1>1. ApplyTypeOK
  BY DEF ApplyInv
<1>2. /\ pc[p] = "replay" /\ pc' = [pc EXCEPT ![p] = "clean"]
      /\ job[p].key # NoKey => ~RecordedHere(job[p].id, job[p].key)
      /\ UNCHANGED <<listed, apps, pulled, committed, dirty, temp, job, lost>>
      /\ rivals \subseteq rivals'
      /\ job[p].key # NoKey => \A q \in Procs \ {p} : Applying(q, job[p].id, job[p].key) =>
           <<job[p].id, job[p].key>> \in rivals'
  BY DEF Lookup, Proceed, Step, Applied, RecordedHere, objects, main
<1>3. pc'[p] = "clean" /\ \A q \in Procs \ {p} : pc'[q] = pc[q]
  BY <1>1, <1>2 DEF ApplyTypeOK
<1>4. ApplyTypeOK'
  BY <1>1, <1>2, <1>3 DEF ApplyTypeOK, Busy, WithTemp
<1>5. LookedUp'
  <2> SUFFICES ASSUME NEW q \in Procs, pc'[q] \in {"clean", "apply", "record"},
                      job[q].key # NoKey, <<job[q].id, job[q].key>> \notin rivals'
               PROVE  /\ ~RecordedHere(job[q].id, job[q].key)
                      /\ \A u \in Procs : pc'[u] \in {"clean", "apply", "record"}
                           /\ job[u].id = job[q].id /\ job[u].key = job[q].key => u = q
    BY <1>2 DEF LookedUp, RecordedHere, Applying
  <2>1. CASE q = p
    BY <1>2, <1>3, <2>1 DEF Applying
  <2>2. CASE q # p
    <3>1. /\ ~RecordedHere(job[q].id, job[q].key)
          /\ \A u \in Procs : Applying(u, job[q].id, job[q].key) => u = q
      BY <1>2, <1>3, <2>2 DEF ApplyInv, LookedUp
    <3>2. ~(job[p].id = job[q].id /\ job[p].key = job[q].key)
      BY <1>2, <1>3, <2>2 DEF Applying
    <3> QED
      BY <1>3, <3>1, <3>2 DEF Applying
  <2> QED
    BY <2>1, <2>2
<1>6. OneApplicationPerKey'
  BY <1>2 DEF ApplyInv, OneApplicationPerKey
<1>7. OwnTemp'
  BY <1>2, <1>3 DEF ApplyInv, OwnTemp, WithTemp, TempName
<1>8. AppliedRecorded'
  BY <1>2, <1>3 DEF ApplyInv, AppliedRecorded
<1> QED
  BY <1>4, <1>5, <1>6, <1>7, <1>8 DEF ApplyInv

LEMMA CheckCleanKeeps ==
    ASSUME ApplyInv, NEW p \in Procs, CheckClean(p)
    PROVE  ApplyInv'
<1>1. ApplyTypeOK /\ pc[p] = "clean" /\ job[p] \in ApplyJob /\ job[p].stamp \in Stamps
  <2>1. ApplyTypeOK /\ Busy /\ pc[p] = "clean"
    BY DEF ApplyInv, ApplyTypeOK, CheckClean, Step
  <2> QED
    BY <2>1 DEF Busy, WithTemp
<1>2. /\ pc' = [pc EXCEPT ![p] = "apply"] /\ job' = [job EXCEPT ![p].any = FALSE]
      /\ UNCHANGED <<listed, apps, pulled, committed, dirty, temp, rivals, lost>>
  BY DEF CheckClean, Step, objects, main, exceptions
<1>3. /\ pc'[p] = "apply" /\ \A q \in Procs \ {p} : pc'[q] = pc[q] /\ job'[q] = job[q]
      /\ job'[p] \in ApplyJob /\ job' = [job EXCEPT ![p] = job'[p]]
      /\ job'[p].id = job[p].id /\ job'[p].key = job[p].key
      /\ job'[p].diff = job[p].diff /\ job'[p].stamp = job[p].stamp
  BY <1>1, <1>2 DEF ApplyTypeOK, ApplyJob
<1>4. ApplyTypeOK'
  BY <1>1, <1>2, <1>3 DEF ApplyTypeOK, Busy, WithTemp
<1>5. LookedUp' /\ OneApplicationPerKey'
  BY <1>1, <1>2, <1>3 DEF ApplyInv, LookedUp, OneApplicationPerKey, RecordedHere, Applying
<1>6. OwnTemp' /\ AppliedRecorded'
  BY <1>1, <1>2, <1>3 DEF ApplyInv, OwnTemp, AppliedRecorded, WithTemp, TempName
<1> QED
  BY <1>4, <1>5, <1>6 DEF ApplyInv

(* git apply puts the diff of the apply into the tree, or one that was     *)
(* noted when the temp file was made again.                                *)
LEMMA ApplyKeeps ==
    ASSUME ApplyInv, NEW p \in Procs, Apply(p)
    PROVE  ApplyInv'
<1> DEFINE diff == temp[TempName(job[p])]
<1>1. ApplyTypeOK
  BY DEF ApplyInv
<1>2. /\ pc[p] = "apply" /\ pc' = [pc EXCEPT ![p] = "record"]
      /\ diff # NoFile /\ dirty' = dirty \cup {diff}
      /\ UNCHANGED <<listed, apps, pulled, committed, temp, job, rivals, lost>>
  BY DEF Apply, Step, objects, exceptions
<1>3. WithTemp(p) /\ diff \in Diffs /\ diff \in {job[p].diff} \cup lost
  <2>1. WithTemp(p) /\ TempName(job[p]) \in PatchIds \X Stamps
    BY <1>1, <1>2, TempNames DEF WithTemp
  <2> QED
    BY <1>1, <1>2, <2>1 DEF ApplyTypeOK, ApplyInv, OwnTemp
<1> HIDE DEF diff
<1>4. pc'[p] = "record" /\ \A q \in Procs \ {p} : pc'[q] = pc[q]
  BY <1>1, <1>2 DEF ApplyTypeOK
<1>5. ApplyTypeOK'
  BY <1>1, <1>2, <1>3, <1>4 DEF ApplyTypeOK, Busy, WithTemp
<1>6. LookedUp' /\ OneApplicationPerKey'
  BY <1>2, <1>4 DEF ApplyInv, LookedUp, OneApplicationPerKey, RecordedHere, Applying
<1>7. OwnTemp'
  BY <1>2, <1>4 DEF ApplyInv, OwnTemp, WithTemp, TempName
<1>8. AppliedRecorded'
  BY <1>2, <1>3, <1>4 DEF ApplyInv, AppliedRecorded
<1> QED
  BY <1>5, <1>6, <1>7, <1>8 DEF ApplyInv

(* The record is the first one of its key, unless applies overlapped. *)
LEMMA RecordKeeps ==
    ASSUME ApplyInv, NEW p \in Procs, Record(p)
    PROVE  ApplyInv'
<1> DEFINE j == job[p]
           same == {b \in apps : b.id = j.id /\ b.key = j.key /\ b.diff = j.diff}
           a == [id |-> j.id, key |-> j.key, diff |-> j.diff, no |-> Cardinality(same) + 1]
<1>1. ApplyTypeOK /\ pc[p] = "record" /\ j \in ApplyJob
  <2>1. ApplyTypeOK /\ Busy /\ pc[p] = "record"
    BY DEF ApplyInv, ApplyTypeOK, Record, EndApply, Step
  <2> QED
    BY <2>1 DEF Busy
<1>2. /\ EndApply(p, "record") /\ apps' = apps \cup {a}
      /\ UNCHANGED <<listed, pulled, committed, dirty, rivals, lost>>
  BY DEF Record, main, exceptions
<1>3. /\ pc' = [pc EXCEPT ![p] = "idle"] /\ job' = [job EXCEPT ![p] = Idle]
      /\ temp' \in [PatchIds \X Stamps -> Diffs \cup {NoFile}]
      /\ \A f \in PatchIds \X Stamps : temp'[f] \in {NoFile, temp[f]}
  BY <1>1, <1>2, EndApplyFacts
<1>4. /\ pc'[p] = "idle"
      /\ \A q \in Procs \ {p} : pc'[q] = pc[q] /\ job'[q] = job[q]
  BY <1>1, <1>3 DEF ApplyTypeOK
<1>5. /\ a \in [id : PatchIds, key : Keys \cup {NoKey}, diff : Diffs, no : Nat]
      /\ a.id = j.id /\ a.key = j.key /\ a.diff = j.diff
      /\ IsFiniteSet(apps')
  <2>1. Cardinality(same) \in Nat
    <3>1. IsFiniteSet(same)
      BY <1>1, FS_Subset DEF ApplyTypeOK
    <3> QED
      BY <3>1, FS_CardinalityType
  <2>2. IsFiniteSet(apps \cup {a})
    BY <1>1, FS_AddElement DEF ApplyTypeOK
  <2> QED
    BY <1>1, <1>2, <2>1, <2>2 DEF ApplyJob
<1> HIDE DEF a
<1>6. ApplyTypeOK'
  BY <1>1, <1>2, <1>3, <1>4, <1>5 DEF ApplyTypeOK, Busy, WithTemp
<1>7. a.key # NoKey /\ <<a.id, a.key>> \notin rivals =>
        /\ ~RecordedHere(a.id, a.key)
        /\ \A q \in Procs : Applying(q, a.id, a.key) => q = p
  BY <1>1, <1>5 DEF ApplyInv, LookedUp
<1>8. LookedUp'
  <2> SUFFICES ASSUME NEW q \in Procs, pc'[q] \in {"clean", "apply", "record"},
                      job'[q].key # NoKey, <<job'[q].id, job'[q].key>> \notin rivals
               PROVE  /\ ~(\E b \in apps' : b.id = job'[q].id /\ b.key = job'[q].key)
                      /\ \A u \in Procs : pc'[u] \in {"clean", "apply", "record"}
                           /\ job'[u].id = job'[q].id /\ job'[u].key = job'[q].key => u = q
    BY <1>2 DEF LookedUp, RecordedHere, Applying
  <2>1. q # p /\ job'[q] = job[q] /\ pc'[q] = pc[q]
    BY <1>4
  <2>2. /\ ~RecordedHere(job[q].id, job[q].key)
        /\ \A u \in Procs : Applying(u, job[q].id, job[q].key) => u = q
    BY <2>1 DEF ApplyInv, LookedUp
  <2>3. ~(a.id = job[q].id /\ a.key = job[q].key)
    BY <1>7, <2>1 DEF Applying
  <2> QED
    BY <1>2, <1>4, <2>1, <2>2, <2>3 DEF RecordedHere, Applying
<1>9. OneApplicationPerKey'
  BY <1>2, <1>5, <1>7 DEF ApplyInv, OneApplicationPerKey, RecordedHere
<1>10. OwnTemp'
  <2> SUFFICES ASSUME NEW q \in Procs, WithTemp(q)'
               PROVE  temp'[TempName(job'[q])] \in {NoFile, job'[q].diff} \cup lost'
    BY DEF OwnTemp, TempName
  <2>1. q # p /\ WithTemp(q) /\ job'[q] = job[q]
    BY <1>4 DEF WithTemp
  <2>2. TempName(job[q]) \in PatchIds \X Stamps
    BY <1>1, <2>1, TempNames
  <2> QED
    BY <1>2, <1>3, <2>1, <2>2 DEF ApplyInv, OwnTemp
<1>11. AppliedRecorded'
  BY <1>1, <1>2, <1>4, <1>5 DEF ApplyInv, AppliedRecorded
<1> QED
  BY <1>6, <1>8, <1>9, <1>10, <1>11 DEF ApplyInv

LEMMA EndingKeeps ==
    ASSUME ApplyInv, NEW p \in Procs, EndReview(p) \/ Replay(p) \/ Fail(p) \/ Kill(p)
    PROVE  ApplyInv'
<1>1. ApplyTypeOK
  BY DEF ApplyInv
<1>2. CASE Replay(p)
  <2>1. EndApply(p, "replay") /\ pc[p] = "replay" /\ UNCHANGED <<objects, main, rivals, lost>>
    BY <1>2 DEF Replay, exceptions
  <2> QED
    BY <1>1, <2>1, EndApplyFacts, EndKeeps
<1>3. CASE Fail(p)
  <2>1. /\ EndApply(p, pc[p]) /\ UNCHANGED <<objects, main, rivals>>
        /\ lost \subseteq lost' /\ (pc[p] = "record" => job[p].diff \in lost')
    BY <1>3 DEF Fail
  <2> QED
    BY <1>1, <2>1, EndApplyFacts, EndKeeps
<1>4. CASE Kill(p)
  <2>1. /\ pc' = [pc EXCEPT ![p] = "idle"] /\ job' = [job EXCEPT ![p] = Idle]
        /\ temp' = temp /\ UNCHANGED <<objects, main, rivals>>
        /\ lost \subseteq lost' /\ (pc[p] = "record" => job[p].diff \in lost')
    BY <1>4 DEF Kill
  <2> QED
    BY <1>1, <2>1, EndKeeps DEF ApplyTypeOK
<1>5. CASE EndReview(p)
  <2>1. EndApply(p, "review") /\ pc[p] = "review" /\ UNCHANGED <<objects, main, rivals, lost>>
    BY <1>5 DEF EndReview, EndApply, Step, exceptions
  <2> QED
    BY <1>1, <2>1, EndApplyFacts, EndKeeps
<1> QED
  BY <1>2, <1>3, <1>4, <1>5

(* The store and the user. *)
LEMMA OutsideKeeps ==
    ASSUME ApplyInv,
           \/ \E o \in Patches : LandPatch(o)
           \/ \E id \in PatchIds, key \in Keys : LandApplication(id, key)
           \/ EditMain \/ Commit \/ Reset \/ UNCHANGED applyVars
    PROVE  ApplyInv'
<1> USE DEF LandPatch, LandApplication, EditMain, Commit, Reset, applyVars, objects, main, exceptions
<1>1. /\ UNCHANGED <<apps, temp, pc, job, rivals, lost>>
      /\ listed' \subseteq Patches /\ pulled' \subseteq PatchIds \X Keys
      /\ committed' \cup dirty' \subseteq committed \cup dirty \cup {Own}
  BY DEF ApplyInv, ApplyTypeOK
<1>2. ApplyTypeOK'
  BY <1>1 DEF ApplyInv, ApplyTypeOK, Busy, WithTemp
<1>3. LookedUp' /\ OneApplicationPerKey' /\ OwnTemp'
  BY <1>1 DEF ApplyInv, LookedUp, OneApplicationPerKey, OwnTemp, RecordedHere, Applying,
              WithTemp, TempName
<1>4. AppliedRecorded'
  BY <1>1, ApplyConstants DEF ApplyInv, AppliedRecorded
<1> QED
  BY <1>2, <1>3, <1>4 DEF ApplyInv

LEMMA ApplyStepKeeps == ApplyInv /\ [ApplyNext]_applyVars => ApplyInv'
<1> SUFFICES ASSUME ApplyInv, [ApplyNext]_applyVars PROVE ApplyInv'
  OBVIOUS
<1>1. ASSUME NEW p \in Procs, PatchApply(p) PROVE ApplyInv'
  BY <1>1, StartApplyKeeps, StartReviewKeeps, MakeTempKeeps, LookupKeeps, CheckCleanKeeps, ApplyKeeps,
     RecordKeeps, EndingKeeps DEF PatchApply
<1>2. CASE \/ \E o \in Patches : LandPatch(o)
           \/ \E id \in PatchIds, key \in Keys : LandApplication(id, key)
           \/ EditMain \/ Commit \/ Reset \/ UNCHANGED applyVars
  BY <1>2, OutsideKeeps
<1> QED
  BY <1>1, <1>2 DEF ApplyNext

LEMMA ApplyInvariant == ApplySpec => []ApplyInv
BY ApplyInitInv, ApplyStepKeeps, PTL DEF ApplySpec

(* patch_apply, --idempotency-key: a retried apply of this clone is        *)
(* recorded once per patch and key, for any number of applies at once,     *)
(* whatever other clones record, unless two of them were between the       *)
(* lookup and the record together.                                         *)
THEOREM AppliesAreRecordedOnce == ApplySpec => []OneApplicationPerKey
BY ApplyInvariant, PTL DEF ApplyInv

(* patch_apply: a diff in the main tree is on record or about to be,       *)
(* whatever the user, other applies and checkouts of the same patch do,    *)
(* but for the two exceptions that `lost' names.                           *)
THEOREM AppliedDiffsAreRecorded == ApplySpec => []AppliedRecorded
BY ApplyInvariant, PTL DEF ApplyInv
=============================================================================
