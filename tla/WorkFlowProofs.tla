--------------------------- MODULE WorkFlowProofs ---------------------------
(***************************************************************************)
(* Proofs about WorkFlow for any number of processes, attempts and         *)
(* objects.  Objects are only ever added, so what a process has seen of    *)
(* them stays true; the invariant says what that is at each label.         *)
(***************************************************************************)
EXTENDS WorkFlow, TLAPS

(* pc and job are functions of the process. *)
Shape == /\ pc = [p \in Procs |-> pc[p]]
         /\ job = [p \in Procs |-> job[p]]

(* A patch that may be stored: its diff is one of its changes' diffs. *)
Sound(o) ==
    /\ o.id \in Ids /\ o.diff \in Diffs \cup {Partial}
    /\ \E c \in o.changes : c.diff = o.diff
    /\ o.changes \subseteq Of(o.id, changes)
    /\ Of(o.id, attempts) # {}

(* What a command has seen and holds. *)
Holds(p) ==
    /\ pc[p] \in {"intent", "worktree", "add", "fill", "attempt", "exec"} => job[p].att \in Starts
    /\ pc[p] \in {"worktree", "add", "fill"} /\ job[p].op = "start" => Backed(job[p].att.id)
    /\ pc[p] = "attempt" => Backed(job[p].att.id)
    /\ pc[p] \in {"trace", "run"} => job[p].run \in Run
    /\ pc[p] = "run" => job[p].run \in traces
    /\ pc[p] = "move" =>
         /\ job[p].att \in attempts /\ job[p].op \in Statuses
         /\ job[p].op = "submitted" => Of(job[p].att.id, patches) # {}
    /\ pc[p] = "change" =>
         /\ job[p].att \in attempts
         /\ job[p].diff \in Diffs \cup {Partial}
         /\ job[p].diff = Partial => job[p].att.id \in early
    /\ pc[p] = "match" =>
         /\ job[p].att \in attempts
         /\ job[p].changes \subseteq Of(job[p].att.id, changes)
    /\ pc[p] \in {"diff", "patch"} => Sound(job[p].patch)
    /\ pc[p] = "patch" => job[p].patch \in diffs

JobInv == \A p \in Procs : Holds(p)

(* Every object is written after the ones it names. *)
RecordInv ==
    /\ \A a \in attempts : Backed(a.id)
    /\ runs \subseteq traces
    /\ \A c \in changes : c.runs \subseteq Of(c.id, runs)
    /\ \A o \in diffs : Sound(o)
    /\ patches \subseteq diffs

(* An attempt on record, or about to be, has a whole worktree, unless it   *)
(* was used or made over too early.                                        *)
Settled(a) ==
    ~a.inPlace => a.id \in early \/ tree[a.id] \notin {Absent, Partial}

(* A worktree that git is filling is still its own, so that no attempt has *)
(* it yet when git gives it up.                                            *)
Filling(p, id) == pc[p] = "fill" /\ job[p].att.id = id

FillInv ==
    \A id \in Ids \ early : \A p \in Procs : Filling(p, id) =>
        /\ tree[id] = Partial
        /\ \A q \in Procs : Filling(q, id) => q = p

TreeInv ==
    /\ tree[Main] \notin {Absent, Partial}
    /\ \A a \in attempts : Settled(a)
    /\ \A p \in Procs : pc[p] = "attempt" => Settled(job[p].att)
    /\ FillInv

(* Without a race there is one transition at most, under way or written. *)
MoveInv ==
    \A id \in Ids \ raced :
        /\ \A p, q \in Procs : Moving(p, id) /\ Moving(q, id) => p = q
        /\ \A s \in statuses : s.id = id =>
             /\ \A p \in Procs : ~Moving(p, id)
             /\ \A o \in statuses : o.id = id => o = s

WorkInv ==
    /\ TypeOK /\ Shape /\ JobInv /\ RecordInv /\ TreeInv /\ MoveInv
    /\ SubmittedHasPatch /\ EvidenceWhole

----------------------------------------------------------------------------
LEMMA InitHolds == Init => WorkInv
<1> SUFFICES ASSUME Init PROVE WorkInv
  OBVIOUS
<1> USE DEF Init
<1>1. TypeOK
  BY WorkConstants DEF TypeOK, Trees
<1>2. Shape /\ JobInv
  BY DEF Shape, JobInv, Holds
<1>3. RecordInv /\ MoveInv /\ SubmittedHasPatch /\ EvidenceWhole
  BY DEF RecordInv, MoveInv, Moving, SubmittedHasPatch, EvidenceWhole
<1>4. TreeInv
  BY WorkConstants DEF TreeInv, FillInv, Filling, Trees
<1> QED
  BY <1>1, <1>2, <1>3, <1>4 DEF WorkInv

(* Nothing is ever taken away. *)
Grows ==
    /\ intents \subseteq intents' /\ attempts \subseteq attempts' /\ statuses \subseteq statuses'
    /\ traces \subseteq traces' /\ runs \subseteq runs'
    /\ changes \subseteq changes' /\ diffs \subseteq diffs'
    /\ patches \subseteq patches'
    /\ raced \subseteq raced' /\ early \subseteq early'

OnlyBy(p) == \A q \in Procs \ {p} : pc'[q] = pc[q] /\ job'[q] = job[q]

(* So the other processes hold what they held. *)
LEMMA OthersHold ==
    ASSUME JobInv, NEW p \in Procs, Grows, OnlyBy(p), Holds(p)'
    PROVE  JobInv'
<1> SUFFICES ASSUME NEW q \in Procs \ {p} PROVE Holds(q)'
  BY DEF JobInv
<1>1. Holds(q) /\ pc'[q] = pc[q] /\ job'[q] = job[q]
  BY DEF JobInv, OnlyBy
<1>2. \A o : Sound(o) => Sound(o)'
  BY DEF Sound, Of, Grows
<1>3. \A id : /\ Of(id, patches) # {} => Of(id, patches)' # {}
              /\ Of(id, changes) \subseteq Of(id, changes)'
              /\ Backed(id) => Backed(id)'
  BY DEF Of, Grows, Backed
<1> QED
  BY <1>1, <1>2, <1>3 DEF Holds, Grows

(* Steps that write no object. *)
LEMMA RecordsKept ==
    ASSUME WorkInv, UNCHANGED objects, early \subseteq early'
    PROVE  RecordInv' /\ SubmittedHasPatch' /\ EvidenceWhole'
<1>1. RecordInv'
  BY DEF WorkInv, RecordInv, Backed, Sound, Of, objects
<1>2. SubmittedHasPatch' /\ EvidenceWhole'
  BY DEF WorkInv, SubmittedHasPatch, EvidenceWhole, Of, objects
<1> QED
  BY <1>1, <1>2

(* Steps that neither begin nor write a transition. *)
LEMMA MovesKept ==
    ASSUME WorkInv, NEW p \in Procs, OnlyBy(p), statuses' = statuses,
           raced \subseteq raced', pc'[p] # "move"
    PROVE  MoveInv'
<1>1. \A q \in Procs, id \in Ids : Moving(q, id)' => Moving(q, id)
  BY DEF Moving, OnlyBy
<1> QED
  BY <1>1 DEF WorkInv, MoveInv

(* Steps that touch no tree. *)
LEMMA TreesKept ==
    ASSUME WorkInv, NEW p \in Procs, OnlyBy(p), tree' = tree, early \subseteq early',
           attempts' = attempts, pc'[p] # "fill",
           pc'[p] = "attempt" => Settled(job[p].att)'
    PROVE  TreeInv'
<1>1. FillInv'
  BY DEF WorkInv, TreeInv, FillInv, Filling, OnlyBy
<1> QED
  BY <1>1 DEF WorkInv, TreeInv, Settled, OnlyBy

LEMMA StartAttemptHolds ==
    ASSUME WorkInv, NEW p \in Procs, NEW a \in Starts,
           StartAttempt(p, a)
    PROVE  WorkInv'
<1> USE DEF StartAttempt, Placed, Begin
<1>0. Grows /\ OnlyBy(p) /\ Shape'
  BY DEF WorkInv, Shape, Grows, OnlyBy, objects, history
<1>6. /\ pc'[p] \in {"attempt", "worktree"} /\ job'[p].att = a
      /\ pc'[p] = "attempt" => a.inPlace
  BY DEF WorkInv, Shape
<1>1. TypeOK'
  BY DEF WorkInv, TypeOK, objects, history
<1>2. JobInv'
  BY <1>0, <1>6, OthersHold DEF WorkInv, JobInv, Holds, Backed, objects
<1>3. RecordInv' /\ SubmittedHasPatch' /\ EvidenceWhole'
  BY <1>0, RecordsKept DEF Grows
<1>4. TreeInv'
  BY <1>0, <1>6, TreesKept DEF Grows, objects, Settled
<1>5. MoveInv'
  BY <1>0, <1>6, MovesKept DEF WorkInv, Grows, objects, history
<1> QED
  BY <1>0, <1>1, <1>2, <1>3, <1>4, <1>5 DEF WorkInv

LEMMA StartWorkHolds ==
    ASSUME WorkInv, NEW p \in Procs, NEW a \in Starts,
           StartWork(p, a)
    PROVE  WorkInv'
<1> USE DEF StartWork, Begin
<1>0. Grows /\ OnlyBy(p) /\ Shape'
  BY DEF WorkInv, Shape, Grows, OnlyBy, objects, history
<1>6. pc'[p] = "intent" /\ job'[p].att = a
  BY DEF WorkInv, Shape
<1>1. TypeOK'
  BY DEF WorkInv, TypeOK, objects, history
<1>2. JobInv'
  BY <1>0, <1>6, OthersHold DEF WorkInv, JobInv, Holds
<1>3. RecordInv' /\ SubmittedHasPatch' /\ EvidenceWhole'
  BY <1>0, RecordsKept DEF Grows
<1>4. TreeInv'
  BY <1>0, <1>6, TreesKept DEF Grows, objects
<1>5. MoveInv'
  BY <1>0, <1>6, MovesKept DEF WorkInv, Grows, objects, history
<1> QED
  BY <1>0, <1>1, <1>2, <1>3, <1>4, <1>5 DEF WorkInv

(* An intent that is written backs attempts and takes nothing away. *)
LEMMA RecordIntentHolds ==
    ASSUME WorkInv, NEW p \in Procs,
           RecordIntent(p)
    PROVE  WorkInv'
<1> USE DEF RecordIntent, Placed, Step
<1>0. Grows /\ OnlyBy(p) /\ Shape'
  BY DEF WorkInv, Shape, Grows, OnlyBy, history
<1>6. /\ job[p].att \in Starts /\ job[p].att.id \in Ids /\ job'[p] = job[p]
      /\ pc'[p] \in {"attempt", "worktree"}
      /\ pc'[p] = "attempt" => job[p].att.inPlace
  BY WorkConstants DEF WorkInv, Shape, JobInv, Holds
<1>1. TypeOK'
  BY <1>6, WorkConstants DEF WorkInv, TypeOK, history
<1>2. JobInv'
  BY <1>0, <1>6, OthersHold DEF WorkInv, JobInv, Holds, Backed
<1>3. RecordInv' /\ SubmittedHasPatch' /\ EvidenceWhole'
  BY <1>6 DEF WorkInv, RecordInv, Backed, Sound, SubmittedHasPatch, EvidenceWhole, Of, history
<1>4. TreeInv'
  BY <1>0, <1>6, TreesKept DEF Grows, Settled
<1>5. MoveInv'
  BY <1>0, <1>6, MovesKept DEF WorkInv, Grows, history
<1> QED
  BY <1>0, <1>1, <1>2, <1>3, <1>4, <1>5 DEF WorkInv

LEMMA WriteIntentHolds ==
    ASSUME WorkInv, NEW i \in Intents, WriteIntent(i)
    PROVE  WorkInv'
<1> USE DEF WriteIntent
<1>1. TypeOK' /\ Shape' /\ MoveInv'
  BY DEF WorkInv, TypeOK, Shape, MoveInv, Moving, history
<1>2. JobInv'
  BY DEF WorkInv, JobInv, Holds, Backed, Sound, Of, history
<1>3. RecordInv' /\ SubmittedHasPatch' /\ EvidenceWhole'
  BY DEF WorkInv, RecordInv, Backed, Sound, SubmittedHasPatch, EvidenceWhole, Of, history
<1>4. TreeInv'
  BY DEF WorkInv, TreeInv, Settled, FillInv, Filling, history
<1> QED
  BY <1>1, <1>2, <1>3, <1>4 DEF WorkInv

LEMMA StartRunHolds ==
    ASSUME WorkInv, NEW p \in Procs, NEW a \in Starts,
           StartRun(p, a)
    PROVE  WorkInv'
<1> USE DEF StartRun, Begin
<1>0. Grows /\ OnlyBy(p) /\ Shape'
  BY DEF WorkInv, Shape, Grows, OnlyBy, objects, history
<1>6. pc'[p] \in {"exec", "worktree"} /\ job'[p].att = a /\ job'[p].op = "run"
  BY DEF WorkInv, Shape
<1>1. TypeOK'
  BY DEF WorkInv, TypeOK, objects, history
<1>2. JobInv'
  BY <1>0, <1>6, OthersHold DEF WorkInv, JobInv, Holds
<1>3. RecordInv' /\ SubmittedHasPatch' /\ EvidenceWhole'
  BY <1>0, RecordsKept DEF Grows
<1>4. TreeInv'
  BY <1>0, <1>6, TreesKept DEF Grows, objects
<1>5. MoveInv'
  BY <1>0, <1>6, MovesKept DEF WorkInv, Grows, objects, history
<1> QED
  BY <1>0, <1>1, <1>2, <1>3, <1>4, <1>5 DEF WorkInv

(* An attempt that is running and not raced has no transition yet, and only
   a race lets another one be under way. *)
LEMMA StartSubmitHolds ==
    ASSUME WorkInv, NEW p \in Procs, NEW a \in Starts,
           StartSubmit(p, a)
    PROVE  WorkInv'
<1> USE DEF StartSubmit, Move, Begin
<1>0. Grows /\ OnlyBy(p) /\ Shape'
  BY DEF WorkInv, Shape, Grows, OnlyBy, objects, history
<1>6. pc'[p] = "move" /\ job'[p].att = a /\ job'[p].op = "submitted"
  BY DEF WorkInv, Shape
<1>1. TypeOK'
  BY WorkConstants DEF WorkInv, TypeOK, objects
<1>2. JobInv'
  BY <1>0, <1>6, OthersHold DEF WorkInv, JobInv, Holds, Found, Of, Statuses, objects
<1>3. RecordInv' /\ SubmittedHasPatch' /\ EvidenceWhole'
  BY <1>0, RecordsKept DEF Grows
<1>4. TreeInv'
  BY <1>0, <1>6, TreesKept DEF Grows, objects
<1>5. MoveInv'
  <2>1. \A q \in Procs \ {p} : \A id \in Ids : Moving(q, id)' <=> Moving(q, id)
    BY <1>0 DEF Moving, OnlyBy
  <2>2. \A id \in Ids : Moving(p, id)' <=> id = a.id
    BY <1>6 DEF Moving
  <2>3. a.id \in Ids
    BY WorkConstants
  <2>4. a.id \notin raced' => \A q \in Procs \ {p} : ~Moving(q, a.id)
    BY DEF Moving
  <2>5. a.id \notin raced => Of(a.id, statuses) = {}
    <3> SUFFICES ASSUME a.id \notin raced, NEW s \in Of(a.id, statuses) PROVE FALSE
      OBVIOUS
    <3>1. /\ s.status \in Statuses /\ s.rank \in Ranks
          /\ \A o \in Of(a.id, statuses) : o = s
      BY <2>3 DEF WorkInv, MoveInv, Of, TypeOK
    <3>2. Effective(a.id) = s.status
      BY <3>1 DEF Effective, Ranks
    <3> QED
      BY <3>1, <3>2 DEF Statuses
  <2> QED
    BY <1>0, <2>1, <2>2, <2>3, <2>4, <2>5 DEF WorkInv, MoveInv, Of, Grows, objects
<1> QED
  BY <1>0, <1>1, <1>2, <1>3, <1>4, <1>5 DEF WorkInv

LEMMA StartAbandonHolds ==
    ASSUME WorkInv, NEW p \in Procs, NEW a \in Starts,
           StartAbandon(p, a)
    PROVE  WorkInv'
<1> USE DEF StartAbandon, Move, Begin
<1>0. Grows /\ OnlyBy(p) /\ Shape'
  BY DEF WorkInv, Shape, Grows, OnlyBy, objects, history
<1>6. pc'[p] = "move" /\ job'[p].att = a /\ job'[p].op = "abandoned"
  BY DEF WorkInv, Shape
<1>1. TypeOK'
  BY WorkConstants DEF WorkInv, TypeOK, objects
<1>2. JobInv'
  BY <1>0, <1>6, OthersHold DEF WorkInv, JobInv, Holds, Found, Of, Statuses, objects
<1>3. RecordInv' /\ SubmittedHasPatch' /\ EvidenceWhole'
  BY <1>0, RecordsKept DEF Grows
<1>4. TreeInv'
  BY <1>0, <1>6, TreesKept DEF Grows, objects
<1>5. MoveInv'
  <2>1. \A q \in Procs \ {p} : \A id \in Ids : Moving(q, id)' <=> Moving(q, id)
    BY <1>0 DEF Moving, OnlyBy
  <2>2. \A id \in Ids : Moving(p, id)' <=> id = a.id
    BY <1>6 DEF Moving
  <2>3. a.id \in Ids
    BY WorkConstants
  <2>4. a.id \notin raced' => \A q \in Procs \ {p} : ~Moving(q, a.id)
    BY DEF Moving
  <2>5. a.id \notin raced => Of(a.id, statuses) = {}
    <3> SUFFICES ASSUME a.id \notin raced, NEW s \in Of(a.id, statuses) PROVE FALSE
      OBVIOUS
    <3>1. /\ s.status \in Statuses /\ s.rank \in Ranks
          /\ \A o \in Of(a.id, statuses) : o = s
      BY <2>3 DEF WorkInv, MoveInv, Of, TypeOK
    <3>2. Effective(a.id) = s.status
      BY <3>1 DEF Effective, Ranks
    <3> QED
      BY <3>1, <3>2 DEF Statuses
  <2> QED
    BY <1>0, <2>1, <2>2, <2>3, <2>4, <2>5 DEF WorkInv, MoveInv, Of, Grows, objects
<1> QED
  BY <1>0, <1>1, <1>2, <1>3, <1>4, <1>5 DEF WorkInv

(* A half made tree of an attempt on record was used too early. *)
LEMMA StartDetectHolds ==
    ASSUME WorkInv, NEW p \in Procs, NEW a \in Starts,
           StartDetect(p, a)
    PROVE  WorkInv'
<1> USE DEF StartDetect, Detected, Begin
<1>0. Grows /\ OnlyBy(p) /\ Shape'
  BY DEF WorkInv, Shape, Grows, OnlyBy, objects, history
<1>6. pc'[p] = "change" /\ job'[p].att = a /\ job'[p].diff = tree[Dir(a)]
  BY DEF WorkInv, Shape
<1>1. TypeOK'
  BY DEF WorkInv, TypeOK, objects, history
<1>2. JobInv'
  <2>1. /\ a \in attempts /\ a.id \in Ids
        /\ tree[Dir(a)] \in Diffs \cup {Partial}
    BY WorkConstants DEF WorkInv, TypeOK, Found, Of, Dir, Trees
  <2>2. tree[Dir(a)] = Partial => a.id \in early
    BY <2>1 DEF WorkInv, TreeInv, Settled, Dir
  <2> QED
    BY <1>0, <1>6, <2>1, <2>2, OthersHold DEF WorkInv, JobInv, Holds, objects, history
<1>3. RecordInv' /\ SubmittedHasPatch' /\ EvidenceWhole'
  BY <1>0, RecordsKept DEF Grows
<1>4. TreeInv'
  BY <1>0, <1>6, TreesKept DEF Grows, objects
<1>5. MoveInv'
  BY <1>0, <1>6, MovesKept DEF WorkInv, Grows, objects, history
<1> QED
  BY <1>0, <1>1, <1>2, <1>3, <1>4, <1>5 DEF WorkInv

LEMMA StartPrepareHolds ==
    ASSUME WorkInv, NEW p \in Procs, NEW a \in Starts,
           StartPrepare(p, a)
    PROVE  WorkInv'
<1> USE DEF StartPrepare, Begin
<1>0. Grows /\ OnlyBy(p) /\ Shape'
  BY DEF WorkInv, Shape, Grows, OnlyBy, objects, history
<1>6. pc'[p] = "match" /\ job'[p].att = a /\ job'[p].changes = Of(a.id, changes)
  BY DEF WorkInv, Shape
<1>1. TypeOK'
  BY DEF WorkInv, TypeOK, objects, history
<1>2. JobInv'
  BY <1>0, <1>6, OthersHold DEF WorkInv, JobInv, Holds, Found, Of, objects
<1>3. RecordInv' /\ SubmittedHasPatch' /\ EvidenceWhole'
  BY <1>0, RecordsKept DEF Grows
<1>4. TreeInv'
  BY <1>0, <1>6, TreesKept DEF Grows, objects
<1>5. MoveInv'
  BY <1>0, <1>6, MovesKept DEF WorkInv, Grows, objects, history
<1> QED
  BY <1>0, <1>1, <1>2, <1>3, <1>4, <1>5 DEF WorkInv

LEMMA UseWorktreeHolds ==
    ASSUME WorkInv, NEW p \in Procs,
           UseWorktree(p)
    PROVE  WorkInv'
<1> USE DEF UseWorktree, Ready, Step
<1>0. Grows /\ OnlyBy(p) /\ Shape'
  BY DEF WorkInv, Shape, Grows, OnlyBy, objects, history
<1>6. /\ job[p].att \in Starts /\ job[p].att.id \in Ids /\ job'[p] = job[p]
      /\ pc'[p] \in {"attempt", "exec"}
      /\ pc'[p] = "attempt" => Backed(job[p].att.id)'
  BY WorkConstants DEF WorkInv, Shape, JobInv, Holds, Backed, objects
<1>1. TypeOK'
  BY <1>6 DEF WorkInv, TypeOK, objects
<1>2. JobInv'
  BY <1>0, <1>6, OthersHold DEF WorkInv, JobInv, Holds
<1>3. RecordInv' /\ SubmittedHasPatch' /\ EvidenceWhole'
  BY <1>0, RecordsKept DEF Grows
<1>4. TreeInv'
  BY <1>0, <1>6, TreesKept DEF Grows, objects, Settled
<1>5. MoveInv'
  BY <1>0, <1>6, MovesKept DEF WorkInv, Grows, objects, history
<1> QED
  BY <1>0, <1>1, <1>2, <1>3, <1>4, <1>5 DEF WorkInv

LEMMA LookForWorktreeHolds ==
    ASSUME WorkInv, NEW p \in Procs,
           LookForWorktree(p)
    PROVE  WorkInv'
<1> USE DEF LookForWorktree, Step
<1>0. Grows /\ OnlyBy(p) /\ Shape'
  BY DEF WorkInv, Shape, Grows, OnlyBy, objects, history
<1>6. /\ job[p].att \in Starts /\ job'[p] = job[p] /\ pc'[p] = "add"
      /\ (job[p].op = "start" => Backed(job[p].att.id)')
  BY WorkConstants DEF WorkInv, Shape, JobInv, Holds, Backed, objects
<1>1. TypeOK'
  BY <1>6 DEF WorkInv, TypeOK, objects, history, Trees
<1>2. JobInv'
  BY <1>0, <1>6, OthersHold DEF WorkInv, JobInv, Holds
<1>3. RecordInv' /\ SubmittedHasPatch' /\ EvidenceWhole'
  BY <1>0, RecordsKept DEF Grows
<1>4. TreeInv'
  BY <1>0, <1>6, TreesKept DEF Grows, objects, history
<1>5. MoveInv'
  BY <1>0, <1>6, MovesKept DEF WorkInv, Grows, objects, history
<1> QED
  BY <1>0, <1>1, <1>2, <1>3, <1>4, <1>5 DEF WorkInv

(* No attempt is on record, or about to be, for a tree that is not there. *)
LEMMA AddWorktreeHolds ==
    ASSUME WorkInv, NEW p \in Procs,
           AddWorktree(p)
    PROVE  WorkInv'
<1> USE DEF AddWorktree, MakeWorktree, Step
<1>0. Grows /\ OnlyBy(p) /\ Shape'
  BY DEF WorkInv, Shape, Grows, OnlyBy, objects, history
<1>6. /\ job[p].att \in Starts /\ job[p].att.id \in Ids /\ job'[p] = job[p]
      /\ pc'[p] = "fill" /\ (job[p].op = "start" => Backed(job[p].att.id)')
  BY WorkConstants DEF WorkInv, Shape, JobInv, Holds, Backed, objects
<1>1. TypeOK'
  BY <1>6 DEF WorkInv, TypeOK, objects, history, Trees
<1>2. JobInv'
  BY <1>0, <1>6, OthersHold DEF WorkInv, JobInv, Holds
<1>3. RecordInv' /\ SubmittedHasPatch' /\ EvidenceWhole'
  BY <1>0, RecordsKept DEF Grows
<1>4. TreeInv'
  <2> DEFINE i == job[p].att.id
  <2>1. /\ i \in Ids /\ i # Main
        /\ \A t \in Trees \ {i} : tree'[t] = tree[t]
    BY <1>6, WorkConstants DEF WorkInv, TypeOK, Trees
  <2>2. tree'[i] = Partial /\ (i \notin early' => tree[i] = Absent) /\ early \subseteq early'
    BY <2>1 DEF WorkInv, TypeOK, Trees
  <2>3. \A a \in Starts : Settled(a) => Settled(a)'
    BY <2>1, <2>2, WorkConstants DEF Settled, Trees
  <2>4. /\ \A a \in attempts' : Settled(a)'
        /\ \A q \in Procs : pc'[q] = "attempt" => Settled(job[q].att)'
    BY <1>0, <1>6, <2>3 DEF WorkInv, TypeOK, TreeInv, JobInv, Holds, OnlyBy, objects
  <2>5. ASSUME NEW id \in Ids \ early', NEW q \in Procs, Filling(q, id)'
        PROVE  /\ tree'[id] = Partial
               /\ \A r \in Procs : Filling(r, id)' => r = q
    <3>1. CASE id = i
      <4>1. \A r \in Procs : ~Filling(r, i)
        BY <2>2, <2>5, <3>1, <2>1, WorkConstants DEF WorkInv, TreeInv, FillInv
      <4> QED
        BY <1>0, <2>2, <2>5, <3>1, <4>1 DEF Filling, OnlyBy
    <3>2. CASE id # i
      <4>1. \A r \in Procs : Filling(r, id)' <=> Filling(r, id) /\ r # p
        BY <1>0, <1>6, <3>2 DEF Filling, OnlyBy
      <4> QED
        BY <2>1, <2>2, <2>5, <3>2, <4>1 DEF WorkInv, TreeInv, FillInv, Trees
    <3> QED
      BY <3>1, <3>2
  <2>6. FillInv'
    BY <2>5 DEF FillInv
  <2>7. tree'[Main] = tree[Main]
    BY <2>1 DEF Trees
  <2> QED
    BY <2>4, <2>6, <2>7 DEF WorkInv, TreeInv
<1>5. MoveInv'
  BY <1>0, <1>6, MovesKept DEF WorkInv, Grows, objects, history
<1> QED
  BY <1>0, <1>1, <1>2, <1>3, <1>4, <1>5 DEF WorkInv

LEMMA FillWorktreeHolds ==
    ASSUME WorkInv, NEW p \in Procs,
           FillWorktree(p)
    PROVE  WorkInv'
<1> USE DEF FillWorktree, Ready, Step
<1>0. Grows /\ OnlyBy(p) /\ Shape'
  BY DEF WorkInv, Shape, Grows, OnlyBy, objects, history
<1>6. /\ job[p].att \in Starts /\ job[p].att.id \in Ids /\ job'[p] = job[p]
      /\ pc'[p] \in {"attempt", "exec"}
      /\ pc'[p] = "attempt" => Backed(job[p].att.id)'
  BY WorkConstants DEF WorkInv, Shape, JobInv, Holds, Backed, objects
<1>1. TypeOK'
  BY <1>6 DEF WorkInv, TypeOK, objects, history, Trees
<1>2. JobInv'
  BY <1>0, <1>6, OthersHold DEF WorkInv, JobInv, Holds
<1>3. RecordInv' /\ SubmittedHasPatch' /\ EvidenceWhole'
  BY <1>0, RecordsKept DEF Grows
<1>4. TreeInv'
  <2> DEFINE i == job[p].att.id
  <2>1. /\ i \in Ids /\ i # Main
        /\ \A t \in Trees \ {i} : tree'[t] = tree[t]
    BY <1>6, WorkConstants DEF WorkInv, TypeOK, Trees
  <2>2. tree'[i] = Clean /\ Clean \notin {Absent, Partial} /\ early' = early
    BY <2>1, WorkConstants DEF WorkInv, TypeOK, Trees, history
  <2>3. \A a \in Starts : (Settled(a) \/ a.id = i) => Settled(a)'
    BY <2>1, <2>2, WorkConstants DEF Settled, Trees
  <2>4. /\ \A a \in attempts' : Settled(a)'
        /\ \A q \in Procs : pc'[q] = "attempt" => Settled(job[q].att)'
    BY <1>0, <1>6, <2>3 DEF WorkInv, TypeOK, TreeInv, JobInv, Holds, OnlyBy, objects
  <2>5. ASSUME NEW id \in Ids \ early', NEW q \in Procs, Filling(q, id)'
        PROVE  /\ tree'[id] = Partial
               /\ \A r \in Procs : Filling(r, id)' => r = q
    <3>1. /\ \A r \in Procs : Filling(r, id)' => Filling(r, id) /\ r # p
          /\ Filling(p, i) /\ id \notin early
      BY <1>0, <1>6, <2>5 DEF Filling, OnlyBy, history
    <3>2. id # i
      BY <2>5, <3>1 DEF WorkInv, TreeInv, FillInv
    <3> QED
      BY <2>1, <2>5, <3>1, <3>2 DEF WorkInv, TreeInv, FillInv, Trees
  <2>6. FillInv'
    BY <2>5 DEF FillInv
  <2>7. tree'[Main] = tree[Main]
    BY <2>1 DEF Trees
  <2> QED
    BY <2>4, <2>6, <2>7 DEF WorkInv, TreeInv
<1>5. MoveInv'
  BY <1>0, <1>6, MovesKept DEF WorkInv, Grows, objects, history
<1> QED
  BY <1>0, <1>1, <1>2, <1>3, <1>4, <1>5 DEF WorkInv

(* A git that gives up deletes a tree that no attempt has, or one shared.  *)
LEMMA StopAddingHolds ==
    ASSUME WorkInv, NEW p \in Procs,
           StopAdding(p)
    PROVE  WorkInv'
<1> USE DEF StopAdding, Done, Step
<1>0. Grows /\ OnlyBy(p) /\ Shape'
  BY DEF WorkInv, Shape, Grows, OnlyBy, objects, history
<1>6. job[p].att.id \in Ids /\ pc'[p] = "idle"
  BY WorkConstants DEF WorkInv, Shape, JobInv, Holds
<1>1. TypeOK'
  BY <1>6 DEF WorkInv, TypeOK, objects, history, Trees
<1>2. JobInv'
  BY <1>0, <1>6, OthersHold DEF WorkInv, JobInv, Holds
<1>3. RecordInv' /\ SubmittedHasPatch' /\ EvidenceWhole'
  BY <1>0, RecordsKept DEF Grows
<1>4. TreeInv'
  <2> DEFINE i == job[p].att.id
  <2>1. /\ i \in Ids /\ i # Main
        /\ \A t \in Trees \ {i} : tree'[t] = tree[t]
    BY <1>6, WorkConstants DEF WorkInv, TypeOK, Trees
  <2>2. /\ tree'[i] \in {Absent, Partial} /\ early' = early
        /\ i \in early \/ tree[i] = Partial
    BY <2>1 DEF WorkInv, TypeOK, Trees, history, TreeInv, FillInv, Filling
  <2>3. \A a \in Starts : Settled(a) => Settled(a)'
    BY <2>1, <2>2, WorkConstants DEF Settled, Trees
  <2>4. /\ \A a \in attempts' : Settled(a)'
        /\ \A q \in Procs : pc'[q] = "attempt" => Settled(job[q].att)'
    BY <1>0, <1>6, <2>3 DEF WorkInv, TypeOK, TreeInv, JobInv, Holds, OnlyBy, objects
  <2>5. ASSUME NEW id \in Ids \ early', NEW q \in Procs, Filling(q, id)'
        PROVE  /\ tree'[id] = Partial
               /\ \A r \in Procs : Filling(r, id)' => r = q
    <3>1. /\ \A r \in Procs : Filling(r, id)' => Filling(r, id) /\ r # p
          /\ Filling(p, i) /\ id \notin early
      BY <1>0, <1>6, <2>5 DEF Filling, OnlyBy, history
    <3>2. id # i
      BY <2>5, <3>1 DEF WorkInv, TreeInv, FillInv
    <3> QED
      BY <2>1, <2>5, <3>1, <3>2 DEF WorkInv, TreeInv, FillInv, Trees
  <2>6. FillInv'
    BY <2>5 DEF FillInv
  <2>7. tree'[Main] = tree[Main]
    BY <2>1 DEF Trees
  <2> QED
    BY <2>4, <2>6, <2>7 DEF WorkInv, TreeInv
<1>5. MoveInv'
  BY <1>0, <1>6, MovesKept DEF WorkInv, Grows, objects, history
<1> QED
  BY <1>0, <1>1, <1>2, <1>3, <1>4, <1>5 DEF WorkInv

LEMMA WriteAttemptHolds ==
    ASSUME WorkInv, NEW p \in Procs,
           WriteAttempt(p)
    PROVE  WorkInv'
<1> USE DEF WriteAttempt, Done, Step
<1>0. Grows /\ OnlyBy(p) /\ Shape'
  BY DEF WorkInv, Shape, Grows, OnlyBy, objects, history
<1>6. pc'[p] = "idle" /\ job[p].att \in Starts /\ Backed(job[p].att.id)
  BY WorkConstants DEF WorkInv, Shape, JobInv, Holds
<1>1. TypeOK'
  BY <1>6 DEF WorkInv, TypeOK, history
<1>2. JobInv'
  BY <1>0, <1>6, OthersHold DEF WorkInv, JobInv, Holds
<1>3. RecordInv' /\ SubmittedHasPatch' /\ EvidenceWhole'
  BY <1>6 DEF WorkInv, RecordInv, Backed, Sound, SubmittedHasPatch, EvidenceWhole, Of, history
<1>4. TreeInv'
  <2>1. FillInv'
    BY <1>0, <1>6 DEF WorkInv, TreeInv, FillInv, Filling, OnlyBy, history
  <2> QED
    BY <1>0, <1>6, <2>1 DEF WorkInv, TreeInv, Settled, OnlyBy, history
<1>5. MoveInv'
  BY <1>0, <1>6, MovesKept DEF WorkInv, Grows, objects, history
<1> QED
  BY <1>0, <1>1, <1>2, <1>3, <1>4, <1>5 DEF WorkInv

LEMMA ExecHolds ==
    ASSUME WorkInv, NEW p \in Procs,
           Exec(p)
    PROVE  WorkInv'
<1> USE DEF Exec, Step
<1>0. Grows /\ OnlyBy(p) /\ Shape'
  BY DEF WorkInv, Shape, Grows, OnlyBy, objects, history
<1>6. /\ job[p].att \in Starts /\ job[p].att.id \in Ids
      /\ pc'[p] = "trace" /\ job'[p].run = [id |-> job[p].att.id, no |-> execs + 1]
  BY WorkConstants DEF WorkInv, Shape, JobInv, Holds
<1>1. TypeOK'
  <2>1. execs' \in 0..MaxRuns
    BY WorkConstants DEF WorkInv, TypeOK
  <2>2. tree' \in [Trees -> Diffs \cup {Clean, Partial, Absent}]
    BY DEF WorkInv, TypeOK
  <2> QED
    BY <2>1, <2>2 DEF WorkInv, TypeOK, objects, history
<1>2. JobInv'
  <2>1. execs + 1 \in 1..MaxRuns
    BY WorkConstants DEF WorkInv, TypeOK
  <2>2. job'[p].run \in Run
    BY <1>6, <2>1 DEF Run
  <2> QED
    BY <1>0, <1>6, <2>2, OthersHold DEF WorkInv, Holds, Run, objects
<1>3. RecordInv' /\ SubmittedHasPatch' /\ EvidenceWhole'
  BY <1>0, RecordsKept DEF Grows
<1>4. TreeInv'
  <2> DEFINE d == Dir(job[p].att)
  <2>1. d \in Trees /\ tree[d] # Absent
    BY <1>6 DEF Dir, Trees
  <2>2. \A t \in Trees : /\ tree'[t] \in {Absent, Partial} <=> tree[t] \in {Absent, Partial}
                         /\ tree[t] = Partial => tree'[t] = Partial
    BY <2>1, WorkConstants DEF WorkInv, TypeOK
  <2> HIDE DEF d
  <2>3. \A a \in Starts : Settled(a) => Settled(a)'
    BY <2>2, WorkConstants DEF Settled, Trees, history
  <2>4. /\ \A a \in attempts' : Settled(a)'
        /\ \A q \in Procs : pc'[q] = "attempt" => Settled(job[q].att)'
    BY <1>0, <1>6, <2>3 DEF WorkInv, TypeOK, TreeInv, JobInv, Holds, OnlyBy, objects
  <2>5. \A q \in Procs, id \in Ids : Filling(q, id)' => Filling(q, id)
    BY <1>0, <1>6 DEF Filling, OnlyBy
  <2>6. FillInv'
    BY <2>2, <2>5 DEF WorkInv, TreeInv, FillInv, Trees, history
  <2>7. tree'[Main] \notin {Absent, Partial}
    BY <2>2 DEF WorkInv, TreeInv, Trees
  <2> QED
    BY <2>4, <2>6, <2>7 DEF TreeInv
<1>5. MoveInv'
  BY <1>0, <1>6, MovesKept DEF WorkInv, Grows, objects, history
<1> QED
  BY <1>0, <1>1, <1>2, <1>3, <1>4, <1>5 DEF WorkInv

LEMMA WriteTraceHolds ==
    ASSUME WorkInv, NEW p \in Procs,
           WriteTrace(p)
    PROVE  WorkInv'
<1> USE DEF WriteTrace, Step
<1>0. Grows /\ OnlyBy(p) /\ Shape'
  BY DEF WorkInv, Shape, Grows, OnlyBy, objects, history
<1>6. pc'[p] = "run" /\ job'[p] = job[p] /\ job[p].run \in Run
  BY WorkConstants DEF WorkInv, Shape, JobInv, Holds
<1>1. TypeOK'
  BY <1>6 DEF WorkInv, TypeOK, history
<1>2. JobInv'
  BY <1>0, <1>6, OthersHold DEF WorkInv, JobInv, Holds
<1>3. RecordInv' /\ SubmittedHasPatch' /\ EvidenceWhole'
  BY <1>6 DEF WorkInv, RecordInv, Backed, Sound, SubmittedHasPatch, EvidenceWhole, Of, history
<1>4. TreeInv'
  BY <1>0, <1>6, TreesKept DEF Grows, objects
<1>5. MoveInv'
  BY <1>0, <1>6, MovesKept DEF WorkInv, Grows, objects, history
<1> QED
  BY <1>0, <1>1, <1>2, <1>3, <1>4, <1>5 DEF WorkInv

LEMMA WriteRunHolds ==
    ASSUME WorkInv, NEW p \in Procs,
           WriteRun(p)
    PROVE  WorkInv'
<1> USE DEF WriteRun, Done, Step
<1>0. Grows /\ OnlyBy(p) /\ Shape'
  BY DEF WorkInv, Shape, Grows, OnlyBy, objects, history
<1>6. pc'[p] = "idle" /\ job[p].run \in Run /\ job[p].run \in traces
  BY WorkConstants DEF WorkInv, Shape, JobInv, Holds
<1>1. TypeOK'
  BY <1>6 DEF WorkInv, TypeOK, history
<1>2. JobInv'
  BY <1>0, <1>6, OthersHold DEF WorkInv, JobInv, Holds
<1>3. RecordInv' /\ SubmittedHasPatch' /\ EvidenceWhole'
  BY <1>6 DEF WorkInv, RecordInv, Backed, Sound, SubmittedHasPatch, EvidenceWhole, Of, history
<1>4. TreeInv'
  BY <1>0, <1>6, TreesKept DEF Grows, objects
<1>5. MoveInv'
  BY <1>0, <1>6, MovesKept DEF WorkInv, Grows, objects, history
<1> QED
  BY <1>0, <1>1, <1>2, <1>3, <1>4, <1>5 DEF WorkInv

(* The transition that is written was the only one under way. *)
LEMMA WriteTransitionHolds ==
    ASSUME WorkInv, NEW p \in Procs,
           WriteTransition(p)
    PROVE  WorkInv'
<1> USE DEF WriteTransition, Done, Step
<1>0. Grows /\ OnlyBy(p) /\ Shape'
  BY DEF WorkInv, Shape, Grows, OnlyBy, objects, history
<1>6. /\ pc'[p] = "idle" /\ Moving(p, job[p].att.id)
      /\ job[p].att \in attempts /\ job[p].att.id \in Ids /\ job[p].op \in Statuses
      /\ job[p].op = "submitted" => Of(job[p].att.id, patches) # {}
  BY WorkConstants DEF WorkInv, Shape, TypeOK, JobInv, Holds, Moving
<1>1. TypeOK'
  BY <1>6 DEF WorkInv, TypeOK, history
<1>2. JobInv'
  BY <1>0, <1>6, OthersHold DEF WorkInv, JobInv, Holds
<1>3. RecordInv' /\ SubmittedHasPatch' /\ EvidenceWhole'
  <2>1. RecordInv' /\ EvidenceWhole'
    BY DEF WorkInv, RecordInv, Backed, Sound, EvidenceWhole, Of, history
  <2>2. Of(job[p].att.id, attempts) # {}
    BY <1>6 DEF Of
  <2>3. SubmittedHasPatch'
    BY <1>6, <2>2 DEF WorkInv, SubmittedHasPatch, Of
  <2> QED
    BY <2>1, <2>3
<1>4. TreeInv'
  BY <1>0, <1>6, TreesKept DEF Grows, objects
<1>5. MoveInv'
  <2>1. \A q \in Procs, id \in Ids : Moving(q, id)' => Moving(q, id) /\ q # p
    BY <1>0, <1>6 DEF Moving, OnlyBy
  <2> QED
    BY <1>6, <2>1 DEF WorkInv, MoveInv, history
<1> QED
  BY <1>0, <1>1, <1>2, <1>3, <1>4, <1>5 DEF WorkInv

LEMMA WriteChangeHolds ==
    ASSUME WorkInv, NEW p \in Procs,
           WriteChange(p)
    PROVE  WorkInv'
<1> USE DEF WriteChange, Selections, Done, Step
<1>0. Grows /\ OnlyBy(p) /\ Shape'
  BY DEF WorkInv, Shape, Grows, OnlyBy, objects, history
<1>6. /\ pc'[p] = "idle" /\ job[p].att \in attempts /\ job[p].att.id \in Ids
      /\ job[p].diff \in Diffs \cup {Partial}
      /\ job[p].diff = Partial => job[p].att.id \in early
  BY WorkConstants DEF WorkInv, Shape, TypeOK, JobInv, Holds
<1>1. TypeOK'
  BY <1>6 DEF WorkInv, TypeOK, Of, history
<1>2. JobInv'
  BY <1>0, <1>6, OthersHold DEF WorkInv, JobInv, Holds
<1>3. RecordInv' /\ SubmittedHasPatch' /\ EvidenceWhole'
  BY <1>6 DEF WorkInv, RecordInv, Backed, Sound, SubmittedHasPatch, EvidenceWhole, Of, history
<1>4. TreeInv'
  BY <1>0, <1>6, TreesKept DEF Grows, objects
<1>5. MoveInv'
  BY <1>0, <1>6, MovesKept DEF WorkInv, Grows, objects, history
<1> QED
  BY <1>0, <1>1, <1>2, <1>3, <1>4, <1>5 DEF WorkInv

LEMMA MatchHolds ==
    ASSUME WorkInv, NEW p \in Procs,
           Match(p)
    PROVE  WorkInv'
<1> USE DEF Match, Covered, Detected, Step
<1>0. Grows /\ OnlyBy(p) /\ Shape'
  BY DEF WorkInv, Shape, Grows, OnlyBy, objects, history
<1>6. /\ pc'[p] = "diff" /\ job[p].att \in attempts /\ job[p].att.id \in Ids
      /\ job[p].changes \subseteq Of(job[p].att.id, changes)
      /\ job'[p].patch = [id |-> job[p].att.id, changes |-> job[p].changes,
                          diff |-> tree[Dir(job[p].att)]]
  BY WorkConstants DEF WorkInv, Shape, TypeOK, JobInv, Holds
<1>1. TypeOK'
  BY DEF WorkInv, TypeOK, objects, history
<1>2. JobInv'
  <2>1. Sound(job'[p].patch)
    BY <1>6 DEF WorkInv, TypeOK, Sound, Of
  <2>2. Sound(job[p].patch)'
    BY <2>1 DEF Sound, Of, objects
  <2> QED
    BY <1>0, <1>6, <2>2, OthersHold DEF WorkInv, Holds
<1>3. RecordInv' /\ SubmittedHasPatch' /\ EvidenceWhole'
  BY <1>0, RecordsKept DEF Grows
<1>4. TreeInv'
  BY <1>0, <1>6, TreesKept DEF Grows, objects
<1>5. MoveInv'
  BY <1>0, <1>6, MovesKept DEF WorkInv, Grows, objects, history
<1> QED
  BY <1>0, <1>1, <1>2, <1>3, <1>4, <1>5 DEF WorkInv

LEMMA WriteDiffHolds ==
    ASSUME WorkInv, NEW p \in Procs,
           WriteDiff(p)
    PROVE  WorkInv'
<1> USE DEF WriteDiff, Step
<1>0. Grows /\ OnlyBy(p) /\ Shape'
  BY DEF WorkInv, Shape, Grows, OnlyBy, objects, history
<1>6. pc'[p] = "patch" /\ job'[p] = job[p] /\ Sound(job[p].patch)
  BY WorkConstants DEF WorkInv, Shape, JobInv, Holds
<1>1. TypeOK'
  BY <1>6 DEF WorkInv, TypeOK, Sound, history
<1>2. JobInv'
  BY <1>0, <1>6, OthersHold DEF WorkInv, Holds, Sound, Of
<1>3. RecordInv' /\ SubmittedHasPatch' /\ EvidenceWhole'
  BY <1>6 DEF WorkInv, RecordInv, Backed, Sound, SubmittedHasPatch, EvidenceWhole, Of, history
<1>4. TreeInv'
  BY <1>0, <1>6, TreesKept DEF Grows, objects
<1>5. MoveInv'
  BY <1>0, <1>6, MovesKept DEF WorkInv, Grows, objects, history
<1> QED
  BY <1>0, <1>1, <1>2, <1>3, <1>4, <1>5 DEF WorkInv

LEMMA WritePatchHolds ==
    ASSUME WorkInv, NEW p \in Procs,
           WritePatch(p)
    PROVE  WorkInv'
<1> USE DEF WritePatch, Done, Step
<1>0. Grows /\ OnlyBy(p) /\ Shape'
  BY DEF WorkInv, Shape, Grows, OnlyBy, objects, history
<1>6. pc'[p] = "idle" /\ job[p].patch \in diffs /\ Sound(job[p].patch)
  BY WorkConstants DEF WorkInv, Shape, JobInv, Holds
<1>1. TypeOK'
  BY <1>6 DEF WorkInv, TypeOK, Sound, history
<1>2. JobInv'
  BY <1>0, <1>6, OthersHold DEF WorkInv, JobInv, Holds
<1>3. RecordInv' /\ SubmittedHasPatch' /\ EvidenceWhole'
  BY <1>6 DEF WorkInv, RecordInv, Backed, Sound, SubmittedHasPatch, EvidenceWhole, Of, history
<1>4. TreeInv'
  BY <1>0, <1>6, TreesKept DEF Grows, objects
<1>5. MoveInv'
  BY <1>0, <1>6, MovesKept DEF WorkInv, Grows, objects, history
<1> QED
  BY <1>0, <1>1, <1>2, <1>3, <1>4, <1>5 DEF WorkInv

LEMMA StopHolds ==
    ASSUME WorkInv, NEW p \in Procs,
           Stop(p)
    PROVE  WorkInv'
<1> USE DEF Stop, Done, Step
<1>0. Grows /\ OnlyBy(p) /\ Shape'
  BY DEF WorkInv, Shape, Grows, OnlyBy, objects, history
<1>6. pc'[p] = "idle"
  BY DEF WorkInv, Shape
<1>1. TypeOK'
  BY DEF WorkInv, TypeOK, objects, history
<1>2. JobInv'
  BY <1>0, <1>6, OthersHold DEF WorkInv, JobInv, Holds
<1>3. RecordInv' /\ SubmittedHasPatch' /\ EvidenceWhole'
  BY <1>0, RecordsKept DEF Grows
<1>4. TreeInv'
  BY <1>0, <1>6, TreesKept DEF Grows, objects
<1>5. MoveInv'
  BY <1>0, <1>6, MovesKept DEF WorkInv, Grows, objects, history
<1> QED
  BY <1>0, <1>1, <1>2, <1>3, <1>4, <1>5 DEF WorkInv

LEMMA EditHolds ==
    ASSUME WorkInv, NEW t \in Trees, NEW c \in Diffs \cup {Clean}, Edit(t, c)
    PROVE  WorkInv'
<1> USE DEF Edit
<1>1. TypeOK'
  BY DEF WorkInv, TypeOK, objects, history
<1>2. Shape' /\ JobInv' /\ MoveInv'
  BY DEF WorkInv, Shape, JobInv, Holds, Backed, Sound, Of, MoveInv, Moving, objects, history
<1>3. RecordInv' /\ SubmittedHasPatch' /\ EvidenceWhole'
  BY RecordsKept DEF history
<1>4. TreeInv'
  <2>1. c \notin {Absent, Partial}
    BY WorkConstants
  <2>2. \A u \in Trees : tree'[u] = tree[u] \/ tree'[u] = c
    BY DEF WorkInv, TypeOK
  <2>3. \A a : Settled(a) /\ a \in Starts => Settled(a)'
    BY <2>1, <2>2, WorkConstants DEF Settled, Trees, history
  <2>4. FillInv'
    BY WorkConstants DEF WorkInv, TypeOK, TreeInv, FillInv, Filling, Trees, history
  <2> QED
    BY <2>1, <2>2, <2>3, <2>4 DEF WorkInv, TypeOK, TreeInv, JobInv, Holds, Trees, objects
<1> QED
  BY <1>1, <1>2, <1>3, <1>4 DEF WorkInv

LEMMA StutterHolds ==
    ASSUME WorkInv, UNCHANGED vars
    PROVE  WorkInv'
<1> USE DEF WorkInv, vars, objects, history
<1>1. TypeOK' /\ Shape'
  BY DEF TypeOK, Shape
<1>2. JobInv' /\ MoveInv'
  BY DEF JobInv, Holds, Backed, Sound, Of, MoveInv, Moving
<1>3. RecordInv' /\ SubmittedHasPatch' /\ EvidenceWhole'
  BY RecordsKept
<1>4. TreeInv'
  BY DEF TreeInv, Settled, FillInv, Filling
<1> QED
  BY <1>1, <1>2, <1>3, <1>4

LEMMA NextHolds == WorkInv /\ [Next]_vars => WorkInv'
<1> SUFFICES ASSUME WorkInv, [Next]_vars PROVE WorkInv'
  OBVIOUS
<1>1. ASSUME NEW p \in Procs, Command(p) PROVE WorkInv'
  <2>1. CASE \E a \in Starts :
                \/ StartWork(p, a) \/ StartAttempt(p, a) \/ StartRun(p, a)
                \/ StartSubmit(p, a) \/ StartAbandon(p, a) \/ StartDetect(p, a)
                \/ StartPrepare(p, a)
    BY <2>1, StartWorkHolds, StartAttemptHolds, StartRunHolds, StartSubmitHolds, StartAbandonHolds,
       StartDetectHolds, StartPrepareHolds
  <2> QED
    BY <1>1, <2>1, RecordIntentHolds, UseWorktreeHolds, LookForWorktreeHolds,
       AddWorktreeHolds, FillWorktreeHolds, StopAddingHolds,
       WriteAttemptHolds, ExecHolds, WriteTraceHolds, WriteRunHolds,
       WriteTransitionHolds, WriteChangeHolds, MatchHolds, WriteDiffHolds,
       WritePatchHolds, StopHolds DEF Command
<1> QED
  BY <1>1, WriteIntentHolds, EditHolds, StutterHolds DEF Next

THEOREM InvariantHolds == Spec => []WorkInv
  BY InitHolds, NextHolds, PTL DEF Spec

----------------------------------------------------------------------------
(* The objects of the work commands have the fields the code gives them,   *)
(* and each run, change and patch names an attempt.                        *)
THEOREM TypeCorrect == Spec => []TypeOK
<1>1. WorkInv => TypeOK
  BY DEF WorkInv
<1> QED
  BY <1>1, InvariantHolds, PTL

(* Every patch that patch prepare has written leads back to its stored     *)
(* diff, its changes, their runs and traces, whatever was killed.          *)
THEOREM PatchesAreBacked == Spec => []ChainComplete
<1>1. WorkInv => ChainComplete
  BY DEF WorkInv, RecordInv, Backed, Sound, ChainComplete, Of
<1> QED
  BY <1>1, InvariantHolds, PTL

(* attempt submit never records a submission without a patch. *)
THEOREM SubmittedAttemptsHavePatches == Spec => []SubmittedHasPatch
<1>1. WorkInv => SubmittedHasPatch
  BY DEF WorkInv
<1> QED
  BY <1>1, InvariantHolds, PTL

(* attempt start records an attempt once its worktree is there, and what   *)
(* git worktree add deletes when it fails or is interrupted is no recorded *)
(* attempt's, unless that one was used while it was being made.            *)
THEOREM RecordedAttemptsHaveTrees == Spec => []RecordedHasTree
<1>1. WorkInv => RecordedHasTree
  BY DEF WorkInv, TreeInv, Settled, RecordedHasTree
<1> QED
  BY <1>1, InvariantHolds, PTL

(* change detect records the state of a half made worktree only where one  *)
(* was used as a killed or unfinished git worktree add had left it.        *)
THEOREM EvidenceIsWhole == Spec => []EvidenceWhole
<1>1. WorkInv => EvidenceWhole
  BY DEF WorkInv
<1> QED
  BY <1>1, InvariantHolds, PTL

(* The status check of write_attempt_transition makes an outcome final     *)
(* unless two transitions overlapped, for any clocks.                      *)
THEOREM OutcomesAreFinal == Spec => OutcomeStands
<1> DEFINE Final == \A id \in Ids : Effective(id) # "running" /\ id \notin raced'
                       => Effective(id)' = Effective(id)
<1>1. ASSUME WorkInv, [Next]_vars PROVE [Final]_vars
  <2> SUFFICES ASSUME Next, NEW id \in Ids, Effective(id) # "running", id \notin raced'
               PROVE  Effective(id)' = Effective(id)
    BY <1>1
  <2>1. SUFFICES Of(id, statuses)' = Of(id, statuses)
    BY DEF Effective
  <2>2. CASE statuses' = statuses
    BY <2>2 DEF Of
  <2>3. CASE statuses' # statuses
    <3>1. PICK p \in Procs : WriteTransition(p)
      BY <2>3 DEF Next, Command, StartWork, RecordIntent, WriteIntent, StartAttempt, StartRun, StartSubmit, StartAbandon,
         Move, StartDetect, StartPrepare, UseWorktree, LookForWorktree, AddWorktree,
         MakeWorktree, FillWorktree, StopAdding,
         WriteAttempt, Exec, WriteTrace, WriteRun, WriteChange, Match, Covered,
         WriteDiff, WritePatch, Stop, Edit, objects
    <3>2. raced' = raced /\ Moving(p, job[p].att.id) /\ Of(id, statuses) # {}
      BY <3>1 DEF WriteTransition, Done, Step, Moving, Effective, history
    <3>3. job[p].att.id # id
      BY <1>1, <3>2 DEF WorkInv, MoveInv, Of
    <3> QED
      BY <3>1, <3>3 DEF WriteTransition, Of
  <2> QED
    BY <2>2, <2>3
<1> QED
  BY <1>1, InvariantHolds, PTL DEF Spec, OutcomeStands
=============================================================================
