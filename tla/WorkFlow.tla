------------------------------ MODULE WorkFlow ------------------------------
(***************************************************************************)
(* The agent's side of the CLI (crates/rickydata-git-cli): intent write,   *)
(* issue import, work start, attempt start, run exec, change detect, patch *)
(* prepare, attempt submit and abandon, by several processes in one clone. *)
(* Each command reads what it needs and then appends objects; nothing is   *)
(* locked, and the agent goes on editing its worktree meanwhile.  The      *)
(* listings a command begins with are one step: objects are never removed, *)
(* and the step after it may come at any time, so they can be as stale as  *)
(* in the code.                                                            *)
(*                                                                         *)
(* An id is a hash of what it covers, so it is that record here: a change  *)
(* is [id, diff, runs], a patch and its stored diff are [id, changes,      *)
(* diff], of which the patch id covers only id and changes.                *)
(***************************************************************************)
EXTENDS Naturals, FiniteSets

CONSTANTS
    Procs,          \* rickygit processes in the clone
    Ids,            \* attempt ids (intent, agent, base commit, key)
    Intents,        \* ids of intents that validate
    IntentOf,       \* [Ids -> Intents]: the intent that is in the attempt id
    Starts,         \* the attempts that are started: [id, inPlace]
    Main,           \* the main working tree
    Diffs,          \* what a tree may hold that differs from the base
    Clean, Partial, Absent,
    InPlaceFirst,   \* [Ids -> BOOLEAN]: which attempt object is listed first
    MaxRuns, MaxChanges, MaxPatches, MaxRank

Trees == Ids \cup {Main}
Ranks == 1..MaxRank
Statuses == {"submitted", "abandoned"}

ASSUME WorkConstants ==
    /\ Main \notin Ids
    /\ Starts \subseteq [id : Ids, inPlace : BOOLEAN]
    /\ IntentOf \in [Ids -> Intents]
    /\ InPlaceFirst \in [Ids -> BOOLEAN]
    /\ Clean \notin Diffs /\ Partial \notin Diffs /\ Absent \notin Diffs
    /\ Clean # Partial /\ Clean # Absent /\ Partial # Absent
    /\ MaxRuns \in Nat /\ MaxChanges \in Nat /\ MaxPatches \in Nat
    /\ MaxRank \in Nat

VARIABLES
    intents,    \* agent.intent: ids of the valid ones on record
    attempts,   \* agent.attempt: [id, inPlace], status always running
    statuses,   \* agent.attempt_status: [id, status, rank]
    traces,     \* agent.run_trace: [id, no]
    runs,       \* agent.run: [id, no]
    changes,    \* agent.change: [id, diff, runs]
    diffs,      \* agent.patch_diff: [id, changes, diff]
    patches,    \* agent.patch: [id, changes, diff]
    tree,       \* [Trees -> what the directory holds]
    execs,      \* how many commands were run
    pc, job,
    raced,      \* history: attempts with two transitions under way at once
    early       \* history: attempts whose worktree was used before it was
                \* whole, or made by two starts at once

objects == <<intents, attempts, statuses, traces, runs, changes, diffs, patches>>
history == <<raced, early>>
vars == <<objects, tree, execs, pc, job, history>>

Idle == [op |-> "none"]

Init ==
    /\ intents = {} /\ attempts = {} /\ statuses = {} /\ traces = {} /\ runs = {}
    /\ changes = {} /\ diffs = {} /\ patches = {}
    /\ tree = [t \in Trees |-> IF t = Main THEN Clean ELSE Absent]
    /\ execs = 0
    /\ pc = [p \in Procs |-> "idle"]
    /\ job = [p \in Procs |-> Idle]
    /\ raced = {} /\ early = {}

----------------------------------------------------------------------------
Of(id, objs) == {o \in objs : o.id = id}

(* find_attempt: the first of the attempt objects with this id.  Neither   *)
(* in_place nor the lease is in the id, so there may be two.               *)
Found(id, a) ==
    /\ a \in Of(id, attempts)
    /\ Cardinality(Of(id, attempts)) > 1 => a.inPlace = InPlaceFirst[id]

Dir(a) == IF a.inPlace THEN Main ELSE a.id

(* effective_attempt_status: the last transition by time and object id. *)
Effective(id) ==
    IF Of(id, statuses) = {} THEN "running"
    ELSE (CHOOSE s \in Of(id, statuses) :
            \A o \in Of(id, statuses) : o.rank <= s.rank).status

Begin(p, l, j) ==
    /\ pc[p] = "idle"
    /\ pc' = [pc EXCEPT ![p] = l]
    /\ job' = [job EXCEPT ![p] = j]

Step(p, from, to) ==
    /\ pc[p] = from
    /\ pc' = [pc EXCEPT ![p] = to]

Done(p, from) ==
    /\ Step(p, from, "idle")
    /\ job' = [job EXCEPT ![p] = Idle]

----------------------------------------------------------------------------
(* intent write and issue import record only an intent that validates. *)
WriteIntent(i) ==
    /\ intents' = intents \cup {i}
    /\ UNCHANGED <<attempts, statuses, traces, runs, changes, diffs, patches,
                   tree, execs, pc, job, history>>

Backed(id) == IntentOf[id] \in intents

(* Where an attempt's start goes on once it has its intent. *)
Placed(a) == IF a.inPlace THEN "attempt" ELSE "worktree"

(* work start makes an intent of its own, records it, and goes on as       *)
(* attempt start does.                                                     *)
StartWork(p, a) ==
    /\ Begin(p, "intent", [op |-> "start", att |-> a])
    /\ UNCHANGED <<objects, tree, execs, history>>

RecordIntent(p) ==
    /\ Step(p, "intent", Placed(job[p].att))
    /\ intents' = intents \cup {IntentOf[job[p].att.id]}
    /\ UNCHANGED <<attempts, statuses, traces, runs, changes, diffs, patches,
                   tree, execs, job, history>>

(* attempt start, of a valid intent on record.  The worktree comes first   *)
(* ...                                                                     *)
StartAttempt(p, a) ==
    /\ Backed(a.id)
    /\ Begin(p, Placed(a), [op |-> "start", att |-> a])
    /\ UNCHANGED <<objects, tree, execs, history>>

(* ensure_attempt_worktree, for attempt start and run exec: a directory    *)
(* that is there is used as it is, even if it is still being filled.       *)
Ready(p) == IF job[p].op = "start" THEN "attempt" ELSE "exec"

UseWorktree(p) ==
    LET id == job[p].att.id IN
    /\ Step(p, "worktree", Ready(p))
    /\ tree[id] # Absent
    /\ early' = IF tree[id] = Partial THEN early \cup {id} ELSE early
    /\ UNCHANGED <<objects, tree, execs, job, raced>>

(* git worktree add, in three steps: the directory must not be there when  *)
(* git looks ...                                                           *)
LookForWorktree(p) ==
    /\ Step(p, "worktree", "add")
    /\ tree[job[p].att.id] = Absent
    /\ UNCHANGED <<objects, tree, execs, job, history>>

MakeWorktree(p, l) ==
    LET id == job[p].att.id IN
    /\ Step(p, "add", l)
    /\ tree' = [tree EXCEPT ![id] = Partial]
    /\ early' = IF tree[id] = Absent THEN early ELSE early \cup {id}
    /\ UNCHANGED <<objects, execs, job, raced>>

(* Mutant: git worktree add is not waited for. *)
AddWorktreeAsync(p) == MakeWorktree(p, Ready(p))

(* ... it is made, whatever another start has made there by now ...        *)
AddWorktree(p) == MakeWorktree(p, "fill")

(* ... and the base commit is checked out into it. *)
FillWorktree(p) ==
    LET id == job[p].att.id IN
    /\ Step(p, "fill", Ready(p))
    /\ tree[id] # Absent
    /\ tree' = [tree EXCEPT ![id] = Clean]
    /\ UNCHANGED <<objects, execs, job, history>>

StopAddingUnseen(p) ==      \* Mutant: the exit code of git is not looked at.
    /\ Step(p, "fill", Ready(p))
    /\ tree' = [tree EXCEPT ![job[p].att.id] = Absent]
    /\ UNCHANGED <<objects, execs, job, history>>

(* git worktree add fails or is interrupted, and deletes the directory, or *)
(* is killed, and leaves it as it is.                                      *)
StopAdding(p) ==
    /\ Done(p, "fill")
    /\ \E c \in {Absent, Partial} : tree' = [tree EXCEPT ![job[p].att.id] = c]
    /\ UNCHANGED <<objects, execs, history>>

(* ... and the attempt object after it. *)
WriteAttempt(p) ==
    /\ Done(p, "attempt")
    /\ attempts' = attempts \cup {job[p].att}
    /\ UNCHANGED <<intents, statuses, traces, runs, changes, diffs, patches,
                   tree, execs, history>>

----------------------------------------------------------------------------
(* run exec, of a running attempt *)
StartRun(p, a) ==
    /\ Found(a.id, a)
    /\ Effective(a.id) = "running"
    /\ Begin(p, IF a.inPlace THEN "exec" ELSE "worktree",
             [op |-> "run", att |-> a])
    /\ UNCHANGED <<objects, tree, execs, history>>

(* The command changes the tree as it likes; without one it cannot run. *)
Exec(p) ==
    LET d == Dir(job[p].att) IN
    /\ Step(p, "exec", "trace")
    /\ tree[d] # Absent
    /\ execs < MaxRuns
    /\ execs' = execs + 1
    /\ job' = [job EXCEPT ![p] =
                 [op |-> "run", run |-> [id |-> @.att.id, no |-> execs + 1]]]
    /\ \E c \in (IF tree[d] = Partial THEN {Partial} ELSE Diffs \cup {Clean}) :
         tree' = [tree EXCEPT ![d] = c]
    /\ UNCHANGED <<objects, history>>

(* Mutant: the run is written in the place of its trace. *)
WriteTraceLost(p) ==
    /\ Step(p, "trace", "run")
    /\ runs' = runs \cup {job[p].run}
    /\ UNCHANGED <<intents, attempts, statuses, traces, changes, diffs, patches,
                   tree, execs, job, history>>

(* The trace is written before the run that names it. *)
WriteTrace(p) ==
    /\ Step(p, "trace", "run")
    /\ traces' = traces \cup {job[p].run}
    /\ UNCHANGED <<intents, attempts, statuses, runs, changes, diffs, patches,
                   tree, execs, job, history>>

WriteRun(p) ==
    /\ Done(p, "run")
    /\ runs' = runs \cup {job[p].run}
    /\ UNCHANGED <<intents, attempts, statuses, traces, changes, diffs, patches,
                   tree, execs, history>>

----------------------------------------------------------------------------
(* attempt submit and abandon.  The status is read once, and only an       *)
(* attempt that is running may move on (or one that is planned, which no   *)
(* command writes).                                                        *)
Moving(p, id) == pc[p] = "move" /\ job[p].att.id = id

Move(p, a, status) ==
    /\ Found(a.id, a)
    /\ Begin(p, "move", [op |-> status, att |-> a])
    /\ raced' = IF \E q \in Procs \ {p} : Moving(q, a.id)
                  THEN raced \cup {a.id} ELSE raced
    /\ UNCHANGED <<objects, tree, execs, early>>

StartSubmitBare(p, a) ==    \* Mutant: no patch is asked for.
    /\ Effective(a.id) = "running"
    /\ Move(p, a, "submitted")

(* A submit needs a prepared patch of this attempt. *)
StartSubmit(p, a) ==
    /\ Of(a.id, patches) # {}
    /\ Effective(a.id) = "running"
    /\ Move(p, a, "submitted")

StartAbandonAny(p, a) ==    \* Mutant: the status is not looked at.
    Move(p, a, "abandoned")

StartAbandon(p, a) ==
    /\ Effective(a.id) = "running"
    /\ Move(p, a, "abandoned")

(* The transition carries the time of some clock; its rank stands for that *)
(* time and the object id.                                                 *)
WriteTransition(p) ==
    LET id == job[p].att.id IN
    /\ Done(p, "move")
    /\ \E r \in Ranks \ {s.rank : s \in Of(id, statuses)} :
         statuses' = statuses \cup {[id |-> id, status |-> job[p].op, rank |-> r]}
    /\ UNCHANGED <<intents, attempts, traces, runs, changes, diffs, patches,
                   tree, execs, history>>

----------------------------------------------------------------------------
(* detect_attempt_diff: git add into an index of its own is the snapshot,  *)
(* and the difference from the base commit is what the tree holds.         *)
Detected(a) == tree[Dir(a)]

(* change detect: nothing is recorded of a clean or missing tree. *)
StartDetect(p, a) ==
    /\ Found(a.id, a)
    /\ Detected(a) \notin {Absent, Clean}
    /\ Begin(p, "change", [op |-> "detect", att |-> a, diff |-> Detected(a)])
    /\ UNCHANGED <<objects, tree, execs, history>>

(* select_change_runs: the runs that were asked for, all of this attempt,  *)
(* or every run of the attempt.                                            *)
Selections(id) == {Of(id, runs)} \cup (SUBSET Of(id, runs) \ {{}})

WriteChange(p) ==
    LET id == job[p].att.id IN
    /\ Done(p, "change")
    /\ \E rs \in Selections(id) :
         changes' = changes \cup {[id |-> id, diff |-> job[p].diff, runs |-> rs]}
    /\ Cardinality(changes') <= MaxChanges
    /\ UNCHANGED <<intents, attempts, statuses, traces, runs, diffs, patches,
                   tree, execs, history>>

----------------------------------------------------------------------------
(* patch prepare: the evidence is listed, then the tree is looked at, and  *)
(* its diff must be in the evidence.                                       *)
StartPrepare(p, a) ==
    /\ Found(a.id, a)
    /\ Of(a.id, changes) # {}
    /\ Begin(p, "match", [op |-> "prepare", att |-> a,
                          changes |-> Of(a.id, changes)])
    /\ UNCHANGED <<objects, tree, execs, history>>

Covered(p) ==
    LET a == job[p].att IN
    /\ Step(p, "match", "diff")
    /\ Detected(a) # Absent
    /\ job' = [job EXCEPT ![p] =
                 [op |-> "prepare",
                  patch |-> [id |-> a.id, changes |-> @.changes,
                            diff |-> Detected(a)]]]
    /\ UNCHANGED <<objects, tree, execs, history>>

Match(p) ==
    /\ pc[p] = "match"
    /\ Detected(job[p].att) \in {c.diff : c \in job[p].changes}
    /\ Covered(p)

WriteDiff(p) ==
    /\ Step(p, "diff", "patch")
    /\ diffs' = diffs \cup {job[p].patch}
    /\ Cardinality(diffs') <= MaxPatches
    /\ UNCHANGED <<intents, attempts, statuses, traces, runs, changes, patches,
                   tree, execs, job, history>>

WritePatch(p) ==
    /\ Done(p, "patch")
    /\ patches' = patches \cup {job[p].patch}
    /\ UNCHANGED <<intents, attempts, statuses, traces, runs, changes, diffs,
                   tree, execs, history>>

----------------------------------------------------------------------------
(* A command is refused, fails or is killed. *)
Stop(p) ==
    /\ pc[p] \notin {"idle", "fill"}
    /\ Done(p, pc[p])
    /\ UNCHANGED <<objects, tree, execs, history>>

(* The agent edits a tree by hand. *)
Edit(t, c) ==
    /\ tree[t] \in Diffs \cup {Clean}
    /\ tree' = [tree EXCEPT ![t] = c]
    /\ UNCHANGED <<objects, execs, pc, job, history>>

Command(p) ==
    \/ \E a \in Starts :
         \/ StartWork(p, a) \/ StartAttempt(p, a) \/ StartRun(p, a) \/ StartSubmit(p, a)
         \/ StartAbandon(p, a) \/ StartDetect(p, a) \/ StartPrepare(p, a)
    \/ RecordIntent(p) \/ UseWorktree(p) \/ LookForWorktree(p) \/ AddWorktree(p)
    \/ FillWorktree(p) \/ StopAdding(p) \/ WriteAttempt(p)
    \/ Exec(p) \/ WriteTrace(p) \/ WriteRun(p) \/ WriteTransition(p)
    \/ WriteChange(p) \/ Match(p) \/ WriteDiff(p) \/ WritePatch(p)
    \/ Stop(p)

Next ==
    \/ \E p \in Procs : Command(p)
    \/ \E i \in Intents : WriteIntent(i)
    \/ \E t \in Trees, c \in Diffs \cup {Clean} : Edit(t, c)

Spec == Init /\ [][Next]_vars

----------------------------------------------------------------------------
Run == [id : Ids, no : 1..MaxRuns]
TypeOK ==
    /\ intents \subseteq Intents /\ attempts \subseteq Starts
    /\ statuses \subseteq [id : Ids, status : Statuses, rank : Ranks]
    /\ traces \subseteq Run /\ runs \subseteq Run
    /\ \A c \in changes : /\ c.id \in Ids /\ c.runs \subseteq Run
                          /\ c.diff \in Diffs \cup {Partial}
    /\ \A o \in diffs \cup patches :
         o.id \in Ids /\ o.diff \in Diffs \cup {Partial}
    /\ tree \in [Trees -> Diffs \cup {Clean, Partial, Absent}]
    /\ execs \in 0..MaxRuns
    /\ raced \subseteq Ids /\ early \subseteq Ids

(* Whatever is killed or overtaken, the record of a patch is complete: its *)
(* stored diff is there and is one its changes list (so resolve_patch_diff *)
(* succeeds), and so are the changes, their runs and the runs' traces, all *)
(* of the same attempt, and the attempt with its intent.                   *)
ChainComplete ==
    \A o \in patches :
        /\ o \in diffs
        /\ \E c \in o.changes : c.diff = o.diff
        /\ o.changes \subseteq Of(o.id, changes)
        /\ \A c \in o.changes : c.runs \subseteq Of(o.id, runs) \cap traces
        /\ Of(o.id, attempts) # {} /\ Backed(o.id)

(* A submitted attempt has a prepared patch of its own, and both exist     *)
(* only for attempts on record.                                            *)
SubmittedHasPatch ==
    \A s \in statuses : s.status = "submitted" =>
        Of(s.id, patches) # {} /\ Of(s.id, attempts) # {}

(* An attempt on record that is not in place has its worktree, however     *)
(* often git worktree add failed, was interrupted or killed, so that a run *)
(* or a detect does not find the directory missing.  It may only if one    *)
(* start used the directory while the git of another was making it, or two *)
(* were making it at once: the git that fails deletes it under the other.  *)
RecordedHasTree ==
    \A a \in attempts : ~a.inPlace => tree[a.id] # Absent \/ a.id \in early

(* No evidence shows the deletions of a half made worktree, unless one was *)
(* used as it was left by a killed git, or by one still at work.           *)
EvidenceWhole ==
    \A c \in changes : c.diff = Partial => c.id \in early

(* The outcome of an attempt is final, whatever the clocks say: only two   *)
(* transitions that passed the status check together can change it.        *)
OutcomeStands ==
    [][\A id \in Ids : Effective(id) # "running" /\ id \notin raced'
          => Effective(id)' = Effective(id)]_vars
=============================================================================
