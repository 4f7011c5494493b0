----------------------------- MODULE StoreInit -----------------------------
(***************************************************************************)
(* `rickygit init' and the check every other command makes before it uses  *)
(* the store (crates/rickydata-git-git): the directories are made one by   *)
(* one, the VERSION file last, and a store counts as initialized once      *)
(* VERSION can be read.  Several processes may do either at once.          *)
(***************************************************************************)
EXTENDS StoreProcesses

CONSTANTS
    NumDirs,    \* directories of the layout, in the order init makes them
    TempDir     \* the position of .git/rickydata/tmp among them

ASSUME LayoutConstants == NumDirs \in Nat /\ TempDir \in 1..NumDirs

VARIABLES
    dirs,       \* the directories that exist
    version,    \* VERSION: "absent", "empty", "current", or of another release
    next,       \* the next directory an init looks at
    made,       \* whether this init created anything (created_paths)
    result,     \* how the last call of each process ended
    ready       \* history: some init or open had succeeded when it began

layoutVars == <<dirs, version, pc, next, made, result, ready>>

Layout == 1..NumDirs
Versions == {"absent", "empty", "current", "other"}
Good == {"created", "already", "opened"}

(* A fresh clone, or one that another release initialized. *)
LayoutInit ==
    /\ \/ dirs = {} /\ version = "absent"
       \/ dirs = Layout /\ version = "other"
    /\ pc = [p \in Procs |-> "idle"]
    /\ next = [p \in Procs |-> 1]
    /\ made = [p \in Procs |-> FALSE]
    /\ result = [p \in Procs |-> "none"]
    /\ ready = [p \in Procs |-> FALSE]

Finish(p, r) ==
    /\ Goto(p, "idle")
    /\ result' = [result EXCEPT ![p] = r]

BeginCall(p, l) ==
    /\ pc[p] = "idle"
    /\ Goto(p, l)
    /\ next' = [next EXCEPT ![p] = 1]
    /\ made' = [made EXCEPT ![p] = FALSE]
    /\ result' = [result EXCEPT ![p] = "none"]
    /\ ready' = [ready EXCEPT ![p] =
                    \E q \in Procs : result[q] \in Good \/ ready[q]]
    /\ UNCHANGED <<dirs, version>>

----------------------------------------------------------------------------
(* init_rickydata_repository *)
StartInit(p) == BeginCall(p, "dirs")

(* ensure_dir: a directory that exists is passed over, another is made.    *)
(* create_dir_all succeeds on a directory made meanwhile.                  *)
EnsureDir(p) ==
    /\ pc[p] = "dirs"
    /\ next[p] <= NumDirs
    /\ \/ next[p] \in dirs /\ next' = [next EXCEPT ![p] = @ + 1] /\ UNCHANGED pc
       \/ next[p] \notin dirs /\ Goto(p, "mkdir") /\ UNCHANGED next
    /\ UNCHANGED <<dirs, version, made, result, ready>>

MakeDir(p) ==
    /\ pc[p] = "mkdir"
    /\ dirs' = dirs \cup {next[p]}
    /\ made' = [made EXCEPT ![p] = TRUE]
    /\ next' = [next EXCEPT ![p] = @ + 1]
    /\ Goto(p, "dirs")
    /\ UNCHANGED <<version, result, ready>>

(* Mutant: VERSION is looked at before the last directory is made. *)
VersionStatEarly(p) ==
    /\ pc[p] = "dirs"
    /\ next[p] >= NumDirs
    /\ Goto(p, IF version = "absent" THEN "create" ELSE "match")
    /\ UNCHANGED <<dirs, version, next, made, result, ready>>

(* Mutant: VERSION is written without looking at it. *)
VersionStatBlind(p) ==
    /\ pc[p] = "dirs"
    /\ next[p] > NumDirs
    /\ Goto(p, "create")
    /\ UNCHANGED <<dirs, version, next, made, result, ready>>

(* ensure_version_file: an existing file must match, else it is written *)
VersionStat(p) ==
    /\ pc[p] = "dirs"
    /\ next[p] > NumDirs
    /\ Goto(p, IF version = "absent" THEN "create" ELSE "match")
    /\ UNCHANGED <<dirs, version, next, made, result, ready>>

VersionMatch(p) ==
    /\ pc[p] = "match"
    /\ Finish(p, CASE version # "current" -> "mismatch"
                   [] made[p] -> "created"
                   [] OTHER -> "already")
    /\ UNCHANGED <<dirs, version, next, made, ready>>

(* Mutant: an existing VERSION is removed before it is written. *)
VersionRemove(p) ==
    /\ pc[p] = "create"
    /\ version' = "absent"
    /\ Goto(p, "fill")
    /\ UNCHANGED <<dirs, next, made, result, ready>>

(* fs::write first creates or truncates the file ... *)
VersionCreate(p) ==
    /\ pc[p] = "create"
    /\ version' = "empty"
    /\ Goto(p, "fill")
    /\ UNCHANGED <<dirs, next, made, result, ready>>

(* ... and then fills it. *)
VersionFill(p) ==
    /\ pc[p] = "fill"
    /\ version' = "current"
    /\ Finish(p, "created")
    /\ UNCHANGED <<dirs, next, made, ready>>

----------------------------------------------------------------------------
(* open_initialized_store *)
StartOpen(p) == BeginCall(p, "exists")

OpenExists(p) ==
    /\ pc[p] = "exists"
    /\ \/ version = "absent" /\ Finish(p, "uninitialized")
       \/ version # "absent" /\ Goto(p, "check") /\ UNCHANGED result
    /\ UNCHANGED <<dirs, version, next, made, ready>>

OpenCheck(p) ==
    /\ pc[p] = "check"
    /\ \/ version # "current" /\ Finish(p, "refused")
       \/ version = "current" /\ Goto(p, "temp") /\ UNCHANGED result
    /\ UNCHANGED <<dirs, version, next, made, ready>>

OpenTempDir(p) ==
    /\ pc[p] = "temp"
    /\ Finish(p, IF TempDir \in dirs THEN "opened" ELSE "uninitialized")
    /\ UNCHANGED <<dirs, version, next, made, ready>>

(* The process is killed. *)
Kill(p) ==
    /\ pc[p] # "idle"
    /\ Finish(p, "killed")
    /\ UNCHANGED <<dirs, version, next, made, ready>>

LayoutNext ==
    \E p \in Procs :
        \/ StartInit(p) \/ EnsureDir(p) \/ MakeDir(p)
        \/ VersionStat(p) \/ VersionMatch(p) \/ VersionCreate(p) \/ VersionFill(p)
        \/ StartOpen(p) \/ OpenExists(p) \/ OpenCheck(p) \/ OpenTempDir(p)
        \/ Kill(p)

LayoutSpec == LayoutInit /\ [][LayoutNext]_layoutVars

----------------------------------------------------------------------------
LayoutTypeOK ==
    /\ dirs \subseteq Layout
    /\ version \in Versions
    /\ pc \in [Procs -> {"idle", "dirs", "mkdir", "match", "create", "fill",
                         "exists", "check", "temp"}]
    /\ next \in [Procs -> 1..(NumDirs + 1)]
    /\ made \in [Procs -> BOOLEAN]
    /\ result \in [Procs -> Good \cup {"none", "mismatch", "refused",
                                       "uninitialized", "killed"}]
    /\ ready \in [Procs -> BOOLEAN]

(* open_initialized_store looks at VERSION and tmp only, yet a command that *)
(* got the store open finds the whole layout: VERSION is written last.      *)
OpenedIsComplete ==
    \A p \in Procs : result[p] \in Good => dirs = Layout

(* Once some call succeeded, no call that begins later finds the store     *)
(* uninitialized, not even while other inits rewrite VERSION.              *)
InitializedStays ==
    \A p \in Procs : ready[p] => result[p] # "uninitialized"

(* A store of another release is never taken over.                         *)
ForeignStoreKept == [][version = "other" => version' = "other"]_layoutVars
=============================================================================
