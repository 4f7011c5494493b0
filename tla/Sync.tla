-------------------------------- MODULE Sync --------------------------------
(***************************************************************************)
(* A clone that exchanges its objects with others over a Git remote, at    *)
(* the level of the commands of rickygit (crates/rickydata-git-cli):       *)
(* `sync' push, pull, status and verify, `status' and `proof', the signed  *)
(* ref expectations of crates/rickydata-git-git, and every other command   *)
(* by what it does to the object store.  Writing and reading one object    *)
(* are single steps here; ObjectStore takes them apart.                    *)
(*                                                                         *)
(* An id says what an object is about and not how it is signed, so an      *)
(* object that two clones write may come in more than one wire form.       *)
(***************************************************************************)
EXTENDS Manifest, Naturals, FiniteSets

CONSTANTS
    Ids,
    Wires,      \* Wires[i]: the signed forms in which object i exists
    DiffOf,     \* the diff object of each patch among the ids
    None,       \* no such ref or file
    Torn,       \* bytes that do not parse
    Alien,      \* an object that does not have the id it claims
    MaxClaims   \* signed updates between check and transaction, at once

Patches == DOMAIN DiffOf
Objects == UNION {Wires[i] : i \in Ids}

ASSUME SyncConstants ==
    /\ DOMAIN Wires = Ids
    /\ Patches \subseteq Ids /\ DiffOf \in [Patches -> Ids]
    /\ {None, Torn, Alien} \cap Objects = {}

VARIABLES
    refs,       \* refs/rickydata of the clone
    cache,      \* its object cache
    remote,     \* refs/rickydata at the Git remote
    retired,    \* patches that have an agent.patch_retirement object
    claims,     \* signed ref updates that passed their check
    job,        \* the sync push, sync status, status or proof that runs
    held,       \* history: what it verified, listed or signed at first, of
                \* the refs that no one moved until it listed them, and that
                \* no one replaced where a push had found or put them
    viewer      \* the host grants nothing that a manifest calls a mutation

clone == <<refs, cache, retired>>
vars == <<clone, remote, claims, job, held, viewer>>

Idle == [op |-> "none"]

Init ==
    /\ refs = [i \in Ids |-> None]
    /\ cache = [i \in Ids |-> None]
    /\ remote = [i \in Ids |-> None]
    /\ retired = {} /\ claims = {}
    /\ job = Idle /\ held = refs
    /\ viewer = FALSE

----------------------------------------------------------------------------
(* The host runs a command that its grants cover. *)
Granted(cmd) == viewer => Mutates(cmd) = {}

(* The commands by what they do to the store: they write an object through *)
(* write_cached_object or write_canonical_object, or read one or many      *)
(* through read_cached_object or verify_cached_object.                     *)
Writers == {"object_write", "intent_write", "issue_import", "work_start",
            "attempt_start", "attempt_abandon", "attempt_submit", "run_exec",
            "change_detect", "patch_prepare", "patch_retire", "patch_apply",
            "relay_pull"}
Readers == {"object_read", "object_verify", "intent_show", "receipt_verify",
            "attempt_list", "attempt_show", "attempt_status", "run_list",
            "run_show", "change_list", "change_show", "patch_list",
            "patch_show", "patch_export", "patch_checkout",
            "patch_review_queue", "sync_verify", "repo_status", "proof",
            "relay_push"}

(* The manifest knows every one of them. *)
ASSUME CommandsDeclared == Writers \cup Readers \subseteq Commands

Intact(b) == b \in Objects

(* A ref moves.  What was verified or signed of it is void if the command  *)
(* has still to list it, and stands if the command acts on an older list.  *)
Point(i, b) ==
    /\ refs' = [refs EXCEPT ![i] = b]
    /\ held' = IF job.op \in {"list", "push"} /\ b # refs[i]
                 THEN [held EXCEPT ![i] = None] ELSE held

(* An object is written: the cache file must be new or the same, and so    *)
(* must the ref.  A writer that fails at the ref, or dies before it,       *)
(* leaves the cache file.                                                  *)
Write(i, b) ==
    /\ \E cmd \in Writers : Granted(cmd)
    /\ cache[i] \in {None, b}
    /\ cache' = [cache EXCEPT ![i] = b]
    /\ \/ refs[i] = None /\ Point(i, b)
       \/ UNCHANGED <<refs, held>>
    /\ UNCHANGED <<retired, remote, claims, job, viewer>>

(* What reading the objects I leaves in the cache: a missing file is       *)
(* filled from a ref that holds the object.                                *)
Filled(I) ==
    [i \in Ids |-> IF i \in I /\ cache[i] = None /\ Intact(refs[i])
                     THEN refs[i] ELSE cache[i]]

(* patch retire, of a patch that list_patches finds and can read *)
Retire(p) ==
    /\ Granted("patch_retire")
    /\ refs[p] # None /\ Filled({p})[p] # None
    /\ cache' = Filled(Patches)
    /\ retired' = retired \cup {p}
    /\ UNCHANGED <<refs, remote, claims, job, held, viewer>>

(* A command reads an object, its only one or one of many. *)
Read(i) ==
    /\ \E cmd \in Readers : Granted(cmd)
    /\ cache' = Filled({i})
    /\ UNCHANGED <<refs, retired, remote, claims, job, held, viewer>>

(* Someone clears the cache. *)
ClearCache ==
    /\ cache' = [i \in Ids |-> None]
    /\ UNCHANGED <<refs, retired, remote, claims, job, held, viewer>>

----------------------------------------------------------------------------
(* sync verify, and the first part of status and proof.                    *)

(* list_ref_backed_objects fails on a blob that does not parse. *)
Listable == \A i \in Ids : refs[i] # Torn

(* Mutant: a cached object is not compared with its ref. *)
ObjectValidCached(i) == Intact(cache[i]) \/ Intact(refs[i])

(* verify_cached_object: the cached object must agree with the ref if      *)
(* there is one; without a cached object the ref must hold the object.     *)
ObjectValid(i) ==
    IF cache[i] = None THEN Intact(refs[i]) ELSE refs[i] \in {None, cache[i]}

(* build_sync_verify answers "ok": every listed object is valid, and so is *)
(* the diff of every patch that is not retired.                            *)
VerifyOk ==
    /\ Listable
    /\ \A i \in Ids : refs[i] # None => ObjectValid(i)
    /\ \A p \in Patches \ retired : refs[p] # None => ObjectValid(DiffOf[p])

----------------------------------------------------------------------------
(* Parity with the remote: sync status, and status and proof with a remote. *)

Begin(j) ==
    /\ job = Idle
    /\ job' = j /\ held' = refs

Done ==
    /\ job' = Idle /\ held' = [i \in Ids |-> None]
    /\ UNCHANGED <<clone, remote, claims, viewer>>

(* status or proof verifies first ... *)
StartProof ==
    /\ Granted("repo_status")
    /\ VerifyOk
    /\ Begin([op |-> "list"])
    /\ cache' = Filled(Ids)
    /\ UNCHANGED <<refs, retired, remote, claims, viewer>>

(* ... then lists the local refs: local_rickydata_refs ... *)
ListLocal ==
    /\ job.op = "list"
    /\ job' = [op |-> "compare", local |-> refs]
    /\ UNCHANGED <<clone, remote, claims, held, viewer>>

StartStatus ==
    /\ Granted("sync_status")
    /\ Begin([op |-> "compare", local |-> refs])
    /\ UNCHANGED <<clone, remote, claims, viewer>>

(* Mutant: only the names of the refs are compared. *)
ParityOfNames(local) == \A i \in Ids : local[i] = None <=> remote[i] = None

(* Neither local_only_refs nor remote_only_refs nor divergent_refs. *)
Parity(local) == local = remote

(* ... and at last those of the remote: remote_rickydata_refs. *)
ReportParity     == job.op = "compare" /\ Parity(job.local) /\ Done
ReportDifference == job.op = "compare" /\ ~Parity(job.local) /\ Done

----------------------------------------------------------------------------
(* sync push and sync pull.                                                *)

(* With a signing key the push first signs what every local ref points at. *)
StartPush ==
    /\ Granted("sync_push")
    /\ Begin([op |-> "push"])
    /\ UNCHANGED <<clone, remote, claims, viewer>>

(* Then it runs git push, which lists the local refs once more ... *)
PushLists ==
    /\ job.op = "push"
    /\ job' = [op |-> "listed", local |-> refs]
    /\ UNCHANGED <<clone, remote, claims, held, viewer>>

(* ... and asks the remote what it has of them. *)
PushAsks ==
    /\ job.op = "listed"
    /\ job' = [op |-> "send", local |-> job.local,
               known |-> [i \in Ids |-> IF job.local[i] = None THEN None ELSE remote[i]]]
    /\ UNCHANGED <<clone, remote, claims, held, viewer>>

(* git push sends what it listed where it found nothing.  The remote takes *)
(* it if there is nothing still; otherwise that ref is rejected, and so is *)
(* one that git found with other bytes, while the others are sent.         *)
SendRef(i) ==
    /\ job.op = "send"
    /\ job.local[i] # None /\ job.known[i] = None
    /\ remote[i] = None
    /\ remote' = [remote EXCEPT ![i] = job.local[i]]
    /\ job' = [job EXCEPT !.known[i] = job.local[i]]
    /\ UNCHANGED <<clone, claims, held, viewer>>

(* Mutant: the exit code of git push is not looked at. *)
AcceptedAnyway(local, known) == TRUE

(* git push exits with 0: each ref that it listed was there already, or    *)
(* the remote has taken it.                                                *)
Accepted(local, known) == \A i \in Ids : local[i] # None => known[i] = local[i]

(* The push reports "ok" and its signed expectations, or the rejection. *)
PushOk       == job.op = "send" /\ Accepted(job.local, job.known) /\ Done
PushRejected == job.op = "send" /\ ~Accepted(job.local, job.known) /\ Done

(* git fetch with a refspec outside refs/heads and refs/tags replaces what *)
(* the local refs point at, one after the other.                           *)
FetchRef(i) ==
    /\ Granted("sync_pull")
    /\ remote[i] \notin {None, refs[i]}
    /\ Point(i, remote[i])
    /\ UNCHANGED <<cache, retired, remote, claims, job, viewer>>

----------------------------------------------------------------------------
(* write_git_object_ref_with_expectation: a signed update of one ref from  *)
(* the value it is expected to have.                                       *)

(* The signature is good and the ref is as expected. *)
CheckExpectation(i, old, new) ==
    /\ ~viewer
    /\ refs[i] = old /\ old # new
    /\ Cardinality(claims) < MaxClaims
    /\ claims' = claims \cup {[id |-> i, old |-> old, new |-> new]}
    /\ UNCHANGED <<clone, remote, job, held, viewer>>

(* Mutant: the transaction takes any previous value. *)
MatchesAny(c) == TRUE

(* The transaction finds MustNotExist or MustExistAndMatch satisfied. *)
Matches(c) == refs[c.id] = c.old

MoveRef(c) ==
    /\ Matches(c)
    /\ Point(c.id, c.new)
    /\ claims' = claims \ {c}
    /\ UNCHANGED <<cache, retired, remote, job, viewer>>

DropClaim(c) ==
    /\ claims' = claims \ {c}
    /\ UNCHANGED <<clone, remote, job, held, viewer>>

----------------------------------------------------------------------------
(* A command fails, is rejected or is killed between its steps. *)
Abort == job # Idle /\ Done

(* Another clone pushes an object. *)
OthersPush(i, b) ==
    /\ remote[i] = None
    /\ remote' = [remote EXCEPT ![i] = b]
    /\ UNCHANGED <<clone, claims, job, held, viewer>>

(* Somebody with access to the remote replaces an object there, perhaps    *)
(* one that a push has just found or put there.                            *)
Tamper(i, b) ==
    /\ Intact(remote[i])
    /\ remote' = [remote EXCEPT ![i] = b]
    /\ held' = IF job.op = "send" /\ job.known[i] # None
                 THEN [held EXCEPT ![i] = None] ELSE held
    /\ UNCHANGED <<clone, claims, job, viewer>>

(* Between two commands the host withdraws all grants but those to read. *)
Restrict ==
    /\ job = Idle /\ claims = {}
    /\ viewer' = TRUE
    /\ UNCHANGED <<clone, remote, claims, job, held>>

Next ==
    \/ \E i \in Ids :
         \/ \E b \in Wires[i] : Write(i, b) \/ OthersPush(i, b)
         \/ \E b \in {Torn, Alien} : Tamper(i, b)
         \/ Read(i) \/ FetchRef(i) \/ SendRef(i)
         \/ \E old \in Wires[i] \cup {None}, new \in Wires[i] :
              CheckExpectation(i, old, new)
    \/ \E c \in claims : MoveRef(c) \/ DropClaim(c)
    \/ \E p \in Patches : Retire(p)
    \/ StartProof \/ StartStatus \/ ListLocal
    \/ ReportParity \/ ReportDifference
    \/ StartPush \/ PushLists \/ PushAsks \/ PushOk \/ PushRejected
    \/ Abort \/ ClearCache \/ Restrict

Spec == Init /\ [][Next]_vars

----------------------------------------------------------------------------
(* When sync verify says "ok" every object ref of the clone holds the      *)
(* object it is named after, whatever the cache still holds from before a  *)
(* pull, and the diff of every patch to review can be read.                *)
VerifySound ==
    VerifyOk =>
        /\ \A i \in Ids : refs[i] # None => Intact(refs[i])
        /\ \A p \in Patches \ retired : refs[p] # None =>
             Intact(refs[DiffOf[p]]) \/ Intact(cache[DiffOf[p]])

(* When status or proof reports parity, the remote holds the very object   *)
(* that was verified, for every ref that no one moved between the          *)
(* verification and the local listing: verification, local listing and     *)
(* remote listing are three moments.                                       *)
ParityTrue ==
    job.op = "compare" /\ Parity(job.local) =>
        \A i \in Ids : held[i] \in {None, remote[i]}

(* What a push attests under its signature ("after this push, ref X should *)
(* still point to oid Y") is what the remote holds when git push has       *)
(* succeeded, whoever pushed in between and wherever the local refs have   *)
(* moved since git listed them: for every ref that did not move between    *)
(* signing and git's listing, and that no one with access to the remote    *)
(* replaced after git found it or put it there.                            *)
AttestedPushed ==
    job.op = "send" /\ Accepted(job.local, job.known) =>
        \A i \in Ids : held[i] \in {None, remote[i]}

(* A ref that is set is replaced only by what a pull brings or by a signed *)
(* update that expects exactly the value it replaces, however many updates *)
(* were checked against the same value before.                             *)
NoLostUpdate ==
    [][\A i \in Ids :
         refs[i] # None /\ refs'[i] # refs[i] =>
           \/ refs'[i] = remote[i]
           \/ [id |-> i, old |-> refs[i], new |-> refs'[i]] \in claims]_vars

(* An agent that may run only the commands whose manifest declares no      *)
(* mutation moves no ref, retires nothing, and adds to the cache only what *)
(* the refs hold.                                                          *)
ViewerHarmless ==
    [][viewer =>
         /\ refs' = refs /\ retired' = retired
         /\ \A i \in Ids : cache'[i] \in {None, cache[i], refs[i]}]_vars
=============================================================================
