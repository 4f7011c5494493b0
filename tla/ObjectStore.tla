---------------------------- MODULE ObjectStore ----------------------------
(***************************************************************************)
(* The canonical object store of one clone (crates/rickydata-git-git), as  *)
(* several rickygit processes use it at once.  Nothing locks the store:    *)
(* every object lives in a cache file and in a Git ref, and each process   *)
(* walks its own sequence of system calls over both.                       *)
(*                                                                         *)
(* The content address covers kind, schema version and body only, so two   *)
(* different byte strings (other signatures, another created_at_ms) may    *)
(* carry the same object id; `wire' stands for that uncovered part.        *)
(***************************************************************************)
EXTENDS StoreProcesses, FiniteSets

CONSTANTS
    Hashes,     \* what contents may hash to ("sha256:...")
    Ids,        \* the object ids among them that the processes work on
    Wires,      \* what the bytes say beyond the content address
    None,       \* no such file, no such ref
    Empty,      \* a file that was created or truncated, not yet filled
    Garbled     \* bytes that do not parse as a canonical object

(* `content' is the id that kind, schema version and body hash to;         *)
(* `claimed' is the id (and body hash) that the envelope states.           *)
Envelope == [claimed : Hashes, content : Hashes, wire : Wires]

File == Envelope \cup {Empty, Garbled}
Blob == Envelope \cup {Garbled}

ASSUME StoreConstants ==
    /\ Ids # {} /\ Ids \subseteq Hashes
    /\ None \notin File
    /\ Empty \notin Blob
    /\ Garbled \notin Envelope

(* object_field_diagnostics finds nothing: OBJECT003, 004 and 005 are clear *)
Intact(i, e) == e \in Envelope /\ e.claimed = i /\ e.content = i

VARIABLES
    cache,      \* [Ids -> File or None]  .git/rickydata/cache/objects/sha256
    tmp,        \* [Ids -> File or None]  .git/rickydata/tmp/<id>.tmp
    refs,       \* [Ids -> Blob or None]  refs/rickydata/objects/sha256
    op,         \* the API call each process is in, or was in last
    req,        \* the object id it was asked for
    buf,        \* the object it carries: to be written, or just read
    fd,         \* where the file it opened for writing is linked now
    out,        \* the result of its last API call
    acked,      \* history: the <<id, object>> pairs reported as written
    expects     \* history: the ids reported as written before its call began

disk  == <<cache, tmp, refs>>
local == <<pc, op, req, buf, fd, out>>
vars  == <<cache, tmp, refs, pc, op, req, buf, fd, out, acked, expects>>

Labels == {"idle", "stat", "compare", "open", "fill", "rename", "refcheck",
           "refcreate", "ack", "lookup", "load", "readref", "vstat", "vload",
           "vref"}
Outcomes == {"none", "ok", "rejected", "conflict", "notfound", "error",
             "valid", "invalid", "killed"}

AckedIds == {a[1] : a \in acked}

Init ==
    /\ cache = [i \in Ids |-> None]
    /\ tmp   = [i \in Ids |-> None]
    /\ refs  = [i \in Ids |-> None]
    /\ pc    = [p \in Procs |-> "idle"]
    /\ op    = [p \in Procs |-> "none"]
    /\ req   = [p \in Procs |-> CHOOSE i \in Ids : TRUE]
    /\ buf   = [p \in Procs |-> Empty]
    /\ fd    = [p \in Procs |-> "none"]
    /\ out   = [p \in Procs |-> "none"]
    /\ acked = {}
    /\ expects = [p \in Procs |-> {}]

----------------------------------------------------------------------------
(* Bookkeeping shared by the steps.                                        *)

(* The API call returns with outcome o.  For a verify, "notfound" is the   *)
(* report OBJECT001 and "error" or "conflict" the report OBJECT007.        *)
Return(p, o) ==
    /\ pc'  = [pc EXCEPT ![p] = "idle"]
    /\ out' = [out EXCEPT ![p] = o]

Continue(p, l) ==
    /\ Goto(p, l)
    /\ UNCHANGED out

Verdict(i, e) == IF Intact(i, e) THEN "valid" ELSE "invalid"

(* read_object_from_cache_or_ref succeeded with object e; verify goes on   *)
(* to verify_object_fields.                                                *)
Deliver(p, e) ==
    /\ buf' = [buf EXCEPT ![p] = e]
    /\ Return(p, IF op[p] = "verify" THEN Verdict(req[p], e) ELSE "ok")

(* A call begins; i is the id it concerns and b the object it carries. *)
Begin(p, o, i, b, l) ==
    /\ pc[p] = "idle"
    /\ pc'  = [pc EXCEPT ![p] = l]
    /\ op'  = [op EXCEPT ![p] = o]
    /\ req' = [req EXCEPT ![p] = i]
    /\ buf' = [buf EXCEPT ![p] = b]
    /\ expects' = [expects EXCEPT ![p] = AckedIds]

----------------------------------------------------------------------------
(* Writing an object: write_cached_object and write_canonical_object.      *)

(* Mutant: the object is not checked against its claimed id. *)
StartWriteUnchecked(p, e) ==
    /\ Begin(p, "write", e.claimed, e, "stat")
    /\ out' = [out EXCEPT ![p] = "none"]
    /\ UNCHANGED <<disk, fd, acked>>

(* The object is checked against its own claimed id before anything is     *)
(* touched; a failed check is returned at once.                            *)
StartWrite(p, e) ==
    /\ Intact(e.claimed, e)
    /\ Begin(p, "write", e.claimed, e, "stat")
    /\ out' = [out EXCEPT ![p] = "none"]
    /\ UNCHANGED <<disk, fd, acked>>

RejectWrite(p, e) ==
    /\ ~Intact(e.claimed, e)
    /\ Begin(p, "write", e.claimed, e, "idle")
    /\ out' = [out EXCEPT ![p] = "rejected"]
    /\ UNCHANGED <<disk, fd, acked>>

(* write_object_cache_bytes: does the cache file exist? *)
Stat(p) ==
    /\ pc[p] = "stat"
    /\ Continue(p, IF cache[req[p]] = None THEN "open" ELSE "compare")
    /\ UNCHANGED <<disk, op, req, buf, fd, acked, expects>>

(* Mutant: a write that is in the cache is reported without its ref. *)
CachedOnly(p) ==
    IF op[p] = "write"
      THEN Continue(p, "ack") /\ UNCHANGED buf
      ELSE Deliver(p, buf[p])

(* The bytes are in the cache.  A write goes on to the ref, a read or a    *)
(* verify that was repopulating the cache returns the object.              *)
Cached(p) ==
    IF op[p] = "write"
      THEN Continue(p, "refcheck") /\ UNCHANGED buf
      ELSE Deliver(p, buf[p])

(* The existing file is read and compared.  It may have been deleted since *)
(* Stat, or hold another wire form, or hold torn bytes.                    *)
Compare(p) ==
    /\ pc[p] = "compare"
    /\ \/ /\ cache[req[p]] = buf[p]
          /\ Cached(p)
       \/ /\ cache[req[p]] # buf[p]
          /\ Return(p, IF cache[req[p]] = None THEN "error" ELSE "conflict")
          /\ UNCHANGED buf
    /\ UNCHANGED <<disk, op, req, fd, acked, expects>>

(* fs::write opens the temp file with create and truncate.  Its name is    *)
(* made from the object id alone, so every process writing this object     *)
(* opens the same file.                                                    *)
OpenTemp(p) ==
    /\ pc[p] = "open"
    /\ tmp' = [tmp EXCEPT ![req[p]] = Empty]
    /\ fd'  = [fd EXCEPT ![p] = "tmp"]
    /\ pc'  = [pc EXCEPT ![p] = "fill"]
    /\ UNCHANGED <<cache, refs, op, req, buf, out, acked, expects>>

(* What a file holding c may hold after b is written from offset 0 (over   *)
(* longer bytes of another process a tail of those bytes remains), and     *)
(* after only a part of b was.                                             *)
Overwrite(c, b) == IF c \in {Empty, b} THEN {b} ELSE {b, Garbled}
Partial(c, b)   == IF c = b THEN {b} ELSE {c, Garbled}

(* The bytes go wherever the open file is linked by now. *)
WriteThrough(p, new) ==
    \/ /\ fd[p] = "tmp"
       /\ \E c \in new[tmp[req[p]]] : tmp' = [tmp EXCEPT ![req[p]] = c]
       /\ UNCHANGED cache
    \/ /\ fd[p] = "cache"
       /\ \E c \in new[cache[req[p]]] : cache' = [cache EXCEPT ![req[p]] = c]
       /\ UNCHANGED tmp
    \/ /\ fd[p] = "gone"
       /\ UNCHANGED <<tmp, cache>>

Fill(p) ==
    /\ pc[p] = "fill"
    /\ WriteThrough(p, [c \in File |-> Overwrite(c, buf[p])])
    /\ pc' = [pc EXCEPT ![p] = "rename"]
    /\ fd' = [fd EXCEPT ![p] = "none"]
    /\ UNCHANGED <<refs, op, req, buf, out, acked, expects>>

(* The files that others hold open move with the rename. *)
Relinked(i) ==
    [q \in Procs |->
        CASE req[q] = i /\ fd[q] = "tmp"   -> "cache"
          [] req[q] = i /\ fd[q] = "cache" -> "gone"
          [] OTHER -> fd[q]]

(* fs::rename moves the temp file over the cache file, or fails because    *)
(* another process has already renamed it.                                 *)
Rename(p) ==
    /\ pc[p] = "rename"
    /\ \/ /\ tmp[req[p]] # None
          /\ cache' = [cache EXCEPT ![req[p]] = tmp[req[p]]]
          /\ tmp'   = [tmp EXCEPT ![req[p]] = None]
          /\ fd'    = Relinked(req[p])
          /\ Cached(p)
       \/ /\ tmp[req[p]] = None
          /\ Return(p, "error")
          /\ UNCHANGED <<cache, tmp, fd, buf>>
    /\ UNCHANGED <<refs, op, req, acked, expects>>

(* write_git_object_ref: an existing ref must point at the same blob *)
RefCheck(p) ==
    /\ pc[p] = "refcheck"
    /\ \/ refs[req[p]] = None   /\ Continue(p, "refcreate")
       \/ refs[req[p]] = buf[p] /\ Continue(p, "ack")
       \/ refs[req[p]] \notin {None, buf[p]} /\ Return(p, "error")
    /\ UNCHANGED <<disk, op, req, buf, fd, acked, expects>>

(* Mutant: the ref is set with PreviousValue::Any. *)
RefSet(p) ==
    /\ pc[p] = "refcreate"
    /\ refs' = [refs EXCEPT ![req[p]] = buf[p]]
    /\ Continue(p, "ack")
    /\ UNCHANGED <<cache, tmp, op, req, buf, fd, acked, expects>>

(* The ref is created with PreviousValue::MustNotExist.  When another      *)
(* process created it meanwhile the transaction fails; gix may accept an   *)
(* existing ref that already has the new value.                            *)
RefCreate(p) ==
    /\ pc[p] = "refcreate"
    /\ \/ /\ refs[req[p]] \in {None, buf[p]}
          /\ refs' = [refs EXCEPT ![req[p]] = buf[p]]
          /\ Continue(p, "ack")
       \/ /\ refs[req[p]] # None
          /\ Return(p, "error")
          /\ UNCHANGED refs
    /\ UNCHANGED <<cache, tmp, op, req, buf, fd, acked, expects>>

(* The ObjectWriteReport reaches the caller. *)
Ack(p) ==
    /\ pc[p] = "ack"
    /\ Return(p, "ok")
    /\ acked' = acked \cup {<<req[p], buf[p]>>}
    /\ UNCHANGED <<disk, op, req, buf, fd, expects>>

----------------------------------------------------------------------------
(* Reading and verifying.                                                  *)

(* read_cached_object *)
StartRead(p, i) ==
    /\ Begin(p, "read", i, Empty, "lookup")
    /\ out' = [out EXCEPT ![p] = "none"]
    /\ UNCHANGED <<disk, fd, acked>>

(* verify_cached_object *)
StartVerify(p, i) ==
    /\ Begin(p, "verify", i, Empty, "vstat")
    /\ out' = [out EXCEPT ![p] = "none"]
    /\ UNCHANGED <<disk, fd, acked>>

(* read_object_from_cache_or_ref: does the cache file exist? *)
Lookup(p) ==
    /\ pc[p] = "lookup"
    /\ Continue(p, IF cache[req[p]] = None THEN "readref" ELSE "load")
    /\ UNCHANGED <<disk, op, req, buf, fd, acked, expects>>

(* A cached file is parsed and returned as it is: no field is compared     *)
(* with the requested id on this path.                                     *)
Load(p) ==
    /\ pc[p] = "load"
    /\ \/ /\ cache[req[p]] \in Envelope
          /\ Deliver(p, cache[req[p]])
       \/ /\ cache[req[p]] \notin Envelope
          /\ Return(p, "error")
          /\ UNCHANGED buf
    /\ UNCHANGED <<disk, op, req, fd, acked, expects>>

(* Without a cache file the ref is read, parsed and checked against the    *)
(* requested id; only a good object goes on to repopulate the cache.       *)
ReadRef(p) ==
    /\ pc[p] = "readref"
    /\ \/ /\ refs[req[p]] = None
          /\ Return(p, "notfound")
          /\ UNCHANGED buf
       \/ /\ refs[req[p]] # None
          /\ ~Intact(req[p], refs[req[p]])
          /\ Return(p, "error")
          /\ UNCHANGED buf
       \/ /\ Intact(req[p], refs[req[p]])
          /\ buf' = [buf EXCEPT ![p] = refs[req[p]]]
          /\ Continue(p, "stat")
    /\ UNCHANGED <<disk, op, req, fd, acked, expects>>

(* verify_cached_object looks for the cache file itself, and asks          *)
(* read_object_from_cache_or_ref (which looks again) when there is none.   *)
VerifyStat(p) ==
    /\ pc[p] = "vstat"
    /\ Continue(p, IF cache[req[p]] = None THEN "lookup" ELSE "vload")
    /\ UNCHANGED <<disk, op, req, buf, fd, acked, expects>>

VerifyLoad(p) ==
    /\ pc[p] = "vload"
    /\ \/ /\ cache[req[p]] \in Envelope
          /\ buf' = [buf EXCEPT ![p] = cache[req[p]]]
          /\ Continue(p, "vref")
       \/ /\ cache[req[p]] \notin Envelope
          /\ Return(p, "invalid")                             \* OBJECT002
          /\ UNCHANGED buf
    /\ UNCHANGED <<disk, op, req, fd, acked, expects>>

(* append_ref_consistency_diagnostics, then verify_object_fields: a        *)
(* missing ref raises nothing, a ref with other bytes raises OBJECT006.    *)
VerifyRef(p) ==
    /\ pc[p] = "vref"
    /\ Return(p, IF refs[req[p]] \in {None, buf[p]}
                   THEN Verdict(req[p], buf[p])
                   ELSE "invalid")
    /\ UNCHANGED <<disk, op, req, buf, fd, acked, expects>>

----------------------------------------------------------------------------
(* What happens around the processes.                                      *)

(* A process is killed, or its next system call fails and the error is     *)
(* returned.  In the middle of a write the file may keep a part.           *)
Abort(p) ==
    /\ pc[p] # "idle"
    /\ Return(p, "killed")
    /\ fd' = [fd EXCEPT ![p] = "none"]
    /\ IF pc[p] = "fill"
         THEN WriteThrough(p, [c \in File |-> Partial(c, buf[p])])
         ELSE UNCHANGED <<tmp, cache>>
    /\ UNCHANGED <<refs, op, req, buf, acked, expects>>

(* Someone deletes a cached object (`rm -r .git/rickydata/cache'). *)
DeleteCached(i) ==
    /\ cache[i] # None
    /\ cache' = [cache EXCEPT ![i] = None]
    /\ fd' = [q \in Procs |->
                IF req[q] = i /\ fd[q] = "cache" THEN "gone" ELSE fd[q]]
    /\ UNCHANGED <<tmp, refs, pc, op, req, buf, out, acked, expects>>

(* `sync pull' runs git fetch refs/rickydata/*:refs/rickydata/*: whatever  *)
(* blob the remote holds under the name replaces the local one.            *)
Fetch(i, b) ==
    /\ refs' = [refs EXCEPT ![i] = b]
    /\ UNCHANGED <<cache, tmp, local, acked, expects>>

----------------------------------------------------------------------------
Step(p) ==
    \/ Stat(p) \/ Compare(p) \/ OpenTemp(p) \/ Fill(p) \/ Rename(p)
    \/ RefCheck(p) \/ RefCreate(p) \/ Ack(p)
    \/ Lookup(p) \/ Load(p) \/ ReadRef(p)
    \/ VerifyStat(p) \/ VerifyLoad(p) \/ VerifyRef(p)

Start(p) ==
    \/ \E e \in {f \in Envelope : f.claimed \in Ids} :
            StartWrite(p, e) \/ RejectWrite(p, e)
    \/ \E i \in Ids : StartRead(p, i) \/ StartVerify(p, i)

NextLocal ==
    \/ \E p \in Procs : Start(p) \/ Step(p) \/ Abort(p)
    \/ \E i \in Ids : DeleteCached(i)

(* A clone that never fetches. *)
SpecLocal == Init /\ [][NextLocal]_vars

(* A clone that also fetches from a remote it cannot trust. *)
NextSync == NextLocal \/ \E i \in Ids, b \in Blob : Fetch(i, b)

SpecSync == Init /\ [][NextSync]_vars

----------------------------------------------------------------------------
(* Properties.                                                             *)

TypeOK ==
    /\ cache \in [Ids -> File \cup {None}]
    /\ tmp   \in [Ids -> File \cup {None}]
    /\ refs  \in [Ids -> Blob \cup {None}]
    /\ pc  \in [Procs -> Labels]
    /\ op  \in [Procs -> {"none", "write", "read", "verify"}]
    /\ req \in [Procs -> Ids]
    /\ buf \in [Procs -> File]
    /\ fd  \in [Procs -> {"none", "tmp", "cache", "gone"}]
    /\ out \in [Procs -> Outcomes]
    /\ acked \subseteq Ids \X Envelope
    /\ expects \in [Procs -> SUBSET Ids]

(* Whatever other writers, crashes and cache deletions did, an object      *)
(* that write_canonical_object reported as written is exactly what its ref *)
(* holds: two wire forms of one id are never both reported as written.     *)
AckedDurable == \A a \in acked : refs[a[1]] = a[2]

(* A ref that points at an object is never moved by a local command        *)
(* (write_git_object_ref: MustNotExist).                                   *)
RefsWriteOnce == [][\A i \in Ids : refs[i] # None => refs'[i] = refs[i]]_vars

(* A read or verify that begins after an object was reported as written    *)
(* never answers that the object does not exist (ObjectNotFound,           *)
(* OBJECT001), even when the cache is deleted under it.                    *)
NoLostObject ==
    \A p \in Procs : out[p] = "notfound" => req[p] \notin expects[p]

(* read_object_from_cache_or_ref does not check what it finds in the       *)
(* cache.  Still a successful read returns the object that was asked for:  *)
(* every path into the cache checked it first.                             *)
ReadAuthentic ==
    \A p \in Procs :
        op[p] = "read" /\ out[p] = "ok" => Intact(req[p], buf[p])

(* The refs implement a registry that installs each id once, with an       *)
(* object that has the id, and reports only what it installed.             *)
Registry == INSTANCE ObjectRegistry WITH
    Keys <- Ids, Vacant <- None,
    Values <- [i \in Ids |-> {e \in Envelope : Intact(i, e)}],
    installed <- refs, reported <- acked

ImplementsRegistry == Registry!RegistrySpec

=============================================================================
