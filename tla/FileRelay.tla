----------------------------- MODULE FileRelay -----------------------------
(***************************************************************************)
(* The relay over FileRelayStore (crates/rickydata-git-relay): the HTTP    *)
(* handlers of one repository, run by several server threads at once over  *)
(* plain files.  There is no lock, and write_bytes is fs::write: it        *)
(* truncates the file and then fills it.                                   *)
(***************************************************************************)
EXTENDS RelayObjects, FiniteSets

CONSTANTS
    Conns,      \* requests served at the same time
    None, Empty, Garbled

ASSUME RelayConstants ==
    /\ {None, Empty, Garbled} \cap (Envelope \cup Report) = {}
    /\ None \notin Requests
    /\ Empty # None /\ Garbled # None

VARIABLES
    files,      \* [Ids -> Envelope, None, Empty or Garbled]  the object files
    records,    \* [Keys -> Report, None, Empty or Garbled]  idempotency files
    pc,         \* the next file operation of each connection
    job,        \* the push it serves, the position in it, the counts so far
    todo,       \* the ids a pull has still to read
    reply,      \* the status of the last response
    told,       \* history: <<key, report>> of every successful push response
    raced       \* history: two pushes were under way at the same time

store == <<files, records>>
history == <<told, raced>>
vars == <<files, records, pc, job, todo, reply, told, raced>>

Job(r) == [request |-> r, at |-> 1, accepted |-> 0, duplicates |-> 0]

Init ==
    /\ files = [i \in Ids |-> None]
    /\ records = [k \in Keys |-> None]
    /\ pc = [c \in Conns |-> "idle"]
    /\ job = [c \in Conns |-> Job(None)]
    /\ todo = [c \in Conns |-> {}]
    /\ reply = [c \in Conns |-> "none"]
    /\ told = {}
    /\ raced = FALSE

----------------------------------------------------------------------------
(* push_bundle                                                             *)

Goto(c, l) == pc' = [pc EXCEPT ![c] = l] /\ UNCHANGED reply

Respond(c, status) ==
    /\ pc' = [pc EXCEPT ![c] = "idle"]
    /\ job' = [job EXCEPT ![c] = Job(None)]
    /\ reply' = [reply EXCEPT ![c] = status]

Serve(c, l, r) ==
    /\ pc[c] = "idle"
    /\ pc' = [pc EXCEPT ![c] = l]
    /\ job' = [job EXCEPT ![c] = Job(r)]
    /\ reply' = [reply EXCEPT ![c] = "none"]

Pushing == {"key", "replay", "compare", "exists", "create", "fill", "record", "respond"}

(* A push arrives; nothing is touched unless every object is valid. *)
Push(c, r) ==
    /\ \/ /\ Accepts(r)
          /\ Serve(c, "key", r)
          /\ raced' = IF \E d \in Conns \ {c} : pc[d] \in Pushing THEN TRUE ELSE raced
       \/ /\ ~Accepts(r) /\ pc[c] = "idle"
          /\ Respond(c, "invalid")
          /\ UNCHANGED raced
    /\ UNCHANGED <<store, todo, told>>

(* The key, and the object at the current position with its file. *)
Key(c)    == job[c].request.key
Object(c) == job[c].request.objects[job[c].at]
Target(c) == Object(c).claimed
AtEnd(c)  == job[c].at > Len(job[c].request.objects)

(* Mutant: the idempotency file is never looked at. *)
KeyIgnored(c) ==
    /\ pc[c] = "key"
    /\ Goto(c, "compare")
    /\ UNCHANGED <<store, job, todo, history>>

(* Is there an idempotency file for the key? *)
KeyCheck(c) ==
    /\ pc[c] = "key"
    /\ Goto(c, IF records[Key(c)] = None THEN "compare" ELSE "replay")
    /\ UNCHANGED <<store, job, todo, history>>

(* The recorded report is returned whatever the bundle holds this time; a  *)
(* file that does not parse is an internal error.                          *)
Replay(c) ==
    /\ pc[c] = "replay"
    /\ \/ /\ records[Key(c)] \in {Empty, Garbled}
          /\ Respond(c, "error")
          /\ UNCHANGED told
       \/ /\ records[Key(c)] \notin {Empty, Garbled}
          /\ Respond(c, "ok")
          /\ told' = told \cup {<<Key(c), records[Key(c)]>>}
    /\ UNCHANGED <<store, todo, raced>>

(* Mutant: an empty file does not conflict. *)
CompareLoose(c) ==
    /\ pc[c] = "compare"
    /\ \/ /\ AtEnd(c)
          /\ job' = [job EXCEPT ![c].at = 1]
          /\ Goto(c, "exists")
       \/ /\ ~AtEnd(c)
          /\ files[Target(c)] \in {None, Empty, Object(c)}
          /\ job' = [job EXCEPT ![c].at = @ + 1]
          /\ UNCHANGED <<pc, reply>>
       \/ /\ ~AtEnd(c)
          /\ files[Target(c)] \notin {None, Empty, Object(c)}
          /\ Respond(c, "conflict")
    /\ UNCHANGED <<store, todo, history>>

(* First loop: an object file that exists must hold the same bytes. *)
Compare(c) ==
    /\ pc[c] = "compare"
    /\ \/ /\ AtEnd(c)
          /\ job' = [job EXCEPT ![c].at = 1]
          /\ Goto(c, "exists")
       \/ /\ ~AtEnd(c)
          /\ files[Target(c)] \in {None, Object(c)}
          /\ job' = [job EXCEPT ![c].at = @ + 1]
          /\ UNCHANGED <<pc, reply>>
       \/ /\ ~AtEnd(c)
          /\ files[Target(c)] \notin {None, Object(c)}
          /\ Respond(c, "conflict")
    /\ UNCHANGED <<store, todo, history>>

(* Mutant: the loop stops before the last object. *)
ExistsShort(c) ==
    /\ pc[c] = "exists"
    /\ \/ job[c].at >= Len(job[c].request.objects) /\ Goto(c, "record") /\ UNCHANGED job
       \/ /\ ~(job[c].at >= Len(job[c].request.objects))
          /\ files[Target(c)] # None
          /\ job' = [job EXCEPT ![c].at = @ + 1, ![c].duplicates = @ + 1]
          /\ UNCHANGED <<pc, reply>>
       \/ /\ ~(job[c].at >= Len(job[c].request.objects))
          /\ files[Target(c)] = None
          /\ Goto(c, "create")
          /\ UNCHANGED job
    /\ UNCHANGED <<store, todo, history>>

(* Mutant: existing files are written again. *)
ExistsIgnored(c) ==
    /\ pc[c] = "exists"
    /\ Goto(c, IF AtEnd(c) THEN "record" ELSE "create")
    /\ UNCHANGED <<store, job, todo, history>>

(* Second loop: a file that exists by now is a duplicate, another is       *)
(* written.                                                                *)
Exists(c) ==
    /\ pc[c] = "exists"
    /\ \/ AtEnd(c) /\ Goto(c, "record") /\ UNCHANGED job
       \/ /\ ~AtEnd(c)
          /\ files[Target(c)] # None
          /\ job' = [job EXCEPT ![c].at = @ + 1, ![c].duplicates = @ + 1]
          /\ UNCHANGED <<pc, reply>>
       \/ /\ ~AtEnd(c)
          /\ files[Target(c)] = None
          /\ Goto(c, "create")
          /\ UNCHANGED job
    /\ UNCHANGED <<store, todo, history>>

(* write_bytes: the file is created, or truncated if another connection    *)
(* has created it since Exists ...                                         *)
Create(c) ==
    /\ pc[c] = "create"
    /\ files' = [files EXCEPT ![Target(c)] = Empty]
    /\ Goto(c, "fill")
    /\ UNCHANGED <<records, job, todo, history>>

(* What a file may hold after b is written over its content x: the tail of *)
(* longer bytes stays.                                                     *)
Overwrite(x, b) == IF x \in {Empty, b} THEN {b} ELSE {b, Garbled}

(* ... and filled. *)
Fill(c) ==
    /\ pc[c] = "fill"
    /\ \E x \in Overwrite(files[Target(c)], Object(c)) :
         files' = [files EXCEPT ![Target(c)] = x]
    /\ job' = [job EXCEPT ![c].at = @ + 1, ![c].accepted = @ + 1]
    /\ Goto(c, "exists")
    /\ UNCHANGED <<records, todo, history>>

(* write_json of the idempotency file ... *)
RecordCreate(c) ==
    /\ pc[c] = "record"
    /\ records' = [records EXCEPT ![Key(c)] = Empty]
    /\ Goto(c, "respond")
    /\ UNCHANGED <<files, job, todo, history>>

PushReport(c) ==
    [ids |-> IdsOf(job[c].request), accepted |-> job[c].accepted,
     duplicates |-> job[c].duplicates]

(* ... and the response. *)
RecordFill(c) ==
    /\ pc[c] = "respond"
    /\ \E x \in Overwrite(records[Key(c)], PushReport(c)) :
         records' = [records EXCEPT ![Key(c)] = x]
    /\ told' = told \cup {<<Key(c), PushReport(c)>>}
    /\ Respond(c, "ok")
    /\ UNCHANGED <<files, todo, raced>>

----------------------------------------------------------------------------
(* pull_bundle and get_object                                              *)

(* list_object_ids names the files in the directory, also those that are   *)
(* being written.                                                          *)
Listed == {i \in Ids : files[i] # None}

(* Known ids are left out, and the limit keeps some of the rest. *)
Pull(c, known, limit) ==
    /\ \E sel \in SUBSET (Listed \ known) :
         /\ \/ Cardinality(sel) = limit
            \/ Cardinality(sel) < limit /\ sel = Listed \ known
         /\ todo' = [todo EXCEPT ![c] = sel]
    /\ Serve(c, "read", None)
    /\ UNCHANGED <<store, history>>

GetObject(c, i) ==
    /\ todo' = [todo EXCEPT ![c] = {i}]
    /\ Serve(c, "read", None)
    /\ UNCHANGED <<store, history>>

(* read_object parses a file and checks nothing else; the whole request    *)
(* fails with the first file that does not parse.                          *)
ReadObject(c) ==
    /\ pc[c] = "read"
    /\ \/ /\ todo[c] = {}
          /\ Respond(c, "ok")
          /\ UNCHANGED todo
       \/ \E i \in todo[c] :
            /\ files[i] \in {None, Empty, Garbled}
            /\ Respond(c, "error")
            /\ todo' = [todo EXCEPT ![c] = {}]
       \/ \E i \in todo[c] :
            /\ files[i] \notin {None, Empty, Garbled}
            /\ todo' = [todo EXCEPT ![c] = @ \ {i}]
            /\ UNCHANGED <<pc, job, reply>>
    /\ UNCHANGED <<store, history>>

(* An I/O error ends the request, or the server dies (and then every       *)
(* connection fails): what was written so far stays.                       *)
Fail(c) ==
    /\ pc[c] # "idle"
    /\ Respond(c, "error")
    /\ todo' = [todo EXCEPT ![c] = {}]
    /\ UNCHANGED <<store, history>>

Next ==
    \E c \in Conns :
        \/ \E r \in Requests : Push(c, r)
        \/ KeyCheck(c) \/ Replay(c) \/ Compare(c) \/ Exists(c) \/ Create(c)
        \/ Fill(c) \/ RecordCreate(c) \/ RecordFill(c)
        \/ \E known \in SUBSET Ids, limit \in 0..Cardinality(Ids) :
              Pull(c, known, limit)
        \/ \E i \in Ids : GetObject(c, i)
        \/ ReadObject(c) \/ Fail(c)

Spec == Init /\ [][Next]_vars

----------------------------------------------------------------------------
Torn == {None, Empty, Garbled}

TypeOK ==
    /\ files \in [Ids -> Envelope \cup Torn]
    /\ records \in [Keys -> Report \cup Torn]
    /\ pc \in [Conns -> {"idle", "key", "replay", "compare", "exists", "create",
                         "fill", "record", "respond", "read"}]
    /\ job \in [Conns -> [request : Requests \cup {None}, at : Nat,
                          accepted : Nat, duplicates : Nat]]
    /\ todo \in [Conns -> SUBSET Ids]
    /\ reply \in [Conns -> {"none", "ok", "invalid", "conflict", "error"}]
    /\ told \subseteq Keys \X Report
    /\ raced \in BOOLEAN

(* read_object returns what a file holds without a check.  Still, under    *)
(* any mix of racing pushes and crashes, a file that parses has the id it  *)
(* is stored under and meets the signature policy.                         *)
StoredAuthentic ==
    \A i \in Ids : files[i] \notin Torn => files[i].claimed = i /\ Valid(files[i])

(* An idempotency record that can be replayed vouches for objects that are *)
(* there: the record is written after all of them.                         *)
RecordBacked ==
    \A k \in Keys : records[k] \notin Torn =>
        \A i \in records[k].ids : files[i] # None

(* As long as no two pushes overlapped, and whatever failed or was read    *)
(* meanwhile, a client that was told its push succeeded can fetch every    *)
(* object it was told about, whole.                                        *)
AckedStored ==
    ~raced => \A t \in told : \A i \in t[2].ids : files[i] \notin Torn

(* As long as no two pushes overlapped, two successful responses under one *)
(* idempotency key are the same response.                                  *)
RepliesAgree ==
    ~raced => \A t, u \in told : t[1] = u[1] => t[2] = u[2]

(* As long as no two pushes overlapped, a stored object is never           *)
(* overwritten.                                                            *)
ImmutableAlone ==
    [][~raced' => \A i \in Ids : files[i] \notin Torn => files'[i] = files[i]]_vars
=============================================================================
