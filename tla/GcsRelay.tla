------------------------------ MODULE GcsRelay ------------------------------
(***************************************************************************)
(* The relay over GcsRelayStore: several server threads share a bucket     *)
(* that creates an object only if its name is free (ifGenerationMatch=0).  *)
(* Every operation is a sequence of HTTP requests of up to three tries;    *)
(* the answer to a try may be lost (network error, timeout, 5xx) although  *)
(* the bucket has carried it out, or will do so later.                     *)
(***************************************************************************)
EXTENDS RelayObjects, GcsRequests, FiniteSets

CONSTANTS
    PageSize,   \* names per page of a listing
    MaxLate     \* bound: uploads still under way after their try was given up

(* The names of the bucket sort like the ids, which are numbers here. *)
ASSUME GcsConstants ==
    /\ Ids \subseteq Nat
    /\ PageSize \in Nat \ {0} /\ MaxLate \in Nat
    /\ None \notin Envelope \cup Report \cup Requests

VARIABLES
    objects,    \* [Ids -> Envelope or None]  repos/R/objects/
    records,    \* [Keys -> Report or None]  repos/R/idempotency/
    late,       \* uploads that were given up and may still be carried out
    job,        \* the push it serves, the position in it, the counts so far
    names,      \* the names listed so far
    todo,       \* the names a pull has still to get
    told,       \* history: <<key, report>> of every successful push response
    credit      \* history: [Ids -> what pushes have counted as accepted]

bucket == <<objects, records, late>>
history == <<told, credit>>
vars == <<objects, records, late, pc, job, try, names, todo, told, credit>>

Job(r) == [request |-> r, at |-> 1, accepted |-> 0, duplicates |-> 0]

Init ==
    /\ objects = [i \in Ids |-> None]
    /\ records = [k \in Keys |-> None]
    /\ late = {}
    /\ pc = [c \in Conns |-> "idle"]
    /\ job = [c \in Conns |-> Job(None)]
    /\ try = [c \in Conns |-> 1]
    /\ names = [c \in Conns |-> {}]
    /\ todo = [c \in Conns |-> {}]
    /\ told = {}
    /\ credit = [i \in Ids |-> <<>>]

----------------------------------------------------------------------------
(* Requests to the bucket                                                  *)

(* The response to the client, which the connection then forgets. *)
Respond(c) ==
    /\ Goto(c, "idle")
    /\ job' = [job EXCEPT ![c] = Job(None)]
    /\ names' = [names EXCEPT ![c] = {}]
    /\ todo' = [todo EXCEPT ![c] = {}]

Key(c)    == job[c].request.key
Object(c) == job[c].request.objects[job[c].at]
Target(c) == Object(c).claimed
AtEnd(c)  == job[c].at > Len(job[c].request.objects)

PushReport(c) ==
    [ids |-> IdsOf(job[c].request), accepted |-> job[c].accepted,
     duplicates |-> job[c].duplicates]

(* The upload a connection is sending, if any. *)
Upload(c) ==
    CASE pc[c] = "put"    -> {[name |-> Target(c), value |-> Object(c), to |-> "objects"]}
      [] pc[c] = "record" -> {[name |-> Key(c), value |-> PushReport(c), to |-> "records"]}
      [] OTHER            -> {}

(* Mutant: the upload has no precondition. *)
OverwriteStored(u) ==
    \/ /\ u.to = "objects"
       /\ objects' = [objects EXCEPT ![u.name] = u.value]
       /\ UNCHANGED records
    \/ /\ u.to = "records"
       /\ records' = [records EXCEPT ![u.name] = u.value]
       /\ UNCHANGED objects

(* The bucket carries an upload out: only a free name is taken. *)
Store(u) ==
    \/ /\ u.to = "objects"
       /\ objects' = [objects EXCEPT ![u.name] = IF @ = None THEN u.value ELSE @]
       /\ UNCHANGED records
    \/ /\ u.to = "records"
       /\ records' = [records EXCEPT ![u.name] = IF @ = None THEN u.value ELSE @]
       /\ UNCHANGED objects

(* What may have become of an upload whose answer was lost. *)
Lost(c) ==
    \/ UNCHANGED bucket
    \/ \E u \in Upload(c) : Store(u) /\ UNCHANGED late
    \/ \E u \in Upload(c) :
         /\ Cardinality(late) < MaxLate
         /\ late' = late \cup {u}
         /\ UNCHANGED <<objects, records>>

(* The bucket carries out an upload that nobody waits for any more. *)
Arrive(u) ==
    /\ Store(u)
    /\ late' = late \ {u}
    /\ UNCHANGED <<pc, job, try, names, todo, history>>

Requesting == {"key", "list", "put", "record", "back", "get"}

(* send_with_retry: a lost answer or a 5xx is tried again. *)
Retry(c) ==
    /\ pc[c] \in Requesting /\ try[c] < Tries
    /\ Lost(c)
    /\ try' = [try EXCEPT ![c] = @ + 1]
    /\ UNCHANGED <<pc, job, names, todo, history>>

(* The last try fails too, or with_auth gets no token for the first one.   *)
(* A push goes on if it only wanted to see the record of its key; any      *)
(* other operation ends with an error.                                     *)
GiveUp(c) ==
    /\ pc[c] \in Requesting
    /\ \/ try[c] = Tries /\ Lost(c)
       \/ try[c] = 1 /\ UNCHANGED bucket
    /\ IF pc[c] = "key"
         THEN Goto(c, "list") /\ UNCHANGED <<job, names, todo>>
         ELSE Respond(c)
    /\ UNCHANGED history

----------------------------------------------------------------------------
(* push_bundle                                                             *)

(* Nothing is sent unless every object is valid. *)
Push(c, r) ==
    /\ pc[c] = "idle" /\ Accepts(r)
    /\ job' = [job EXCEPT ![c] = Job(r)]
    /\ Goto(c, "key")
    /\ UNCHANGED <<bucket, names, todo, history>>

(* The record of the key: if there is one it is the response, whatever the *)
(* bundle holds this time.                                                 *)
KeyAnswer(c) ==
    /\ pc[c] = "key"
    /\ \/ /\ records[Key(c)] = None
          /\ Goto(c, "list")
          /\ UNCHANGED <<job, names, todo, told>>
       \/ /\ records[Key(c)] # None
          /\ told' = told \cup {<<Key(c), records[Key(c)]>>}
          /\ Respond(c)
    /\ UNCHANGED <<bucket, credit>>

(* A page of list_names: the first names after those listed so far. *)
Stored == {i \in Ids : objects[i] # None}
After(c) == {i \in Stored : \A j \in names[c] : j < i}
Page(c) == {i \in After(c) : Cardinality({j \in After(c) : j <= i}) <= PageSize}

(* list_names: the last page has no token for a next one. *)
ListAnswer(c) ==
    /\ pc[c] = "list"
    /\ names' = [names EXCEPT ![c] = @ \cup Page(c)]
    /\ Goto(c, IF Page(c) # After(c) THEN "list"
               ELSE IF job[c].request = None THEN "listed" ELSE "next")
    /\ UNCHANGED <<bucket, job, todo, history>>

(* Mutant: the loop ends before the last object. *)
NextObjectShort(c) ==
    /\ pc[c] = "next"
    /\ \/ /\ job[c].at >= Len(job[c].request.objects)
          /\ Goto(c, "record")
          /\ UNCHANGED job
       \/ /\ job[c].at < Len(job[c].request.objects)
          /\ Goto(c, "put")
          /\ UNCHANGED job
    /\ UNCHANGED <<bucket, names, todo, history>>

(* The loop over the objects: a listed name is a duplicate without another *)
(* request.                                                                *)
NextObject(c) ==
    /\ pc[c] = "next"
    /\ \/ AtEnd(c) /\ Goto(c, "record") /\ UNCHANGED job
       \/ /\ ~AtEnd(c) /\ Target(c) \in names[c]
          /\ job' = [job EXCEPT ![c].at = @ + 1, ![c].duplicates = @ + 1]
          /\ UNCHANGED <<pc, try>>
       \/ /\ ~AtEnd(c) /\ Target(c) \notin names[c]
          /\ Goto(c, "put")
          /\ UNCHANGED job
    /\ UNCHANGED <<bucket, names, todo, history>>

(* put_bytes_if_absent of an object: Written, or AlreadyExists (which also *)
(* answers the retry of an upload that was carried out).                   *)
PutAnswer(c) ==
    /\ pc[c] = "put"
    /\ \E u \in Upload(c) : Store(u)
    /\ \/ /\ objects[Target(c)] = None
          /\ job' = [job EXCEPT ![c].at = @ + 1, ![c].accepted = @ + 1]
          /\ credit' = [credit EXCEPT ![Target(c)] = Append(@, Object(c))]
       \/ /\ objects[Target(c)] # None
          /\ job' = [job EXCEPT ![c].at = @ + 1, ![c].duplicates = @ + 1]
          /\ UNCHANGED credit
    /\ Goto(c, "next")
    /\ UNCHANGED <<late, names, todo, told>>

(* Mutant: the own report is returned although the name was taken. *)
RecordAnswerOwn(c) ==
    /\ pc[c] = "record"
    /\ \E u \in Upload(c) : Store(u)
    /\ told' = told \cup {<<Key(c), PushReport(c)>>}
    /\ Respond(c)
    /\ UNCHANGED <<late, credit>>

(* put_json_if_absent of the report: the own report is the response, or    *)
(* the one that is there already must be read back.                        *)
RecordAnswer(c) ==
    /\ pc[c] = "record"
    /\ \E u \in Upload(c) : Store(u)
    /\ \/ /\ records[Key(c)] = None
          /\ told' = told \cup {<<Key(c), PushReport(c)>>}
          /\ Respond(c)
       \/ /\ records[Key(c)] # None
          /\ Goto(c, "back")
          /\ UNCHANGED <<job, names, todo, told>>
    /\ UNCHANGED <<late, credit>>

BackAnswer(c) ==
    /\ pc[c] = "back"
    /\ told' = told \cup {<<Key(c), records[Key(c)]>>}
    /\ Respond(c)
    /\ UNCHANGED <<bucket, credit>>

----------------------------------------------------------------------------
(* pull_bundle, read_object, list_object_ids and repo_status               *)

(* pull_bundle, list_object_ids and repo_status begin with a listing. *)
StartList(c) ==
    /\ pc[c] = "idle"
    /\ Goto(c, "list")
    /\ UNCHANGED <<bucket, job, names, todo, history>>

StartGet(c, i) ==
    /\ pc[c] = "idle"
    /\ todo' = [todo EXCEPT ![c] = {i}]
    /\ Goto(c, "get")
    /\ UNCHANGED <<bucket, job, names, history>>

(* A pull leaves out the known names and takes the first ones up to the    *)
(* limit; list_object_ids takes all of them; repo_status (limit 0) none.   *)
Listed(c, known, limit) ==
    /\ pc[c] = "listed"
    /\ LET missing == names[c] \ known
       IN  todo' = [todo EXCEPT ![c] =
                      {i \in missing : Cardinality({j \in missing : j <= i}) <= limit}]
    /\ Goto(c, "get")
    /\ UNCHANGED <<bucket, job, names, history>>

(* Each object is got and validated again; the first that is not there or  *)
(* not valid fails the whole operation.                                    *)
GetAnswer(c) ==
    /\ pc[c] = "get"
    /\ \/ todo[c] = {} /\ Respond(c)
       \/ \E i \in todo[c] :
            /\ \A j \in todo[c] : i <= j
            /\ IF objects[i] # None /\ Valid(objects[i])
                 THEN /\ todo' = [todo EXCEPT ![c] = @ \ {i}]
                      /\ Goto(c, "get")
                      /\ UNCHANGED <<job, names>>
                 ELSE Respond(c)
    /\ UNCHANGED <<bucket, history>>

(* The steps of the server and the bucket that a request waits for. *)
Step(c) ==
    \/ Retry(c) \/ GiveUp(c) \/ KeyAnswer(c) \/ ListAnswer(c) \/ NextObject(c)
    \/ PutAnswer(c) \/ RecordAnswer(c) \/ BackAnswer(c) \/ GetAnswer(c)
    \/ \E known \in SUBSET Ids, limit \in 0..Cardinality(Ids) :
          Listed(c, known, limit)

Next ==
    \/ \E c \in Conns :
         \/ \E r \in Requests : Push(c, r)
         \/ StartList(c)
         \/ \E i \in Ids : StartGet(c, i)
         \/ Step(c)
    \/ \E u \in late : Arrive(u)

Spec == Init /\ [][Next]_vars

----------------------------------------------------------------------------
(* A client that was told its push succeeded can get every object it was   *)
(* told about, although the push may have seen only lost answers, listed   *)
(* names and reports of others.                                            *)
AckedStored ==
    \A t \in told : \A i \in t[2].ids : objects[i] # None

(* All successful responses under one idempotency key are the same         *)
(* response, also when two pushes race, answers are lost or the record of  *)
(* an abandoned push arrives late.                                         *)
RepliesAgree ==
    \A t, u \in told : t[1] = u[1] => t[2] = u[2]

(* An object is counted as accepted by at most one push, and what was      *)
(* counted is what the bucket holds from then on.                          *)
AcceptedOnce ==
    \A i \in Ids :
        /\ Len(credit[i]) <= 1
        /\ \A n \in DOMAIN credit[i] : credit[i][n] = objects[i]

(* The bucket as the promise of a relay: an authentic object under a name  *)
(* once and for all, one report per key and only of objects that are       *)
(* there, and answers that are the report of their key.                    *)
Authentic == [i \in Ids |-> {e \in Envelope : e.claimed = i /\ Valid(e)}]

Promise == INSTANCE RelayPromise
             WITH Names <- Ids, Objects <- Authentic, Reports <- Report, Vacant <- None,
                  stored <- objects, recorded <- records, answered <- told

KeepsPromise == Promise!PromiseSpec
=============================================================================
