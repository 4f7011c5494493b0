-------------------------- MODULE FileRelayProofs --------------------------
(***************************************************************************)
(* Proofs about FileRelay for any number of connections, any requests and  *)
(* either signature policy.                                                *)
(***************************************************************************)
EXTENDS FileRelay, TLAPS

(* A push that is under way was accepted, and its position is in range. *)
JobInv ==
    \A c \in Conns :
      /\ pc[c] \in Pushing =>
           /\ job[c].request \in Requests
           /\ Accepts(job[c].request)
           /\ job[c].at >= 1
      /\ pc[c] \in {"create", "fill"} =>
           job[c].at \in DOMAIN job[c].request.objects

(* The files that the second loop has passed are there, and all of them    *)
(* when the report is recorded; a record that was seen stays.              *)
WrittenInv ==
    \A c \in Conns :
      /\ pc[c] \in {"exists", "create", "fill"} =>
           \A n \in DOMAIN job[c].request.objects :
              n < job[c].at => files[job[c].request.objects[n].claimed] # None
      /\ pc[c] \in {"record", "respond"} =>
           \A i \in IdsOf(job[c].request) : files[i] # None
      /\ pc[c] = "replay" => records[job[c].request.key] # None

(* The rest holds as long as no two pushes have overlapped.  A push that is *)
(* alone has seen in its first loop that none of its object files is cut   *)
(* off, and leaves only the one it is writing so; it writes a record only  *)
(* where there was none.                                                   *)
Single ==
    \A c, d \in Conns : pc[c] \in Pushing /\ pc[d] \in Pushing => c = d

Uncut(i) == files[i] \notin {Empty, Garbled}

Whole(c) ==
    /\ pc[c] = "key" => job[c].at = 1
    /\ pc[c] = "compare" =>
         \A n \in DOMAIN job[c].request.objects :
            n < job[c].at => Uncut(job[c].request.objects[n].claimed)
    /\ pc[c] \in {"exists", "create"} =>
         \A i \in IdsOf(job[c].request) : Uncut(i)
    /\ pc[c] = "create" => files[Target(c)] = None
    /\ pc[c] = "fill" =>
         /\ files[Target(c)] = Empty
         /\ \A i \in IdsOf(job[c].request) \ {Target(c)} : Uncut(i)
    /\ pc[c] \in {"record", "respond"} =>
         \A i \in IdsOf(job[c].request) : files[i] \notin Torn
    /\ pc[c] \in {"compare", "exists", "create", "fill", "record"} => records[Key(c)] = None
    /\ pc[c] = "respond" => records[Key(c)] = Empty

ToldRecorded == \A t \in told : records[t[1]] = t[2]

RecordsWhole ==
    \A k \in Keys : records[k] \notin Torn => \A i \in records[k].ids : files[i] \notin Torn

LoneInv ==
    ~raced => /\ Single /\ ToldRecorded /\ RecordsWhole
              /\ \A c \in Conns : Whole(c)

RelayInv == TypeOK /\ JobInv /\ WrittenInv /\ StoredAuthentic /\ RecordBacked

(* What an accepted request holds. *)
LEMMA RequestFacts ==
    ASSUME NEW r \in Requests
    PROVE  /\ r.key \in Keys
           /\ r.objects \in Seq(Envelope)
           /\ DOMAIN r.objects = 1..Len(r.objects)
           /\ Len(r.objects) \in Nat
           /\ IdsOf(r) \subseteq Ids
           /\ \A n \in DOMAIN r.objects :
                /\ r.objects[n] \in Envelope
                /\ r.objects[n].claimed \in Ids
                /\ Accepts(r) => Valid(r.objects[n])
<1>1. /\ r.key \in Keys /\ r.objects \in Seq(Envelope)
      /\ \A n \in DOMAIN r.objects : r.objects[n].claimed \in Ids
  BY ObjectConstants
<1>2. DOMAIN r.objects = 1..Len(r.objects) /\ Len(r.objects) \in Nat
  BY <1>1
<1>3. \A n \in DOMAIN r.objects : r.objects[n] \in Envelope
  BY <1>1
<1>4. IdsOf(r) \subseteq Ids
  BY <1>1 DEF IdsOf
<1> QED
  BY <1>1, <1>2, <1>3, <1>4 DEF Accepts

LEMMA InitHolds == Init => RelayInv
<1> SUFFICES ASSUME Init PROVE RelayInv
  OBVIOUS
<1> USE DEF Init, Torn, Job
<1>1. TypeOK
  BY DEF TypeOK
<1>2. JobInv /\ WrittenInv
  BY DEF JobInv, WrittenInv, Pushing
<1>3. StoredAuthentic /\ RecordBacked
  BY DEF StoredAuthentic, RecordBacked
<1> QED
  BY <1>1, <1>2, <1>3 DEF RelayInv

(* Steps that touch neither files nor records, and leave the connection    *)
(* idle, reading, or at a push label with what that label needs.           *)
LEMMA QuietStep ==
    ASSUME RelayInv, NEW c \in Conns, UNCHANGED store, TypeOK',
           \A d \in Conns \ {c} : pc'[d] = pc[d] /\ job'[d] = job[d],
           pc'[c] \in Pushing =>
              /\ job'[c].request \in Requests
              /\ Accepts(job'[c].request)
              /\ job'[c].at >= 1,
           pc'[c] # "fill",
           pc'[c] = "create" => job'[c].at \in DOMAIN job'[c].request.objects,
           pc'[c] \in {"exists", "create"} =>
              \A n \in DOMAIN job'[c].request.objects :
                 n < job'[c].at => files[job'[c].request.objects[n].claimed] # None,
           pc'[c] \in {"record", "respond"} =>
              \A i \in IdsOf(job'[c].request) : files[i] # None,
           pc'[c] = "replay" => records[job'[c].request.key] # None
    PROVE  RelayInv'
<1>1. JobInv'
  BY DEF RelayInv, JobInv
<1>2. WrittenInv'
  BY DEF RelayInv, WrittenInv, store
<1>3. StoredAuthentic' /\ RecordBacked'
  BY DEF RelayInv, StoredAuthentic, RecordBacked, store
<1> QED
  BY <1>1, <1>2, <1>3 DEF RelayInv

(* Any step that ends a request without writing. *)
LEMMA RespondStep ==
    ASSUME RelayInv, NEW c \in Conns, UNCHANGED store,
           NEW s \in {"none", "ok", "invalid", "conflict", "error"}, Respond(c, s),
           todo' \in [Conns -> SUBSET Ids], told' \subseteq Keys \X Report,
           raced' = raced
    PROVE  RelayInv'
<1>1. TypeOK'
  BY DEF RelayInv, TypeOK, Respond, Job, store
<1>2. /\ pc'[c] = "idle"
      /\ \A d \in Conns \ {c} : pc'[d] = pc[d] /\ job'[d] = job[d]
  BY DEF Respond, RelayInv, TypeOK
<1> QED
  BY <1>1, <1>2, QuietStep DEF Pushing

(* Any step that goes on to another label without touching the job. *)
LEMMA GotoStep ==
    ASSUME RelayInv, NEW c \in Conns, UNCHANGED <<store, job, history>>,
           NEW l \in {"key", "replay", "compare", "exists", "create", "record", "respond"},
           Goto(c, l), todo' = todo, pc[c] \in Pushing,
           l = "create" => job[c].at \in DOMAIN job[c].request.objects,
           l \in {"exists", "create"} => pc[c] = "exists",
           l \in {"record", "respond"} =>
              \A i \in IdsOf(job[c].request) : files[i] # None,
           l = "replay" => records[job[c].request.key] # None
    PROVE  RelayInv'
<1>1. TypeOK'
  BY DEF RelayInv, TypeOK, Goto, store, history
<1>2. /\ pc'[c] = l /\ job'[c] = job[c]
      /\ \A d \in Conns \ {c} : pc'[d] = pc[d] /\ job'[d] = job[d]
  BY DEF Goto, RelayInv, TypeOK
<1>3. job[c].request \in Requests /\ Accepts(job[c].request) /\ job[c].at >= 1
  BY DEF RelayInv, JobInv
<1>4. l \in {"exists", "create"} =>
        \A n \in DOMAIN job[c].request.objects :
           n < job[c].at => files[job[c].request.objects[n].claimed] # None
  BY DEF RelayInv, WrittenInv
<1> QED
  BY <1>1, <1>2, <1>3, <1>4, QuietStep

LEMMA PushHolds ==
    ASSUME RelayInv, NEW c \in Conns, NEW r \in Requests, Push(c, r)
    PROVE  RelayInv'
<1>0. UNCHANGED store /\ todo' = todo /\ told' = told
  BY DEF Push
<1>00. todo' \in [Conns -> SUBSET Ids] /\ told' \subseteq Keys \X Report
  BY <1>0 DEF RelayInv, TypeOK
<1>1. CASE Respond(c, "invalid") /\ UNCHANGED raced
  BY <1>0, <1>00, <1>1, RespondStep
<1>2. CASE /\ Accepts(r) /\ Serve(c, "key", r)
           /\ raced' = IF \E d \in Conns \ {c} : pc[d] \in Pushing THEN TRUE ELSE raced
  <2>0. raced' \in BOOLEAN
    BY <1>2 DEF RelayInv, TypeOK
  <2>1. TypeOK'
    BY <2>0, <1>0, <1>2 DEF RelayInv, TypeOK, Serve, Job, store, history
  <2>2. /\ pc'[c] = "key" /\ job'[c].request = r /\ job'[c].at = 1
        /\ \A d \in Conns \ {c} : pc'[d] = pc[d] /\ job'[d] = job[d]
    BY <1>2 DEF RelayInv, TypeOK, Serve, Job
  <2> QED
    BY <1>0, <1>2, <2>1, <2>2, QuietStep
<1> QED
  BY <1>1, <1>2 DEF Push

LEMMA KeyHolds ==
    ASSUME RelayInv, NEW c \in Conns, KeyCheck(c)
    PROVE  RelayInv'
<1>1. PICK l \in {"compare", "replay"} :
        Goto(c, l) /\ (l = "replay" => records[Key(c)] # None)
  BY DEF KeyCheck
<1> QED
  BY <1>1, GotoStep DEF KeyCheck, Pushing, Key

LEMMA ReplayHolds ==
    ASSUME RelayInv, NEW c \in Conns, Replay(c)
    PROVE  RelayInv'
<1>1. /\ UNCHANGED <<store, raced>> /\ todo' \in [Conns -> SUBSET Ids]
      /\ pc[c] = "replay"
  BY DEF Replay, RelayInv, TypeOK
<1>2. Key(c) \in Keys /\ records[Key(c)] # None
  BY <1>1, RequestFacts DEF RelayInv, JobInv, WrittenInv, Key, Pushing
<1>3. CASE Respond(c, "error") /\ told' = told
  BY <1>1, <1>3, RespondStep DEF RelayInv, TypeOK
<1>4. CASE /\ records[Key(c)] \notin {Empty, Garbled} /\ Respond(c, "ok")
           /\ told' = told \cup {<<Key(c), records[Key(c)]>>}
  <2>1. records[Key(c)] \in Report
    BY <1>2, <1>4 DEF RelayInv, TypeOK, Torn
  <2>2. told' \subseteq Keys \X Report
    BY <1>2, <1>4, <2>1 DEF RelayInv, TypeOK
  <2> QED
    BY <1>1, <1>4, <2>2, RespondStep
<1> QED
  BY <1>3, <1>4 DEF Replay

LEMMA CompareHolds ==
    ASSUME RelayInv, NEW c \in Conns, Compare(c)
    PROVE  RelayInv'
<1>0. /\ UNCHANGED <<store, todo, history>> /\ pc[c] = "compare"
      /\ job[c].request \in Requests /\ Accepts(job[c].request) /\ job[c].at >= 1
  BY DEF Compare, RelayInv, JobInv, Pushing
<1>00. /\ todo' \in [Conns -> SUBSET Ids] /\ told' \subseteq Keys \X Report
       /\ raced' = raced
  BY <1>0 DEF RelayInv, TypeOK, history
<1>1. CASE Respond(c, "conflict")
  BY <1>0, <1>00, <1>1, RespondStep
<1>2. CASE AtEnd(c) /\ job' = [job EXCEPT ![c].at = 1] /\ Goto(c, "exists")
  <2>1. TypeOK'
    BY <1>0, <1>2 DEF RelayInv, TypeOK, Goto, store, history
  <2>2. /\ pc'[c] = "exists" /\ job'[c].request = job[c].request /\ job'[c].at = 1
        /\ \A d \in Conns \ {c} : pc'[d] = pc[d] /\ job'[d] = job[d]
    BY <1>2 DEF RelayInv, TypeOK, Goto
  <2>3. \A n \in DOMAIN job[c].request.objects : ~(n < 1)
    BY <1>0, RequestFacts
  <2> QED
    BY <1>0, <2>1, <2>2, <2>3, QuietStep
<1>3. CASE job' = [job EXCEPT ![c].at = @ + 1] /\ UNCHANGED <<pc, reply>>
  <2>1. TypeOK'
    BY <1>0, <1>3 DEF RelayInv, TypeOK, store, history
  <2>2. /\ pc'[c] = "compare" /\ job'[c].request = job[c].request
        /\ job'[c].at = job[c].at + 1 /\ job[c].at \in Nat
        /\ \A d \in Conns \ {c} : pc'[d] = pc[d] /\ job'[d] = job[d]
    BY <1>0, <1>3 DEF RelayInv, TypeOK
  <2> QED
    BY <1>0, <2>1, <2>2, QuietStep
<1> QED
  BY <1>1, <1>2, <1>3 DEF Compare

LEMMA ExistsHolds ==
    ASSUME RelayInv, NEW c \in Conns, Exists(c)
    PROVE  RelayInv'
<1>0. /\ UNCHANGED <<store, todo, history>> /\ pc[c] = "exists"
      /\ job[c].request \in Requests /\ Accepts(job[c].request) /\ job[c].at >= 1
      /\ job[c].at \in Nat
  BY DEF Exists, RelayInv, TypeOK, JobInv, Pushing
<1>1. /\ DOMAIN job[c].request.objects = 1..Len(job[c].request.objects)
      /\ Len(job[c].request.objects) \in Nat
  BY <1>0, RequestFacts
<1>2. \A n \in DOMAIN job[c].request.objects :
         n < job[c].at => files[job[c].request.objects[n].claimed] # None
  BY <1>0 DEF RelayInv, WrittenInv
<1>3. CASE AtEnd(c) /\ Goto(c, "record") /\ UNCHANGED job
  <2>1. \A i \in IdsOf(job[c].request) : files[i] # None
    BY <1>0, <1>1, <1>2, <1>3 DEF AtEnd, IdsOf
  <2> QED
    BY <1>0, <1>3, <2>1, GotoStep DEF Pushing
<1>4. CASE ~AtEnd(c) /\ Goto(c, "create") /\ UNCHANGED job
  <2>1. job[c].at \in DOMAIN job[c].request.objects
    BY <1>0, <1>1, <1>4 DEF AtEnd
  <2> QED
    BY <1>0, <1>4, <2>1, GotoStep DEF Pushing
<1>5. CASE /\ ~AtEnd(c) /\ files[Target(c)] # None
           /\ job' = [job EXCEPT ![c].at = @ + 1, ![c].duplicates = @ + 1]
           /\ UNCHANGED <<pc, reply>>
  <2>1. TypeOK'
    BY <1>0, <1>5 DEF RelayInv, TypeOK, store, history
  <2>2. /\ pc'[c] = "exists" /\ job'[c].request = job[c].request
        /\ job'[c].at = job[c].at + 1
        /\ \A d \in Conns \ {c} : pc'[d] = pc[d] /\ job'[d] = job[d]
    BY <1>0, <1>5 DEF RelayInv, TypeOK
  <2>3. \A n \in DOMAIN job[c].request.objects :
           n < job[c].at + 1 => files[job[c].request.objects[n].claimed] # None
    BY <1>0, <1>1, <1>2, <1>5 DEF Target, Object
  <2> QED
    BY <1>0, <2>1, <2>2, <2>3, QuietStep
<1> QED
  BY <1>3, <1>4, <1>5 DEF Exists

(* The steps that write an object file. *)
LEMMA FileStep ==
    ASSUME RelayInv, NEW c \in Conns, NEW i \in Ids,
           NEW x \in (Envelope \cup Torn) \ {None},
           x \notin Torn => x.claimed = i /\ Valid(x),
           files' = [files EXCEPT ![i] = x], records' = records, TypeOK',
           \A d \in Conns \ {c} : pc'[d] = pc[d] /\ job'[d] = job[d],
           pc[c] \in Pushing, pc'[c] \in {"exists", "fill"},
           job'[c].request = job[c].request, job'[c].at >= 1,
           pc'[c] = "fill" => job'[c].at \in DOMAIN job[c].request.objects,
           \A n \in DOMAIN job[c].request.objects :
              n < job'[c].at => files'[job[c].request.objects[n].claimed] # None
    PROVE  RelayInv'
<1>0. \A k \in Ids : files[k] # None => files'[k] # None
  BY DEF RelayInv, TypeOK
<1>1. JobInv'
  BY DEF RelayInv, JobInv, Pushing
<1>2. WrittenInv'
  <2> SUFFICES ASSUME NEW d \in Conns
               PROVE  /\ pc'[d] \in {"exists", "create", "fill"} =>
                           \A n \in DOMAIN job'[d].request.objects :
                              n < job'[d].at =>
                                files'[job'[d].request.objects[n].claimed] # None
                      /\ pc'[d] \in {"record", "respond"} =>
                           \A k \in IdsOf(job'[d].request) : files'[k] # None
                      /\ pc'[d] = "replay" => records'[job'[d].request.key] # None
    BY DEF WrittenInv
  <2>1. CASE d = c
    BY <2>1
  <2>2. CASE d # c
    <3>1. pc[d] \in Pushing => job[d].request \in Requests
      BY DEF RelayInv, JobInv
    <3>2. pc[d] \in Pushing =>
            /\ \A n \in DOMAIN job[d].request.objects :
                  job[d].request.objects[n].claimed \in Ids
            /\ IdsOf(job[d].request) \subseteq Ids
      BY <3>1, RequestFacts
    <3> QED
      BY <1>0, <2>2, <3>2 DEF RelayInv, WrittenInv, Pushing
  <2> QED
    BY <2>1, <2>2
<1>3. StoredAuthentic'
  BY DEF RelayInv, TypeOK, StoredAuthentic
<1>4. RecordBacked'
  <2>1. \A k \in Keys : records[k] \notin Torn => records[k].ids \subseteq Ids
    BY DEF RelayInv, TypeOK, Report
  <2> QED
    BY <1>0, <2>1 DEF RelayInv, RecordBacked
<1> QED
  BY <1>1, <1>2, <1>3, <1>4 DEF RelayInv

(* Where a push writes, and what. *)
LEMMA WriteFacts ==
    ASSUME RelayInv, NEW c \in Conns, pc[c] \in {"create", "fill"}
    PROVE  /\ job[c].at \in DOMAIN job[c].request.objects
           /\ job[c].at \in Nat /\ job[c].at >= 1
           /\ DOMAIN job[c].request.objects \subseteq Nat
           /\ Target(c) \in Ids
           /\ Object(c) \in Envelope /\ Valid(Object(c))
           /\ \A n \in DOMAIN job[c].request.objects :
                /\ job[c].request.objects[n].claimed \in Ids
                /\ n < job[c].at => files[job[c].request.objects[n].claimed] # None
<1>1. /\ job[c].request \in Requests /\ Accepts(job[c].request)
      /\ job[c].at >= 1 /\ job[c].at \in DOMAIN job[c].request.objects
      /\ job[c].at \in Nat
  BY DEF RelayInv, JobInv, TypeOK, Pushing
<1>2. \A n \in DOMAIN job[c].request.objects :
         n < job[c].at => files[job[c].request.objects[n].claimed] # None
  BY DEF RelayInv, WrittenInv
<1> QED
  BY <1>1, <1>2, RequestFacts DEF Target, Object

LEMMA CreateHolds ==
    ASSUME RelayInv, NEW c \in Conns, Create(c)
    PROVE  RelayInv'
<1>1. pc[c] = "create" /\ records' = records /\ job' = job
  BY DEF Create
<1>2. Target(c) \in Ids /\ Empty \in (Envelope \cup Torn) \ {None}
  BY <1>1, WriteFacts, RelayConstants DEF Torn
<1>3. files' = [files EXCEPT ![Target(c)] = Empty]
  BY DEF Create
<1>4. TypeOK'
  BY <1>1, <1>2, <1>3 DEF Create, Goto, RelayInv, TypeOK, history
<1>5. pc'[c] = "fill" /\ \A d \in Conns \ {c} : pc'[d] = pc[d]
  BY DEF Create, Goto, RelayInv, TypeOK, history
<1>6. \A n \in DOMAIN job[c].request.objects :
         n < job[c].at => files'[job[c].request.objects[n].claimed] # None
  BY <1>1, <1>2, <1>3, WriteFacts DEF RelayInv, TypeOK
<1> QED
  BY <1>1, <1>2, <1>3, <1>4, <1>5, <1>6, WriteFacts, FileStep DEF Torn, Pushing

LEMMA FillHolds ==
    ASSUME RelayInv, NEW c \in Conns, Fill(c)
    PROVE  RelayInv'
<1>1. pc[c] = "fill" /\ records' = records
  BY DEF Fill
<1>2. PICK x \in Overwrite(files[Target(c)], Object(c)) :
        files' = [files EXCEPT ![Target(c)] = x]
  BY DEF Fill
<1>3. /\ Target(c) \in Ids
      /\ x \in (Envelope \cup Torn) \ {None}
      /\ x \notin Torn => x.claimed = Target(c) /\ Valid(x)
  BY <1>1, <1>2, WriteFacts, RelayConstants DEF Overwrite, Torn, Target
<1>4. TypeOK'
  <2>1. files' \in [Ids -> Envelope \cup Torn]
    BY <1>2, <1>3 DEF RelayInv, TypeOK
  <2> QED
    BY <1>1, <2>1 DEF Fill, Goto, RelayInv, TypeOK, history
<1>5. /\ pc'[c] = "exists" /\ job'[c].request = job[c].request
      /\ job'[c].at = job[c].at + 1
      /\ \A d \in Conns \ {c} : pc'[d] = pc[d] /\ job'[d] = job[d]
  BY DEF Fill, Goto, RelayInv, TypeOK, history
<1>6. /\ job[c].at \in Nat /\ job[c].at >= 1
      /\ DOMAIN job[c].request.objects \subseteq Nat
      /\ \A n \in DOMAIN job[c].request.objects :
           /\ job[c].request.objects[n].claimed \in Ids
           /\ n < job[c].at => files[job[c].request.objects[n].claimed] # None
  BY <1>1, WriteFacts
<1>7. ASSUME NEW n \in DOMAIN job[c].request.objects, n < job'[c].at
      PROVE  files'[job[c].request.objects[n].claimed] # None
  <2>1. n = job[c].at \/ n < job[c].at
    BY <1>5, <1>6, <1>7
  <2>2. CASE n = job[c].at
    <3>1. job[c].request.objects[n].claimed = Target(c)
      BY <2>2 DEF Target, Object
    <3> QED
      BY <1>2, <1>3, <3>1 DEF RelayInv, TypeOK
  <2>3. CASE n < job[c].at
    BY <1>2, <1>3, <1>6, <2>3 DEF RelayInv, TypeOK
  <2> QED
    BY <2>1, <2>2, <2>3
<1>8. job'[c].at >= 1 /\ pc[c] \in Pushing
  BY <1>1, <1>5, <1>6 DEF Pushing
<1> QED
  BY <1>1, <1>2, <1>3, <1>4, <1>5, <1>7, <1>8, FileStep

(* The steps that write an idempotency record. *)
LEMMA RecordStep ==
    ASSUME RelayInv, NEW c \in Conns, NEW k \in Keys,
           NEW x \in (Report \cup Torn) \ {None},
           x \notin Torn => \A i \in x.ids : files[i] # None,
           records' = [records EXCEPT ![k] = x], files' = files, TypeOK',
           \A d \in Conns \ {c} : pc'[d] = pc[d] /\ job'[d] = job[d],
           \/ pc'[c] = "idle"
           \/ pc[c] = "record" /\ pc'[c] = "respond" /\ job'[c] = job[c]
    PROVE  RelayInv'
<1>0. \A l \in Keys : records[l] # None => records'[l] # None
  BY DEF RelayInv, TypeOK
<1>1. JobInv'
  BY DEF RelayInv, JobInv, Pushing
<1>2. WrittenInv'
  <2>1. \A d \in Conns : pc[d] \in Pushing => job[d].request.key \in Keys
    BY RequestFacts DEF RelayInv, JobInv
  <2> QED
    BY <1>0, <2>1 DEF RelayInv, WrittenInv, Pushing
<1>3. StoredAuthentic' /\ RecordBacked'
  BY DEF RelayInv, TypeOK, StoredAuthentic, RecordBacked
<1> QED
  BY <1>1, <1>2, <1>3 DEF RelayInv

LEMMA RecordCreateHolds ==
    ASSUME RelayInv, NEW c \in Conns, RecordCreate(c)
    PROVE  RelayInv'
<1>1. Key(c) \in Keys /\ Empty \in (Report \cup Torn) \ {None}
  BY RequestFacts, RelayConstants
     DEF RecordCreate, RelayInv, JobInv, Key, Pushing, Torn
<1>2. records' = [records EXCEPT ![Key(c)] = Empty] /\ files' = files
  BY DEF RecordCreate
<1>3. TypeOK'
  BY <1>1 DEF RecordCreate, Goto, RelayInv, TypeOK, history
<1>4. /\ \A d \in Conns \ {c} : pc'[d] = pc[d] /\ job'[d] = job[d]
      /\ pc[c] = "record" /\ pc'[c] = "respond" /\ job'[c] = job[c]
  BY DEF RecordCreate, Goto, RelayInv, TypeOK, history
<1> QED
  BY <1>1, <1>2, <1>3, <1>4, RecordStep DEF Torn

LEMMA RecordFillHolds ==
    ASSUME RelayInv, NEW c \in Conns, RecordFill(c)
    PROVE  RelayInv'
<1>1. /\ pc[c] = "respond" /\ job[c].request \in Requests /\ Key(c) \in Keys
      /\ IdsOf(job[c].request) \subseteq Ids
      /\ \A i \in IdsOf(job[c].request) : files[i] # None
  BY RequestFacts DEF RecordFill, RelayInv, JobInv, WrittenInv, Key, Pushing
<1>2. PushReport(c) \in Report
  BY <1>1 DEF PushReport, Report, RelayInv, TypeOK
<1>3. PICK x \in Overwrite(records[Key(c)], PushReport(c)) :
        records' = [records EXCEPT ![Key(c)] = x]
  BY DEF RecordFill
<1>4. /\ x \in (Report \cup Torn) \ {None}
      /\ x \notin Torn => x = PushReport(c)
  BY <1>2, <1>3, RelayConstants DEF Overwrite, Torn
<1>5. x \notin Torn => \A i \in x.ids : files[i] # None
  BY <1>1, <1>4 DEF PushReport
<1>6. TypeOK'
  <2>1. records' \in [Keys -> Report \cup Torn]
    BY <1>1, <1>3, <1>4 DEF RelayInv, TypeOK
  <2>2. told' \subseteq Keys \X Report
    BY <1>1, <1>2 DEF RecordFill, RelayInv, TypeOK
  <2> QED
    BY <2>1, <2>2 DEF RecordFill, Respond, Job, RelayInv, TypeOK
<1>7. /\ \A d \in Conns \ {c} : pc'[d] = pc[d] /\ job'[d] = job[d]
      /\ pc'[c] = "idle" /\ files' = files
  BY DEF RecordFill, Respond, RelayInv, TypeOK
<1> QED
  BY <1>1, <1>3, <1>4, <1>5, <1>6, <1>7, RecordStep

LEMMA ReadHolds ==
    ASSUME RelayInv, NEW c \in Conns,
           \/ \E known \in SUBSET Ids, limit \in 0..Cardinality(Ids) : Pull(c, known, limit)
           \/ \E i \in Ids : GetObject(c, i)
           \/ ReadObject(c)
           \/ Fail(c)
    PROVE  RelayInv'
<1>1. CASE /\ Serve(c, "read", None) /\ UNCHANGED <<store, history>>
           /\ \E sel \in SUBSET Ids : todo' = [todo EXCEPT ![c] = sel]
  <2>1. TypeOK'
    BY <1>1 DEF RelayInv, TypeOK, Serve, Job, store, history
  <2>2. pc'[c] = "read" /\ \A d \in Conns \ {c} : pc'[d] = pc[d] /\ job'[d] = job[d]
    BY <1>1 DEF Serve, RelayInv, TypeOK
  <2> QED
    BY <1>1, <2>1, <2>2, QuietStep DEF Pushing
<1>2. CASE /\ \E s \in {"ok", "error"} : Respond(c, s)
           /\ UNCHANGED <<store, history>>
           /\ \E sel \in SUBSET Ids : todo' = [todo EXCEPT ![c] = sel]
  <2>1. /\ todo' \in [Conns -> SUBSET Ids] /\ told' \subseteq Keys \X Report
        /\ raced' = raced
    BY <1>2 DEF RelayInv, TypeOK, history
  <2> QED
    BY <1>2, <2>1, RespondStep
<1>3. CASE /\ UNCHANGED <<store, history, pc, job, reply>> /\ pc[c] = "read"
           /\ \E sel \in SUBSET Ids : todo' = [todo EXCEPT ![c] = sel]
  <2>1. TypeOK'
    BY <1>3 DEF RelayInv, TypeOK, store, history
  <2> QED
    BY <1>3, <2>1, QuietStep DEF Pushing
<1>4. ASSUME NEW known \in SUBSET Ids, NEW limit \in 0..Cardinality(Ids),
             Pull(c, known, limit)
      PROVE  RelayInv'
  BY <1>1, <1>4 DEF Pull, Listed
<1>5. ASSUME NEW i \in Ids, GetObject(c, i)
      PROVE  RelayInv'
  BY <1>1, <1>5 DEF GetObject
<1>6. CASE ReadObject(c)
  <2>1. todo[c] \in SUBSET Ids /\ todo = [todo EXCEPT ![c] = todo[c]]
    BY DEF RelayInv, TypeOK
  <2> QED
    BY <1>2, <1>3, <1>6, <2>1 DEF ReadObject
<1>7. CASE Fail(c)
  BY <1>2, <1>7 DEF Fail
<1> QED
  BY <1>4, <1>5, <1>6, <1>7

LEMMA StutterHolds == RelayInv /\ UNCHANGED vars => RelayInv'
  BY DEF RelayInv, TypeOK, JobInv, WrittenInv, StoredAuthentic, RecordBacked,
         vars, IdsOf

LEMMA NextHolds == RelayInv /\ [Next]_vars => RelayInv'
<1> SUFFICES ASSUME RelayInv, Next PROVE RelayInv'
  BY StutterHolds
<1> PICK c \in Conns :
        \/ \E r \in Requests : Push(c, r)
        \/ KeyCheck(c) \/ Replay(c) \/ Compare(c) \/ Exists(c) \/ Create(c)
        \/ Fill(c) \/ RecordCreate(c) \/ RecordFill(c)
        \/ \E known \in SUBSET Ids, limit \in 0..Cardinality(Ids) :
              Pull(c, known, limit)
        \/ \E i \in Ids : GetObject(c, i)
        \/ ReadObject(c) \/ Fail(c)
  BY DEF Next
<1> QED
  BY PushHolds, KeyHolds, ReplayHolds, CompareHolds, ExistsHolds, CreateHolds,
     FillHolds, RecordCreateHolds, RecordFillHolds, ReadHolds

LEMMA RelayInvariant == Spec => []RelayInv
  BY InitHolds, NextHolds, PTL DEF Spec

(* Every object file of the relay that parses is stored under its own id   *)
(* and meets the signature policy in force, whatever pushes overlap, fail  *)
(* or are cut off by a crash: push_bundle validates the whole bundle       *)
(* before its first write.                                                 *)
THEOREM StoredObjectsAreAuthentic == Spec => []StoredAuthentic
<1>1. RelayInv => StoredAuthentic
  BY DEF RelayInv
<1> QED
  BY <1>1, RelayInvariant, PTL

(* A report that a repeated idempotency key replays names only objects     *)
(* whose files exist.                                                      *)
THEOREM ReplayedReportsAreBacked == Spec => []RecordBacked
<1>1. RelayInv => RecordBacked
  BY DEF RelayInv
<1> QED
  BY <1>1, RelayInvariant, PTL

----------------------------------------------------------------------------
(* Pushes that do not overlap                                              *)

(* Only the connection that moves matters: a push that writes is alone.    *)
LEMMA LoneStep ==
    ASSUME RelayInv, LoneInv, NEW c \in Conns, raced' = raced,
           \A d \in Conns \ {c} : pc'[d] = pc[d] /\ job'[d] = job[d],
           pc'[c] \in Pushing => pc[c] \in Pushing,
           pc[c] \in Pushing \/ UNCHANGED store,
           ~raced => ToldRecorded' /\ RecordsWhole' /\ Whole(c)'
    PROVE  LoneInv'
<1> SUFFICES ASSUME ~raced, Single, ToldRecorded', RecordsWhole', Whole(c)',
                    \A d \in Conns : Whole(d)
             PROVE  Single' /\ \A d \in Conns : Whole(d)'
  BY DEF LoneInv
<1>1. Single'
  BY DEF Single
<1>2. ASSUME NEW d \in Conns \ {c}
      PROVE  Whole(d)'
  <2>1. CASE pc[c] \in Pushing
    <3>1. pc'[d] \notin Pushing
      BY <2>1 DEF Single
    <3> QED
      BY <3>1 DEF Whole, Pushing
  <2>2. CASE UNCHANGED store
    BY <2>2 DEF Whole, Uncut, Target, Object, Key, store
  <2> QED
    BY <2>1, <2>2
<1> QED
  BY <1>1, <1>2

(* Steps that write nothing. *)
LEMMA LoneQuiet ==
    ASSUME RelayInv, LoneInv, NEW c \in Conns, UNCHANGED <<store, history>>,
           \A d \in Conns \ {c} : pc'[d] = pc[d] /\ job'[d] = job[d],
           pc'[c] \in Pushing => pc[c] \in Pushing,
           ~raced => Whole(c)'
    PROVE  LoneInv'
<1>1. ~raced => ToldRecorded' /\ RecordsWhole'
  BY DEF LoneInv, ToldRecorded, RecordsWhole, store, history
<1> QED
  BY <1>1, LoneStep DEF history

LEMMA LonePush ==
    ASSUME RelayInv, LoneInv, NEW c \in Conns, NEW r \in Requests, Push(c, r)
    PROVE  LoneInv'
<1>1. CASE Respond(c, "invalid") /\ UNCHANGED raced
  <2>1. /\ pc'[c] = "idle" /\ UNCHANGED <<store, history>>
        /\ \A d \in Conns \ {c} : pc'[d] = pc[d] /\ job'[d] = job[d]
    BY <1>1 DEF Push, Respond, RelayInv, TypeOK, history
  <2> QED
    BY <2>1, LoneQuiet DEF Whole, Pushing
<1>2. CASE /\ Serve(c, "key", r)
           /\ raced' = IF \E d \in Conns \ {c} : pc[d] \in Pushing THEN TRUE ELSE raced
  <2> SUFFICES ASSUME ~raced' PROVE Single' /\ ToldRecorded' /\ RecordsWhole'
                                   /\ \A d \in Conns : Whole(d)'
    BY DEF LoneInv
  <2>1. /\ ~raced /\ \A d \in Conns \ {c} : pc[d] \notin Pushing
        /\ pc'[c] = "key" /\ job'[c].at = 1 /\ UNCHANGED <<store, told>>
        /\ \A d \in Conns \ {c} : pc'[d] = pc[d]
    BY <1>2 DEF Push, Serve, Job, RelayInv, TypeOK
  <2>2. Single' /\ \A d \in Conns : Whole(d)'
    BY <2>1 DEF Single, Whole, Pushing
  <2>3. ToldRecorded' /\ RecordsWhole'
    BY <2>1 DEF LoneInv, ToldRecorded, RecordsWhole, store
  <2> QED
    BY <2>2, <2>3
<1> QED
  BY <1>1, <1>2 DEF Push

LEMMA LoneKey ==
    ASSUME RelayInv, LoneInv, NEW c \in Conns, KeyCheck(c)
    PROVE  LoneInv'
<1>1. /\ pc[c] = "key" /\ UNCHANGED <<store, history, job>>
      /\ pc'[c] = IF records[Key(c)] = None THEN "compare" ELSE "replay"
      /\ \A d \in Conns \ {c} : pc'[d] = pc[d] /\ job'[d] = job[d]
  BY DEF KeyCheck, Goto, RelayInv, TypeOK
<1>2. ASSUME ~raced PROVE Whole(c)'
  <2>1. /\ job[c].at = 1 /\ DOMAIN job[c].request.objects \subseteq Nat \ {0}
        /\ Key(c)' = Key(c)
    BY <1>1, <1>2, RequestFacts DEF LoneInv, Whole, RelayInv, JobInv, Pushing, Key
  <2>2. \A n \in DOMAIN job[c].request.objects : ~(n < 1)
    BY <2>1
  <2> QED
    BY <1>1, <2>1, <2>2 DEF Whole, store
<1> QED
  BY <1>1, <1>2, LoneQuiet DEF Pushing

LEMMA LoneReplay ==
    ASSUME RelayInv, LoneInv, NEW c \in Conns, Replay(c)
    PROVE  LoneInv'
<1>1. /\ pc[c] = "replay" /\ UNCHANGED <<store, raced>> /\ pc'[c] = "idle"
      /\ \A d \in Conns \ {c} : pc'[d] = pc[d] /\ job'[d] = job[d]
  BY DEF Replay, Respond, RelayInv, TypeOK
<1>2. ASSUME ~raced PROVE ToldRecorded' /\ RecordsWhole' /\ Whole(c)'
  <2>1. ToldRecorded'
    BY <1>1, <1>2 DEF Replay, LoneInv, ToldRecorded, store
  <2>2. RecordsWhole'
    BY <1>1, <1>2 DEF LoneInv, RecordsWhole, store
  <2> QED
    BY <1>1, <2>1, <2>2 DEF Whole
<1> QED
  BY <1>1, <1>2, LoneStep DEF Pushing

LEMMA LoneCompare ==
    ASSUME RelayInv, LoneInv, NEW c \in Conns, Compare(c)
    PROVE  LoneInv'
<1>1. /\ pc[c] = "compare" /\ UNCHANGED <<store, history>>
      /\ \A d \in Conns \ {c} : pc'[d] = pc[d] /\ job'[d] = job[d]
  BY DEF Compare, Goto, Respond, RelayInv, TypeOK
<1>2. /\ job[c].at \in Nat /\ DOMAIN job[c].request.objects = 1..Len(job[c].request.objects)
      /\ Len(job[c].request.objects) \in Nat
      /\ \A n \in DOMAIN job[c].request.objects : job[c].request.objects[n] \in Envelope
  BY <1>1, RequestFacts DEF RelayInv, JobInv, TypeOK, Pushing
<1>3. ASSUME ~raced PROVE Whole(c)'
  <2>0. /\ records[Key(c)] = None
        /\ \A n \in DOMAIN job[c].request.objects :
             n < job[c].at => Uncut(job[c].request.objects[n].claimed)
    BY <1>1, <1>3 DEF LoneInv, Whole
  <2>1. CASE AtEnd(c) /\ job' = [job EXCEPT ![c].at = 1] /\ Goto(c, "exists")
    <3>1. \A i \in IdsOf(job[c].request) : Uncut(i)
      BY <1>2, <2>0, <2>1 DEF AtEnd, IdsOf
    <3>2. pc'[c] = "exists" /\ job'[c].request = job[c].request
      BY <2>1 DEF Goto, RelayInv, TypeOK
    <3> QED
      BY <1>1, <2>0, <3>1, <3>2 DEF Whole, Uncut, Key, store
  <2>2. CASE /\ ~AtEnd(c) /\ files[Target(c)] \in {None, Object(c)}
             /\ job' = [job EXCEPT ![c].at = @ + 1] /\ UNCHANGED pc
    <3>1. pc'[c] = "compare" /\ job'[c].request = job[c].request /\ job'[c].at = job[c].at + 1
      BY <1>1, <2>2 DEF RelayInv, TypeOK
    <3>2. job[c].at \in DOMAIN job[c].request.objects => Uncut(Target(c))
      BY <1>2, <2>2, RelayConstants DEF Uncut, Object
    <3>3. ASSUME NEW n \in DOMAIN job[c].request.objects, n < job[c].at + 1
          PROVE  Uncut(job[c].request.objects[n].claimed)
      BY <1>2, <2>0, <3>2, <3>3 DEF Target, Object
    <3> QED
      BY <1>1, <2>0, <3>1, <3>3 DEF Whole, Uncut, Key, store
  <2>3. CASE Respond(c, "conflict")
    BY <2>3 DEF Respond, Whole, RelayInv, TypeOK
  <2> QED
    BY <2>1, <2>2, <2>3 DEF Compare
<1> QED
  BY <1>1, <1>3, LoneQuiet DEF Pushing

LEMMA LoneExists ==
    ASSUME RelayInv, LoneInv, NEW c \in Conns, Exists(c)
    PROVE  LoneInv'
<1>1. /\ pc[c] = "exists" /\ UNCHANGED <<store, history>>
      /\ \A d \in Conns \ {c} : pc'[d] = pc[d] /\ job'[d] = job[d]
  BY DEF Exists, Goto, RelayInv, TypeOK
<1>2. /\ job[c].at \in Nat /\ DOMAIN job[c].request.objects = 1..Len(job[c].request.objects)
      /\ Len(job[c].request.objects) \in Nat
  BY <1>1, RequestFacts DEF RelayInv, JobInv, TypeOK, Pushing
<1>3. ASSUME ~raced PROVE Whole(c)'
  <2>0. /\ records[Key(c)] = None
        /\ \A i \in IdsOf(job[c].request) : Uncut(i)
        /\ \A n \in DOMAIN job[c].request.objects :
             n < job[c].at => files[job[c].request.objects[n].claimed] # None
    BY <1>1, <1>3 DEF LoneInv, Whole, RelayInv, WrittenInv
  <2>1. CASE AtEnd(c) /\ Goto(c, "record") /\ UNCHANGED job
    <3>1. \A i \in IdsOf(job[c].request) : files[i] \notin Torn
      BY <1>2, <2>0, <2>1 DEF AtEnd, IdsOf, Uncut, Torn
    <3>2. pc'[c] = "record"
      BY <2>1 DEF Goto, RelayInv, TypeOK
    <3> QED
      BY <1>1, <2>0, <2>1, <3>1, <3>2 DEF Whole, Key, store
  <2>2. CASE /\ job' = [job EXCEPT ![c].at = @ + 1, ![c].duplicates = @ + 1]
             /\ UNCHANGED pc
    <3>1. pc'[c] = "exists" /\ job'[c].request = job[c].request
      BY <1>1, <2>2 DEF RelayInv, TypeOK
    <3> QED
      BY <1>1, <2>0, <3>1 DEF Whole, Uncut, Key, store
  <2>3. CASE files[Target(c)] = None /\ Goto(c, "create") /\ UNCHANGED job
    <3>1. pc'[c] = "create"
      BY <2>3 DEF Goto, RelayInv, TypeOK
    <3> QED
      BY <1>1, <2>0, <2>3, <3>1 DEF Whole, Uncut, Key, Target, Object, store
  <2> QED
    BY <2>1, <2>2, <2>3 DEF Exists
<1> QED
  BY <1>1, <1>3, LoneQuiet DEF Pushing

LEMMA LoneRead ==
    ASSUME RelayInv, LoneInv, NEW c \in Conns,
           \/ \E known \in SUBSET Ids, limit \in 0..Cardinality(Ids) : Pull(c, known, limit)
           \/ \E i \in Ids : GetObject(c, i)
           \/ ReadObject(c)
           \/ Fail(c)
    PROVE  LoneInv'
<1>1. /\ UNCHANGED <<store, history>> /\ pc'[c] \in {"idle", "read"}
      /\ \A d \in Conns \ {c} : pc'[d] = pc[d] /\ job'[d] = job[d]
  BY DEF Pull, GetObject, ReadObject, Fail, Serve, Respond, RelayInv, TypeOK
<1>2. Whole(c)' /\ pc'[c] \notin Pushing
  BY <1>1 DEF Whole, Pushing
<1> QED
  BY <1>1, <1>2, LoneQuiet

(* What the lone writer of an object file knows of the other files: none   *)
(* of those that records vouch for is the one it writes.                   *)
LEMMA LoneWriteFile ==
    ASSUME RelayInv, LoneInv, ~raced, NEW i \in Ids, files[i] \in Torn,
           \A k \in Ids \ {i} : files'[k] = files[k],
           records' = records, told' = told
    PROVE  /\ ToldRecorded' /\ RecordsWhole'
           /\ \A k \in Ids : files[k] \notin Torn => files'[k] = files[k]
<1>1. \A k \in Ids : files[k] \notin Torn => files'[k] = files[k]
  OBVIOUS
<1>2. \A k \in Keys : records[k] \notin Torn => records[k].ids \subseteq Ids
  BY DEF RelayInv, TypeOK, Report
<1>3. RecordsWhole'
  BY <1>1, <1>2 DEF LoneInv, RecordsWhole
<1> QED
  BY <1>1, <1>3 DEF LoneInv, ToldRecorded

LEMMA LoneCreate ==
    ASSUME RelayInv, LoneInv, NEW c \in Conns, Create(c)
    PROVE  LoneInv'
<1>1. /\ pc[c] = "create" /\ pc'[c] = "fill" /\ UNCHANGED <<records, job, history>>
      /\ \A d \in Conns \ {c} : pc'[d] = pc[d] /\ job'[d] = job[d]
      /\ Target(c) \in Ids /\ files' = [files EXCEPT ![Target(c)] = Empty]
  BY WriteFacts DEF Create, Goto, RelayInv, TypeOK
<1>2. ASSUME ~raced PROVE ToldRecorded' /\ RecordsWhole' /\ Whole(c)'
  <2>1. /\ files[Target(c)] = None /\ records[Key(c)] = None
        /\ \A i \in IdsOf(job[c].request) : Uncut(i)
    BY <1>1, <1>2 DEF LoneInv, Whole
  <2>2. files'[Target(c)] = Empty /\ \A i \in Ids \ {Target(c)} : files'[i] = files[i]
    BY <1>1 DEF RelayInv, TypeOK
  <2>3. ToldRecorded' /\ RecordsWhole'
    BY <1>1, <1>2, <2>1, <2>2, LoneWriteFile DEF Torn, history
  <2>4. IdsOf(job[c].request) \subseteq Ids
    BY <1>1, RequestFacts DEF RelayInv, JobInv, Pushing
  <2>5. Target(c)' = Target(c) /\ Key(c)' = Key(c)
    BY <1>1 DEF Target, Object, Key
  <2>6. Whole(c)'
    BY <1>1, <2>1, <2>2, <2>4, <2>5 DEF Whole, Uncut
  <2> QED
    BY <2>3, <2>6
<1> QED
  BY <1>1, <1>2, LoneStep DEF Pushing, history

LEMMA LoneFill ==
    ASSUME RelayInv, LoneInv, NEW c \in Conns, Fill(c)
    PROVE  LoneInv'
<1>1. /\ pc[c] = "fill" /\ pc'[c] = "exists" /\ UNCHANGED <<records, history>>
      /\ job'[c].request = job[c].request
      /\ \A d \in Conns \ {c} : pc'[d] = pc[d] /\ job'[d] = job[d]
      /\ Target(c) \in Ids /\ Object(c) \in Envelope
  BY WriteFacts DEF Fill, Goto, RelayInv, TypeOK
<1>2. ASSUME ~raced PROVE ToldRecorded' /\ RecordsWhole' /\ Whole(c)'
  <2>1. /\ files[Target(c)] = Empty /\ records[Key(c)] = None
        /\ \A i \in IdsOf(job[c].request) \ {Target(c)} : Uncut(i)
    BY <1>1, <1>2 DEF LoneInv, Whole
  <2>2. files' = [files EXCEPT ![Target(c)] = Object(c)]
    BY <2>1 DEF Fill, Overwrite
  <2>3. /\ files'[Target(c)] \notin {Empty, Garbled}
        /\ \A i \in Ids \ {Target(c)} : files'[i] = files[i]
    BY <1>1, <2>2, RelayConstants DEF RelayInv, TypeOK
  <2>4. ToldRecorded' /\ RecordsWhole'
    BY <1>1, <1>2, <2>1, <2>3, LoneWriteFile DEF Torn, history
  <2>5. IdsOf(job[c].request) \subseteq Ids
    BY <1>1, RequestFacts DEF RelayInv, JobInv, Pushing
  <2>6. \A i \in IdsOf(job[c].request) : Uncut(i)'
    BY <2>1, <2>3, <2>5 DEF Uncut
  <2>7. Whole(c)'
    BY <1>1, <2>1, <2>6 DEF Whole, Key
  <2> QED
    BY <2>4, <2>7
<1> QED
  BY <1>1, <1>2, LoneStep DEF Pushing, history

LEMMA LoneRecordCreate ==
    ASSUME RelayInv, LoneInv, NEW c \in Conns, RecordCreate(c)
    PROVE  LoneInv'
<1>1. /\ pc[c] = "record" /\ pc'[c] = "respond" /\ UNCHANGED <<files, job, history>>
      /\ \A d \in Conns \ {c} : pc'[d] = pc[d] /\ job'[d] = job[d]
      /\ records' = [records EXCEPT ![Key(c)] = Empty]
  BY DEF RecordCreate, Goto, RelayInv, TypeOK
<1>2. Key(c) \in Keys
  BY <1>1, RequestFacts DEF RelayInv, JobInv, Key, Pushing
<1>3. ASSUME ~raced PROVE ToldRecorded' /\ RecordsWhole' /\ Whole(c)'
  <2>1. /\ records[Key(c)] = None
        /\ \A i \in IdsOf(job[c].request) : files[i] \notin Torn
    BY <1>1, <1>3 DEF LoneInv, Whole
  <2>2. records'[Key(c)] = Empty /\ \A k \in Keys \ {Key(c)} : records'[k] = records[k]
    BY <1>1, <1>2 DEF RelayInv, TypeOK
  <2>3. \A t \in told : t[1] \in Keys /\ t[1] # Key(c)
    BY <1>3, <2>1, RelayConstants DEF LoneInv, ToldRecorded, RelayInv, TypeOK
  <2>4. ToldRecorded'
    BY <1>1, <1>3, <2>2, <2>3 DEF LoneInv, ToldRecorded, history
  <2>5. RecordsWhole'
    BY <1>1, <1>3, <2>2 DEF LoneInv, RecordsWhole, Torn
  <2>6. Whole(c)'
    BY <1>1, <2>1, <2>2 DEF Whole, Key
  <2> QED
    BY <2>4, <2>5, <2>6
<1> QED
  BY <1>1, <1>3, LoneStep DEF Pushing, history

LEMMA LoneRecordFill ==
    ASSUME RelayInv, LoneInv, NEW c \in Conns, RecordFill(c)
    PROVE  LoneInv'
<1>1. /\ pc[c] = "respond" /\ pc'[c] = "idle" /\ UNCHANGED <<files, raced>>
      /\ \A d \in Conns \ {c} : pc'[d] = pc[d] /\ job'[d] = job[d]
      /\ told' = told \cup {<<Key(c), PushReport(c)>>}
  BY DEF RecordFill, Respond, RelayInv, TypeOK
<1>2. Key(c) \in Keys
  BY <1>1, RequestFacts DEF RelayInv, JobInv, Key, Pushing
<1>3. ASSUME ~raced PROVE ToldRecorded' /\ RecordsWhole' /\ Whole(c)'
  <2>1. /\ records[Key(c)] = Empty
        /\ \A i \in IdsOf(job[c].request) : files[i] \notin Torn
    BY <1>1, <1>3 DEF LoneInv, Whole
  <2>2. /\ records'[Key(c)] = PushReport(c)
        /\ \A k \in Keys \ {Key(c)} : records'[k] = records[k]
    BY <1>2, <2>1 DEF RecordFill, Overwrite, RelayInv, TypeOK
  <2>3. \A t \in told : t[1] \in Keys /\ t[1] # Key(c)
    BY <1>3, <2>1, RelayConstants DEF LoneInv, ToldRecorded, RelayInv, TypeOK
  <2>4. ToldRecorded'
    <3>1. \A t \in told : records'[t[1]] = t[2]
      BY <1>3, <2>2, <2>3 DEF LoneInv, ToldRecorded
    <3> QED
      BY <1>1, <2>2, <3>1 DEF ToldRecorded
  <2>5. RecordsWhole'
    BY <1>1, <1>3, <2>1, <2>2 DEF LoneInv, RecordsWhole, PushReport
  <2>6. Whole(c)'
    BY <1>1 DEF Whole
  <2> QED
    BY <2>4, <2>5, <2>6
<1> QED
  BY <1>1, <1>3, LoneStep DEF Pushing

LEMMA LoneNext == RelayInv /\ LoneInv /\ [Next]_vars => LoneInv'
<1>1. ASSUME RelayInv, LoneInv, UNCHANGED vars PROVE LoneInv'
  <2>1. \A c \in Conns : Whole(c) => Whole(c)'
    BY <1>1 DEF vars, Whole, Uncut, Key, Target, Object
  <2> QED
    BY <1>1, <2>1 DEF vars, LoneInv, Single, ToldRecorded, RecordsWhole
<1>2. ASSUME RelayInv, LoneInv, Next PROVE LoneInv'
  BY <1>2, LonePush, LoneKey, LoneReplay, LoneCompare, LoneExists, LoneCreate,
     LoneFill, LoneRecordCreate, LoneRecordFill, LoneRead DEF Next
<1> QED
  BY <1>1, <1>2

LEMMA LoneInvariant == Spec => [](RelayInv /\ LoneInv)
<1>1. Init => LoneInv
  BY DEF Init, Torn, LoneInv, Single, ToldRecorded, RecordsWhole, Whole, Pushing
<1> QED
  BY <1>1, InitHolds, NextHolds, LoneNext, PTL DEF Spec

(* As long as no two pushes overlapped, a client that was told its push    *)
(* succeeded can fetch every object it was told about, whole, whatever     *)
(* failed, crashed or was read meanwhile.                                  *)
THEOREM AckedObjectsStored == Spec => []AckedStored
<1>1. RelayInv /\ LoneInv => AckedStored
  <2> SUFFICES ASSUME RelayInv, LoneInv, ~raced, NEW t \in told, NEW i \in t[2].ids
               PROVE  files[i] \notin Torn
    BY DEF AckedStored
  <2>1. t[1] \in Keys /\ records[t[1]] = t[2] /\ t[2] \in Report
    BY DEF LoneInv, ToldRecorded, RelayInv, TypeOK
  <2>2. t[2] \notin Torn
    BY <2>1, RelayConstants DEF Torn
  <2> QED
    BY <2>1, <2>2 DEF LoneInv, RecordsWhole
<1> QED
  BY <1>1, LoneInvariant, PTL

(* As long as no two pushes overlapped, the successful responses under one *)
(* idempotency key are one response: each is the record of the key.        *)
THEOREM AnswersAgree == Spec => []RepliesAgree
<1>1. LoneInv => RepliesAgree
  BY DEF LoneInv, ToldRecorded, RepliesAgree
<1> QED
  BY <1>1, LoneInvariant, PTL

(* As long as no two pushes overlapped, write_bytes truncates no object    *)
(* file that is whole: a push writes only files that its first loop saw    *)
(* missing.                                                                *)
THEOREM LonePushesKeepObjects == Spec => ImmutableAlone
<1>1. RelayInv /\ LoneInv /\ [Next]_vars =>
        [~raced' => \A i \in Ids : files[i] \notin Torn => files'[i] = files[i]]_vars
  <2> SUFFICES ASSUME RelayInv, LoneInv, Next, ~raced'
               PROVE  \A i \in Ids : files[i] \notin Torn => files'[i] = files[i]
    OBVIOUS
  <2>1. PICK c \in Conns : UNCHANGED files \/ Create(c) \/ Fill(c)
    BY DEF Next, Push, KeyCheck, Replay, Compare, Exists, RecordCreate, RecordFill,
           Pull, GetObject, ReadObject, Fail, store
  <2>2. CASE UNCHANGED files
    BY <2>2
  <2>3. CASE Create(c) \/ Fill(c)
    <3>1. pc[c] \in {"create", "fill"} /\ ~raced /\ Target(c) \in Ids
      BY <2>3, WriteFacts DEF Create, Fill, history
    <3>2. files[Target(c)] \in Torn
      BY <3>1 DEF LoneInv, Whole, Torn
    <3>3. \A i \in Ids \ {Target(c)} : files'[i] = files[i]
      BY <2>3, <3>1 DEF Create, Fill, RelayInv, TypeOK
    <3> QED
      BY <3>2, <3>3
  <2> QED
    BY <2>1, <2>2, <2>3
<1> QED
  BY <1>1, LoneInvariant, PTL DEF Spec, ImmutableAlone
=============================================================================
