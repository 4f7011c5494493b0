--------------------------- MODULE GcsRelayProofs ---------------------------
(***************************************************************************)
(* Proofs about GcsRelay for any number of connections, tries, pages and   *)
(* late uploads, any requests and either signature policy.  The bucket     *)
(* takes a name once, so whatever a connection has seen there stays; the   *)
(* invariant says what that is at each label.                              *)
(***************************************************************************)
EXTENDS GcsRelay, GcsTransport, TLAPS

Labels == {"idle", "key", "list", "next", "put", "record", "back", "listed", "get"}

(* What may be sent to the bucket: an object under its id, or a report of  *)
(* objects that are all there.                                             *)
Backed(r) == r \in Report /\ \A i \in r.ids : objects[i] # None

Sendable(u) ==
    \/ u.to = "objects" /\ u.name \in Ids /\ u.value \in Authentic[u.name]
    \/ u.to = "records" /\ u.name \in Keys /\ Backed(u.value)

TypeOK ==
    /\ objects \in [Ids -> Envelope \cup {None}]
    /\ records \in [Keys -> Report \cup {None}]
    /\ pc \in [Conns -> Labels]
    /\ job \in [Conns -> [request : Requests \cup {None}, at : Nat,
                          accepted : Nat, duplicates : Nat]]
    /\ try \in [Conns -> Nat]
    /\ names \in [Conns -> SUBSET Ids]
    /\ todo \in [Conns -> SUBSET Ids]
    /\ told \subseteq Keys \X Report
    /\ credit \in [Ids -> Seq(Envelope)]

(* The loop of the push has passed only objects that are in the bucket. *)
Passed(c) ==
    \A n \in DOMAIN job[c].request.objects :
       n < job[c].at => objects[job[c].request.objects[n].claimed] # None

(* What a connection holds. *)
Holds(c) ==
    /\ \A i \in names[c] : objects[i] # None
    /\ pc[c] = "idle" => job[c].request = None
    /\ job[c].request # None => Accepts(job[c].request)
    /\ pc[c] \in {"key", "next", "put", "record", "back"} => job[c].request \in Requests
    /\ pc[c] \in {"idle", "key", "list"} => job[c].at = 1
    /\ pc[c] \in {"next", "put"} => Passed(c) /\ job[c].at >= 1
    /\ pc[c] = "put" => job[c].at \in DOMAIN job[c].request.objects
    /\ pc[c] = "record" => \A i \in IdsOf(job[c].request) : objects[i] # None
    /\ pc[c] = "back" => records[Key(c)] # None

ConnInv == \A c \in Conns : Holds(c)

(* Records, also those still on their way, name objects that are there. *)
BucketInv ==
    /\ \A k \in Keys : records[k] # None => Backed(records[k])
    /\ \A u \in late : Sendable(u)

(* What was told is the record of its key, and what was counted is what    *)
(* the bucket holds.                                                       *)
HistoryInv ==
    /\ \A t \in told : records[t[1]] = t[2]
    /\ \A i \in Ids :
         credit[i] = <<>> \/ (objects[i] # None /\ credit[i] = <<objects[i]>>)

GcsInv == TypeOK /\ ConnInv /\ BucketInv /\ HistoryInv

(* The bucket takes a name once. *)
Kept ==
    /\ \A i \in Ids : objects[i] # None => objects'[i] = objects[i]
    /\ \A k \in Keys : records[k] # None => records'[k] = records[k]

(* What a step does to the bucket: an upload is carried out, or left on    *)
(* its way.                                                                *)
BucketStep ==
    \/ UNCHANGED bucket
    \/ \E u : Sendable(u) /\ Store(u) /\ late' \subseteq late
    \/ \E u : Sendable(u) /\ late' = late \cup {u} /\ UNCHANGED <<objects, records>>

(* What has to be shown of a step that may tell or count something. *)
HistoryStep ==
    /\ told' \subseteq Keys \X Report
    /\ credit' \in [Ids -> Seq(Envelope)]
    /\ HistoryInv'

OnlyBy(c) ==
    \A d \in Conns \ {c} : pc'[d] = pc[d] /\ job'[d] = job[d] /\ names'[d] = names[d]

----------------------------------------------------------------------------
(* What an accepted request holds. *)
LEMMA RequestFacts ==
    ASSUME NEW r \in Requests
    PROVE  /\ r # None /\ r.key \in Keys
           /\ DOMAIN r.objects = 1..Len(r.objects)
           /\ Len(r.objects) \in Nat
           /\ IdsOf(r) \subseteq Ids
           /\ \A n \in DOMAIN r.objects :
                /\ r.objects[n] \in Envelope
                /\ r.objects[n].claimed \in Ids
                /\ Accepts(r) => r.objects[n] \in Authentic[r.objects[n].claimed]
<1>1. /\ r.key \in Keys /\ r.objects \in Seq(Envelope)
      /\ \A n \in DOMAIN r.objects : r.objects[n].claimed \in Ids
  BY ObjectConstants
<1>2. DOMAIN r.objects = 1..Len(r.objects) /\ Len(r.objects) \in Nat
  BY <1>1
<1>3. \A n \in DOMAIN r.objects : r.objects[n] \in Envelope
  BY <1>1
<1>4. IdsOf(r) \subseteq Ids
  BY <1>1 DEF IdsOf
<1>5. \A n \in DOMAIN r.objects :
         Accepts(r) => r.objects[n] \in Authentic[r.objects[n].claimed]
  BY <1>1, <1>3 DEF Accepts, Authentic
<1> QED
  BY <1>1, <1>2, <1>3, <1>4, <1>5, GcsConstants

LEMMA InitHolds == Init => GcsInv
<1> SUFFICES ASSUME Init PROVE GcsInv
  OBVIOUS
<1> USE DEF Init, Job
<1>1. TypeOK
  BY DEF TypeOK, Labels
<1>2. ConnInv
  BY DEF ConnInv, Holds
<1>3. BucketInv /\ HistoryInv
  BY DEF BucketInv, HistoryInv
<1> QED
  BY <1>1, <1>2, <1>3 DEF GcsInv

(* A carried out upload takes a free name, or none. *)
LEMMA StoreFacts ==
    ASSUME TypeOK, NEW u, Sendable(u), Store(u)
    PROVE  /\ Kept
           /\ objects' \in [Ids -> Envelope \cup {None}]
           /\ records' \in [Keys -> Report \cup {None}]
           /\ \A k \in Keys : records'[k] # records[k] => Backed(records'[k])
<1>1. CASE /\ u.name \in Ids /\ u.value \in Envelope /\ records' = records
           /\ objects' = [objects EXCEPT ![u.name] = IF @ = None THEN u.value ELSE @]
  BY <1>1 DEF TypeOK, Kept
<1>2. CASE /\ u.name \in Keys /\ Backed(u.value) /\ objects' = objects
           /\ records' = [records EXCEPT ![u.name] = IF @ = None THEN u.value ELSE @]
  BY <1>2 DEF TypeOK, Kept, Backed
<1>3. u.to = "objects" => u.to # "records"
  OBVIOUS
<1>4. u.to = "objects" => u.value \in Envelope
  BY DEF Sendable, Authentic
<1> QED
  BY <1>1, <1>2, <1>3, <1>4 DEF Sendable, Store

(* So what is backed, sendable or recorded stays so, in every step.        *)
LEMMA BackedStays ==
    ASSUME Kept, NEW r, Backed(r)
    PROVE  Backed(r)'
<1>1. r \in Report /\ r.ids \subseteq Ids
  BY DEF Backed, Report
<1> QED
  BY <1>1 DEF Backed, Kept

LEMMA BucketKept ==
    ASSUME TypeOK, BucketInv, BucketStep
    PROVE  /\ Kept /\ BucketInv'
           /\ objects' \in [Ids -> Envelope \cup {None}]
           /\ records' \in [Keys -> Report \cup {None}]
<1>1. /\ Kept
      /\ objects' \in [Ids -> Envelope \cup {None}]
      /\ records' \in [Keys -> Report \cup {None}]
      /\ \A k \in Keys : records'[k] # records[k] => Backed(records'[k])
  <2>1. CASE UNCHANGED <<objects, records>>
    BY <2>1 DEF TypeOK, Kept
  <2>2. CASE \E u : Sendable(u) /\ Store(u)
    BY <2>2, StoreFacts
  <2> QED
    BY <2>1, <2>2 DEF BucketStep, bucket
<1>2. (\A k \in Keys : records[k] # None => Backed(records[k]))'
  <2> SUFFICES ASSUME NEW k \in Keys, records'[k] # None PROVE Backed(records[k])'
    OBVIOUS
  <2>1. records'[k] \in Report /\ \A i \in records'[k].ids : objects[i] # None
    BY <1>1 DEF BucketInv, Backed
  <2>2. records'[k].ids \subseteq Ids
    BY <2>1 DEF Report
  <2> QED
    BY <1>1, <2>1, <2>2 DEF Backed, Kept
<1>3. \A u : Sendable(u) => Sendable(u)'
  <2> SUFFICES ASSUME NEW u, Sendable(u) PROVE Sendable(u)'
    OBVIOUS
  <2>1. CASE u.to = "records" /\ u.name \in Keys /\ Backed(u.value)
    BY <1>1, <2>1, BackedStays DEF Sendable
  <2>2. CASE u.to = "objects" /\ u.name \in Ids /\ u.value \in Authentic[u.name]
    BY <2>2 DEF Sendable
  <2> QED
    BY <2>1, <2>2 DEF Sendable
<1>4. \A u \in late' : u \in late \/ Sendable(u)
  BY DEF BucketStep, bucket
<1>5. \A u \in late' : Sendable(u)'
  BY <1>3, <1>4 DEF BucketInv
<1> QED
  BY <1>1, <1>2, <1>5 DEF BucketInv

(* A connection that does not move holds what it held. *)
LEMMA HoldsKept ==
    ASSUME TypeOK, Kept, NEW d \in Conns, Holds(d),
           pc'[d] = pc[d], job'[d] = job[d], names'[d] = names[d]
    PROVE  Holds(d)'
<1>1. names[d] \subseteq Ids
  BY DEF TypeOK
<1>2. pc[d] \in {"key", "next", "put", "record", "back"} =>
        /\ job[d].request.key \in Keys
        /\ IdsOf(job[d].request) \subseteq Ids
        /\ \A n \in DOMAIN job[d].request.objects : job[d].request.objects[n].claimed \in Ids
  BY RequestFacts DEF Holds
<1>3. \A i \in names'[d] : objects'[i] # None
  BY <1>1 DEF Holds, Kept
<1>4. pc[d] \in {"next", "put"} => Passed(d)'
  BY <1>2 DEF Holds, Passed, Kept
<1>5. pc[d] = "record" => \A i \in IdsOf(job[d].request) : objects'[i] # None
  BY <1>2 DEF Holds, Kept
<1>6. pc[d] = "back" => records'[job[d].request.key] # None
  BY <1>2 DEF Holds, Kept, Key
<1> QED
  BY <1>3, <1>4, <1>5, <1>6 DEF Holds, Key

(* The connections that a step is not about hold what they held. *)
LEMMA OthersHold ==
    ASSUME TypeOK, ConnInv, Kept, NEW c \in Conns, OnlyBy(c), Holds(c)'
    PROVE  ConnInv'
<1> SUFFICES ASSUME NEW d \in Conns \ {c} PROVE Holds(d)'
  BY DEF ConnInv
<1> QED
  BY HoldsKept DEF ConnInv, OnlyBy

(* The history stays true in a step that neither tells nor counts          *)
(* anything, and in one that tells the record of a key.                    *)
LEMMA HistoryKept ==
    ASSUME GcsInv, BucketStep, UNCHANGED history
    PROVE  HistoryStep
<1>1. Kept /\ (\A t \in told : records[t[1]] = t[2] /\ t[1] \in Keys /\ t[2] \in Report)
  BY BucketKept DEF GcsInv, HistoryInv, TypeOK
<1>2. \A t \in told : records'[t[1]] = t[2]
  BY <1>1, GcsConstants DEF Kept
<1>3. \A i \in Ids :
         credit[i] = <<>> \/ (objects'[i] # None /\ credit[i] = <<objects'[i]>>)
  BY <1>1 DEF GcsInv, HistoryInv, Kept
<1> QED
  BY <1>2, <1>3 DEF GcsInv, TypeOK, HistoryInv, HistoryStep, history

LEMMA HistoryTold ==
    ASSUME GcsInv, BucketStep, NEW k \in Keys, records'[k] # None,
           told' = told \cup {<<k, records'[k]>>}, UNCHANGED credit
    PROVE  HistoryStep
<1>1. /\ Kept /\ records'[k] \in Report
      /\ \A t \in told : records[t[1]] = t[2] /\ t[1] \in Keys /\ t[2] \in Report
  BY BucketKept DEF GcsInv, HistoryInv, TypeOK
<1>2. \A t \in told : records'[t[1]] = t[2]
  BY <1>1, GcsConstants DEF Kept
<1>3. (\A t \in told' : records'[t[1]] = t[2]) /\ told' \subseteq Keys \X Report
  BY <1>1, <1>2 DEF GcsInv, TypeOK
<1>4. \A i \in Ids :
         credit[i] = <<>> \/ (objects'[i] # None /\ credit[i] = <<objects'[i]>>)
  BY <1>1 DEF GcsInv, HistoryInv, Kept
<1> QED
  BY <1>3, <1>4 DEF GcsInv, TypeOK, HistoryInv, HistoryStep

(* What has to be shown of a step of one connection. *)
LEMMA ConnStep ==
    ASSUME GcsInv, BucketStep, NEW c \in Conns, OnlyBy(c), HistoryStep,
           pc' \in [Conns -> Labels],
           job' \in [Conns -> [request : Requests \cup {None}, at : Nat,
                               accepted : Nat, duplicates : Nat]],
           try' \in [Conns -> Nat], names' \in [Conns -> SUBSET Ids],
           todo' \in [Conns -> SUBSET Ids],
           Holds(c)'
    PROVE  GcsInv'
<1>1. /\ Kept /\ BucketInv'
      /\ objects' \in [Ids -> Envelope \cup {None}]
      /\ records' \in [Keys -> Report \cup {None}]
  BY BucketKept DEF GcsInv
<1>2. TypeOK'
  BY <1>1 DEF GcsInv, TypeOK, HistoryStep
<1>3. ConnInv'
  BY <1>1, OthersHold DEF GcsInv
<1> QED
  BY <1>1, <1>2, <1>3 DEF GcsInv, HistoryStep

(* The loop of a push goes on to the next object. *)
LEMMA Advance ==
    ASSUME GcsInv, NEW c \in Conns,
           \/ job' = [job EXCEPT ![c].at = @ + 1, ![c].accepted = @ + 1]
           \/ job' = [job EXCEPT ![c].at = @ + 1, ![c].duplicates = @ + 1]
    PROVE  /\ job'[c].at = job[c].at + 1 /\ job'[c].request = job[c].request
           /\ job' \in [Conns -> [request : Requests \cup {None}, at : Nat,
                                  accepted : Nat, duplicates : Nat]]
           /\ \A d \in Conns \ {c} : job'[d] = job[d]
<1> DEFINE J == [request : Requests \cup {None}, at : Nat, accepted : Nat, duplicates : Nat]
<1>1. job \in [Conns -> J]
  BY DEF GcsInv, TypeOK
<1>2. CASE job' = [job EXCEPT ![c].at = @ + 1, ![c].accepted = @ + 1]
  <2>1. job' \in [Conns -> J]
    BY <1>1, <1>2
  <2> QED
    BY <1>1, <1>2, <2>1
<1>3. CASE job' = [job EXCEPT ![c].at = @ + 1, ![c].duplicates = @ + 1]
  <2>1. job' \in [Conns -> J]
    BY <1>1, <1>3
  <2> QED
    BY <1>1, <1>3, <2>1
<1> QED
  BY <1>2, <1>3

(* A request ends. *)
LEMMA RespondStep ==
    ASSUME GcsInv, BucketStep, NEW c \in Conns, Respond(c), HistoryStep
    PROVE  GcsInv'
<1>1. /\ pc'[c] = "idle" /\ job'[c] = Job(None) /\ names'[c] = {}
      /\ OnlyBy(c)
  BY DEF Respond, Goto, GcsInv, TypeOK, OnlyBy
<1>2. Holds(c)'
  BY <1>1 DEF Holds, Job
<1>3. /\ pc' \in [Conns -> Labels]
      /\ job' \in [Conns -> [request : Requests \cup {None}, at : Nat,
                             accepted : Nat, duplicates : Nat]]
      /\ try' \in [Conns -> Nat] /\ names' \in [Conns -> SUBSET Ids]
      /\ todo' \in [Conns -> SUBSET Ids]
  BY DEF Respond, Goto, Job, GcsInv, TypeOK, Labels
<1> QED
  BY <1>1, <1>2, <1>3, ConnStep

(* A connection goes on, with the job and the names it has. *)
LEMMA GotoStep ==
    ASSUME GcsInv, BucketStep, NEW c \in Conns, NEW l \in Labels, Goto(c, l),
           UNCHANGED job, HistoryStep,
           names' \in [Conns -> SUBSET Ids], todo' \in [Conns -> SUBSET Ids],
           \A d \in Conns \ {c} : names'[d] = names[d],
           Holds(c)'
    PROVE  GcsInv'
<1>1. pc' \in [Conns -> Labels] /\ try' \in [Conns -> Nat] /\ OnlyBy(c)
  BY DEF Goto, GcsInv, TypeOK, OnlyBy
<1>2. job' \in [Conns -> [request : Requests \cup {None}, at : Nat,
                          accepted : Nat, duplicates : Nat]]
  BY DEF GcsInv, TypeOK
<1> QED
  BY <1>1, <1>2, ConnStep

(* What a connection sends is in order. *)
LEMMA UploadFacts ==
    ASSUME GcsInv, NEW c \in Conns, NEW u \in Upload(c)
    PROVE  Sendable(u)
<1>0. Holds(c) /\ job[c].at \in Nat /\ job[c].accepted \in Nat /\ job[c].duplicates \in Nat
  BY DEF GcsInv, ConnInv, TypeOK
<1>1. CASE pc[c] = "put"
  <2>1. u = [name |-> Target(c), value |-> Object(c), to |-> "objects"]
    BY <1>1 DEF Upload
  <2>2. Target(c) \in Ids /\ Object(c) \in Authentic[Target(c)]
    BY <1>0, <1>1, RequestFacts DEF Holds, Target, Object
  <2> QED
    BY <2>1, <2>2 DEF Sendable
<1>2. CASE pc[c] = "record"
  <2>1. u = [name |-> Key(c), value |-> PushReport(c), to |-> "records"]
    BY <1>2 DEF Upload
  <2>2. Key(c) \in Keys /\ IdsOf(job[c].request) \subseteq Ids
    BY <1>0, <1>2, RequestFacts DEF Holds, Key
  <2>3. Backed(PushReport(c))
    BY <1>0, <1>2, <2>2 DEF Holds, Backed, PushReport, Report
  <2> QED
    BY <2>1, <2>2, <2>3 DEF Sendable
<1>3. CASE pc[c] \notin {"put", "record"}
  BY <1>3 DEF Upload
<1> QED
  BY <1>1, <1>2, <1>3

LEMMA LostFacts ==
    ASSUME GcsInv, NEW c \in Conns, Lost(c)
    PROVE  BucketStep
<1>1. CASE UNCHANGED bucket
  BY <1>1 DEF BucketStep
<1>2. CASE \E u \in Upload(c) : Store(u) /\ UNCHANGED late
  BY <1>2, UploadFacts DEF BucketStep
<1>3. CASE \E u \in Upload(c) : late' = late \cup {u} /\ UNCHANGED <<objects, records>>
  BY <1>3, UploadFacts DEF BucketStep
<1> QED
  BY <1>1, <1>2, <1>3 DEF Lost

(* No connection moves. *)
LEMMA BucketMoves ==
    ASSUME GcsInv, BucketStep, UNCHANGED <<pc, job, try, names, todo, history>>
    PROVE  GcsInv'
<1>1. /\ Kept /\ BucketInv'
      /\ objects' \in [Ids -> Envelope \cup {None}]
      /\ records' \in [Keys -> Report \cup {None}]
  BY BucketKept DEF GcsInv
<1>2. TypeOK'
  BY <1>1 DEF GcsInv, TypeOK, history
<1>3. ConnInv'
  BY <1>1, HoldsKept DEF GcsInv, ConnInv
<1>4. HistoryInv'
  BY HistoryKept DEF HistoryStep
<1> QED
  BY <1>1, <1>2, <1>3, <1>4 DEF GcsInv

LEMMA ArriveHolds ==
    ASSUME GcsInv, NEW u \in late, Arrive(u)
    PROVE  GcsInv'
<1>1. BucketStep
  BY DEF Arrive, BucketStep, GcsInv, BucketInv
<1> QED
  BY <1>1, BucketMoves DEF Arrive

LEMMA RetryHolds ==
    ASSUME GcsInv, NEW c \in Conns, Retry(c)
    PROVE  GcsInv'
<1>1. BucketStep
  BY LostFacts DEF Retry
<1>2. Kept
  BY <1>1, BucketKept DEF GcsInv
<1>3. HistoryStep
  BY <1>1, HistoryKept DEF Retry
<1>4. OnlyBy(c) /\ Holds(c)'
  BY <1>2, HoldsKept DEF Retry, OnlyBy, GcsInv, ConnInv
<1>5. try' \in [Conns -> Nat]
  BY DEF Retry, GcsInv, TypeOK
<1> QED
  BY <1>1, <1>3, <1>4, <1>5, ConnStep DEF Retry, GcsInv, TypeOK

LEMMA GiveUpHolds ==
    ASSUME GcsInv, NEW c \in Conns, GiveUp(c)
    PROVE  GcsInv'
<1>1. BucketStep
  BY LostFacts DEF GiveUp, BucketStep
<1>2. HistoryStep
  BY <1>1, HistoryKept DEF GiveUp
<1>3. CASE pc[c] = "key" /\ Goto(c, "list") /\ UNCHANGED <<job, names, todo>>
  <2>1. Kept /\ Holds(c) /\ pc'[c] = "list" /\ names[c] \subseteq Ids
    BY <1>1, <1>3, BucketKept DEF GcsInv, ConnInv, Goto, TypeOK
  <2>2. Holds(c)'
    BY <1>3, <2>1 DEF Holds, Kept
  <2> QED
    BY <1>1, <1>2, <1>3, <2>2, GotoStep DEF Labels, GcsInv, TypeOK
<1>4. CASE Respond(c)
  BY <1>1, <1>2, <1>4, RespondStep
<1> QED
  BY <1>3, <1>4 DEF GiveUp

LEMMA PushHolds ==
    ASSUME GcsInv, NEW c \in Conns, NEW r \in Requests, Push(c, r)
    PROVE  GcsInv'
<1>1. BucketStep /\ HistoryStep
  BY HistoryKept DEF Push, BucketStep
<1>2. /\ pc'[c] = "key" /\ job'[c] = Job(r) /\ names'[c] = names[c]
      /\ OnlyBy(c)
  BY DEF Push, Goto, GcsInv, TypeOK, OnlyBy
<1>3. Holds(c)'
  BY <1>2 DEF Push, Holds, Job, GcsInv, ConnInv, bucket
<1>4. /\ pc' \in [Conns -> Labels] /\ try' \in [Conns -> Nat]
      /\ job' \in [Conns -> [request : Requests \cup {None}, at : Nat,
                             accepted : Nat, duplicates : Nat]]
  BY DEF Push, Goto, Job, GcsInv, TypeOK, Labels
<1> QED
  BY <1>1, <1>2, <1>3, <1>4, ConnStep DEF Push, GcsInv, TypeOK

LEMMA KeyAnswerHolds ==
    ASSUME GcsInv, NEW c \in Conns, KeyAnswer(c)
    PROVE  GcsInv'
<1>1. BucketStep
  BY DEF KeyAnswer, BucketStep
<1>2. Key(c) \in Keys /\ Holds(c) /\ Kept
  BY <1>1, RequestFacts, BucketKept DEF KeyAnswer, GcsInv, ConnInv, Holds, Key
<1>3. CASE Goto(c, "list") /\ UNCHANGED <<job, names, todo, told>>
  <2>1. HistoryStep
    BY <1>1, <1>3, HistoryKept DEF KeyAnswer, history
  <2>2. Holds(c)'
    BY <1>2, <1>3 DEF KeyAnswer, Holds, Goto, GcsInv, TypeOK, bucket
  <2> QED
    BY <1>1, <1>3, <2>1, <2>2, GotoStep DEF Labels, GcsInv, TypeOK
<1>4. CASE /\ records[Key(c)] # None /\ Respond(c)
           /\ told' = told \cup {<<Key(c), records[Key(c)]>>}
  <2>1. HistoryStep
    BY <1>1, <1>2, <1>4, HistoryTold DEF KeyAnswer, bucket
  <2> QED
    BY <1>1, <1>4, <2>1, RespondStep
<1> QED
  BY <1>3, <1>4 DEF KeyAnswer

LEMMA ListAnswerHolds ==
    ASSUME GcsInv, NEW c \in Conns, ListAnswer(c)
    PROVE  GcsInv'
<1> DEFINE l == IF Page(c) # After(c) THEN "list"
                ELSE IF job[c].request = None THEN "listed" ELSE "next"
<1>1. BucketStep /\ HistoryStep
  BY HistoryKept DEF ListAnswer, BucketStep
<1>2. Page(c) \subseteq Ids /\ \A i \in Page(c) : objects[i] # None
  BY DEF Page, After, Stored
<1>3. /\ names'[c] = names[c] \cup Page(c) /\ names' \in [Conns -> SUBSET Ids]
      /\ \A d \in Conns \ {c} : names'[d] = names[d]
      /\ Goto(c, l) /\ pc'[c] = l /\ l \in Labels
  BY <1>2 DEF ListAnswer, GcsInv, TypeOK, Goto, Labels
<1>4. /\ Holds(c) /\ pc[c] = "list" /\ UNCHANGED <<objects, records, job>>
      /\ job[c].request \in Requests \cup {None}
  BY DEF ListAnswer, GcsInv, ConnInv, TypeOK, bucket
<1>5. l \in {"list", "listed", "next"} /\ (l = "next" => job[c].request # None)
  OBVIOUS
<1>6. l = "next" => Passed(c)'
  BY <1>4, <1>5, RequestFacts DEF Holds, Passed
<1>7. Holds(c)'
  <2> HIDE DEF l
  <2> QED
    BY <1>2, <1>3, <1>4, <1>5, <1>6 DEF Holds
<1>8. UNCHANGED job /\ todo' \in [Conns -> SUBSET Ids]
  BY DEF ListAnswer, GcsInv, TypeOK
<1> QED
  BY <1>1, <1>3, <1>7, <1>8, GotoStep

LEMMA NextObjectHolds ==
    ASSUME GcsInv, NEW c \in Conns, NextObject(c)
    PROVE  GcsInv'
<1>1. BucketStep /\ HistoryStep
  BY HistoryKept DEF NextObject, BucketStep
<1>2. /\ Holds(c) /\ pc[c] = "next" /\ Passed(c) /\ job[c].at >= 1
      /\ UNCHANGED <<objects, records, names, todo>>
  BY DEF NextObject, GcsInv, ConnInv, Holds, bucket
<1>3. /\ job[c].at \in Nat /\ Len(job[c].request.objects) \in Nat
      /\ DOMAIN job[c].request.objects = 1..Len(job[c].request.objects)
  BY <1>2, RequestFacts DEF Holds, GcsInv, TypeOK
<1>4. CASE AtEnd(c) /\ Goto(c, "record") /\ UNCHANGED job
  <2>1. \A i \in IdsOf(job[c].request) : objects[i] # None
    BY <1>2, <1>3, <1>4 DEF AtEnd, Passed, IdsOf
  <2>2. Holds(c)'
    BY <1>2, <1>4, <2>1 DEF Holds, Goto, GcsInv, TypeOK
  <2> QED
    BY <1>1, <1>2, <1>4, <2>2, GotoStep DEF Labels, GcsInv, TypeOK
<1>5. CASE /\ ~AtEnd(c) /\ Target(c) \in names[c]
           /\ job' = [job EXCEPT ![c].at = @ + 1, ![c].duplicates = @ + 1]
           /\ UNCHANGED <<pc, try>>
  <2>1. /\ job'[c].at = job[c].at + 1 /\ job'[c].request = job[c].request
        /\ job' \in [Conns -> [request : Requests \cup {None}, at : Nat,
                               accepted : Nat, duplicates : Nat]]
        /\ OnlyBy(c)
    BY <1>2, <1>5, Advance DEF OnlyBy
  <2>2. objects[Target(c)] # None
    BY <1>2, <1>5 DEF Holds
  <2>3. Passed(c)'
    <3> SUFFICES ASSUME NEW n \in DOMAIN job[c].request.objects, n < job[c].at + 1
                 PROVE  objects[job[c].request.objects[n].claimed] # None
      BY <1>2, <2>1 DEF Passed
    <3>1. n \in Nat
      BY <1>3
    <3>2. CASE n = job[c].at
      BY <2>2, <3>2 DEF Target, Object
    <3>3. CASE n < job[c].at
      BY <1>2, <3>3 DEF Passed
    <3> QED
      BY <1>3, <3>1, <3>2, <3>3
  <2>4. Holds(c)'
    BY <1>2, <1>3, <1>5, <2>1, <2>3 DEF Holds
  <2> QED
    BY <1>1, <1>2, <1>5, <2>1, <2>4, ConnStep DEF GcsInv, TypeOK
<1>6. CASE ~AtEnd(c) /\ Goto(c, "put") /\ UNCHANGED job
  <2>1. job[c].at \in DOMAIN job[c].request.objects
    BY <1>2, <1>3, <1>6 DEF AtEnd
  <2>2. Holds(c)'
    BY <1>2, <1>6, <2>1 DEF Holds, Passed, Goto, GcsInv, TypeOK
  <2> QED
    BY <1>1, <1>2, <1>6, <2>2, GotoStep DEF Labels, GcsInv, TypeOK
<1> QED
  BY <1>4, <1>5, <1>6 DEF NextObject

LEMMA PutAnswerHolds ==
    ASSUME GcsInv, NEW c \in Conns, PutAnswer(c)
    PROVE  GcsInv'
<1>1. BucketStep
  BY UploadFacts DEF PutAnswer, BucketStep
<1>2. /\ Holds(c) /\ pc[c] = "put" /\ Passed(c) /\ job[c].at >= 1
      /\ Kept /\ UNCHANGED <<names, todo, told>>
  BY <1>1, BucketKept DEF PutAnswer, GcsInv, ConnInv, Holds
<1>3. /\ job[c].at \in DOMAIN job[c].request.objects /\ Object(c) \in Envelope
      /\ job[c].at \in Nat /\ Target(c) \in Ids /\ Object(c) # None
  BY <1>2, RequestFacts, GcsConstants DEF Holds, Object, Target, GcsInv, TypeOK
<1>4. /\ objects'[Target(c)] = IF objects[Target(c)] = None THEN Object(c)
                               ELSE objects[Target(c)]
      /\ objects'[Target(c)] # None
  BY <1>2, <1>3 DEF PutAnswer, Upload, Store, GcsInv, TypeOK
<1>5. /\ job'[c].at = job[c].at + 1 /\ job'[c].request = job[c].request
      /\ job' \in [Conns -> [request : Requests \cup {None}, at : Nat,
                             accepted : Nat, duplicates : Nat]]
      /\ pc' \in [Conns -> Labels] /\ pc'[c] = "next"
      /\ try' \in [Conns -> Nat] /\ OnlyBy(c)
  BY <1>2, Advance DEF PutAnswer, Goto, GcsInv, TypeOK, OnlyBy, Labels
<1>6. HistoryStep
  <2>1. CASE objects[Target(c)] = None
    <3>1. /\ credit[Target(c)] = <<>>
          /\ credit' = [credit EXCEPT ![Target(c)] = Append(@, Object(c))]
      BY <1>3, <2>1 DEF GcsInv, HistoryInv, PutAnswer
    <3>2. credit'[Target(c)] = <<objects'[Target(c)]>>
      BY <1>3, <1>4, <2>1, <3>1 DEF GcsInv, TypeOK
    <3>3. credit' \in [Ids -> Seq(Envelope)]
      BY <1>3, <3>1 DEF GcsInv, TypeOK
    <3>4. \A i \in Ids :
            credit'[i] = <<>> \/ (objects'[i] # None /\ credit'[i] = <<objects'[i]>>)
      BY <1>2, <1>3, <1>4, <3>1, <3>2 DEF GcsInv, TypeOK, HistoryInv, Kept
    <3>5. \A t \in told : records'[t[1]] = t[2]
      BY <1>2, GcsConstants DEF GcsInv, TypeOK, HistoryInv, Kept
    <3> QED
      BY <1>2, <3>3, <3>4, <3>5 DEF HistoryStep, HistoryInv, GcsInv, TypeOK
  <2>2. CASE UNCHANGED credit
    BY <1>1, <1>2, <2>2, HistoryKept DEF history
  <2> QED
    BY <2>1, <2>2 DEF PutAnswer
<1>7. Holds(c)'
  <2>1. Passed(c)'
    <3> SUFFICES ASSUME NEW n \in DOMAIN job[c].request.objects, n < job[c].at + 1
                 PROVE  objects'[job[c].request.objects[n].claimed] # None
      BY <1>5 DEF Passed
    <3>1. n \in Nat /\ job[c].request.objects[n].claimed \in Ids
      BY <1>2, RequestFacts DEF Holds
    <3>2. CASE n = job[c].at
      BY <1>4, <3>2 DEF Target, Object
    <3>3. CASE n < job[c].at
      BY <1>2, <3>1, <3>3 DEF Passed, Kept
    <3> QED
      BY <1>3, <3>1, <3>2, <3>3
  <2>2. \A i \in names'[c] : objects'[i] # None
    BY <1>2 DEF Holds, Kept, GcsInv, TypeOK
  <2> QED
    BY <1>2, <1>3, <1>5, <2>1, <2>2 DEF Holds
<1> QED
  BY <1>1, <1>2, <1>5, <1>6, <1>7, ConnStep DEF GcsInv, TypeOK

LEMMA RecordAnswerHolds ==
    ASSUME GcsInv, NEW c \in Conns, RecordAnswer(c)
    PROVE  GcsInv'
<1>1. BucketStep
  BY UploadFacts DEF RecordAnswer, BucketStep
<1>2. /\ pc[c] = "record" /\ Holds(c) /\ Kept /\ Key(c) \in Keys
      /\ UNCHANGED <<credit>>
  BY <1>1, RequestFacts, BucketKept
     DEF RecordAnswer, GcsInv, ConnInv, Holds, Key
<1>3. CASE /\ records[Key(c)] = None /\ Respond(c)
           /\ told' = told \cup {<<Key(c), PushReport(c)>>}
  <2>1. records' = [records EXCEPT ![Key(c)] = PushReport(c)]
    BY <1>2, <1>3 DEF RecordAnswer, Upload, Store, GcsInv, TypeOK
  <2>2. PushReport(c) \in Report
    BY <1>2, UploadFacts DEF Upload, Sendable, Backed
  <2>3. records'[Key(c)] = PushReport(c) /\ records'[Key(c)] # None
    BY <1>2, <2>1, <2>2, GcsConstants DEF GcsInv, TypeOK
  <2>4. HistoryStep
    BY <1>1, <1>2, <1>3, <2>3, HistoryTold
  <2> QED
    BY <1>1, <1>3, <2>4, RespondStep
<1>4. CASE /\ records[Key(c)] # None /\ Goto(c, "back")
           /\ UNCHANGED <<job, names, todo, told>>
  <2>1. HistoryStep
    BY <1>1, <1>2, <1>4, HistoryKept DEF history
  <2>2. records'[Key(c)] # None
    BY <1>2, <1>4 DEF Kept
  <2>3. \A i \in names[c] : objects'[i] # None
    BY <1>2 DEF Holds, Kept, GcsInv, TypeOK
  <2>4. pc'[c] = "back" /\ Key(c)' = Key(c)
    BY <1>4 DEF Goto, Key, GcsInv, TypeOK
  <2>5. Holds(c)'
    BY <1>2, <1>4, <2>2, <2>3, <2>4 DEF Holds
  <2> QED
    BY <1>1, <1>4, <2>1, <2>5, GotoStep DEF Labels, GcsInv, TypeOK
<1> QED
  BY <1>3, <1>4 DEF RecordAnswer

LEMMA BackAnswerHolds ==
    ASSUME GcsInv, NEW c \in Conns, BackAnswer(c)
    PROVE  GcsInv'
<1>1. BucketStep
  BY DEF BackAnswer, BucketStep
<1>2. records[Key(c)] # None /\ Key(c) \in Keys
  BY RequestFacts DEF BackAnswer, GcsInv, ConnInv, Holds, Key
<1>3. HistoryStep
  BY <1>1, <1>2, HistoryTold DEF BackAnswer, bucket
<1> QED
  BY <1>1, <1>3, RespondStep DEF BackAnswer

(* The operations that only read: none of their steps holds anything but   *)
(* listed names.                                                           *)
LEMMA ReadHolds ==
    ASSUME GcsInv, NEW c \in Conns,
           \/ StartList(c)
           \/ \E i \in Ids : StartGet(c, i)
           \/ \E known \in SUBSET Ids, limit \in 0..Cardinality(Ids) :
                 Listed(c, known, limit)
           \/ GetAnswer(c)
    PROVE  GcsInv'
<1>1. Holds(c) /\ names[c] \subseteq Ids /\ todo[c] \subseteq Ids
  BY DEF GcsInv, ConnInv, TypeOK
<1>2. BucketStep /\ HistoryStep
  BY HistoryKept DEF StartList, StartGet, Listed, GetAnswer, BucketStep
<1>3. UNCHANGED <<objects, records>>
  BY DEF StartList, StartGet, Listed, GetAnswer, bucket
<1>4. CASE Respond(c)
  BY <1>2, <1>4, RespondStep
<1>5. CASE /\ Goto(c, "list") /\ pc[c] = "idle" /\ UNCHANGED <<job, names, todo>>
  <2>1. Holds(c)'
    BY <1>1, <1>3, <1>5 DEF Holds, Goto, GcsInv, TypeOK
  <2> QED
    BY <1>2, <1>5, <2>1, GotoStep DEF Labels, GcsInv, TypeOK
<1>6. CASE /\ Goto(c, "get") /\ UNCHANGED <<job, names>>
           /\ todo' \in [Conns -> SUBSET Ids]
  <2>1. Holds(c)'
    BY <1>1, <1>3, <1>6 DEF Holds, Goto, GcsInv, TypeOK
  <2> QED
    BY <1>2, <1>6, <2>1, GotoStep DEF Labels, GcsInv, TypeOK
<1>7. CASE StartList(c)
  BY <1>5, <1>7 DEF StartList
<1>8. CASE \E i \in Ids : StartGet(c, i)
  BY <1>6, <1>8 DEF StartGet, GcsInv, TypeOK
<1>9. CASE \E known \in SUBSET Ids, limit \in 0..Cardinality(Ids) :
             Listed(c, known, limit)
  <2>1. PICK known \in SUBSET Ids, limit \in 0..Cardinality(Ids) :
           Listed(c, known, limit)
    BY <1>9
  <2> DEFINE missing == names[c] \ known
             first == {i \in missing : Cardinality({j \in missing : j <= i}) <= limit}
  <2>2. first \subseteq Ids
    BY <1>1
  <2>3. todo' = [todo EXCEPT ![c] = first] /\ Goto(c, "get") /\ UNCHANGED <<job, names>>
    BY <2>1 DEF Listed
  <2> HIDE DEF first
  <2>4. todo' \in [Conns -> SUBSET Ids]
    BY <2>2, <2>3 DEF GcsInv, TypeOK
  <2> QED
    BY <1>6, <2>3, <2>4
<1>10. CASE GetAnswer(c)
  <2>1. CASE \E i \in todo[c] : /\ todo' = [todo EXCEPT ![c] = @ \ {i}]
                                /\ Goto(c, "get") /\ UNCHANGED <<job, names>>
    BY <1>1, <1>6, <2>1 DEF GcsInv, TypeOK
  <2> QED
    BY <1>4, <1>10, <2>1 DEF GetAnswer
<1> QED
  BY <1>7, <1>8, <1>9, <1>10

LEMMA NextHolds ==
    ASSUME GcsInv, [Next]_vars
    PROVE  GcsInv'
<1>1. CASE UNCHANGED vars
  BY <1>1, BucketMoves DEF vars, BucketStep, bucket, history
<1>2. CASE \E u \in late : Arrive(u)
  BY <1>2, ArriveHolds
<1>3. ASSUME NEW c \in Conns,
             \/ \E r \in Requests : Push(c, r)
             \/ StartList(c)
             \/ \E i \in Ids : StartGet(c, i)
             \/ Step(c)
      PROVE  GcsInv'
  BY <1>3, PushHolds, ReadHolds, RetryHolds, GiveUpHolds, KeyAnswerHolds,
     ListAnswerHolds, NextObjectHolds, PutAnswerHolds, RecordAnswerHolds,
     BackAnswerHolds DEF Step
<1> QED
  BY <1>1, <1>2, <1>3 DEF Next

(* Whatever is listed, recorded, told or counted is in the bucket.         *)
THEOREM GcsInvariant == Spec => []GcsInv
<1>1. Init => GcsInv
  BY InitHolds
<1>2. GcsInv /\ [Next]_vars => GcsInv'
  BY NextHolds
<1> QED
  BY <1>1, <1>2, PTL DEF Spec

----------------------------------------------------------------------------
(* A client that was told its push succeeded can get every object it was   *)
(* told about: push_bundle of GcsRelayStore, with lost answers, late       *)
(* uploads and reports of others.                                          *)
THEOREM AckedObjectsStored == Spec => []AckedStored
<1>1. GcsInv => AckedStored
  <2> SUFFICES ASSUME GcsInv, NEW t \in told, NEW i \in t[2].ids
               PROVE  objects[i] # None
    BY DEF AckedStored
  <2>1. t[1] \in Keys /\ t[2] \in Report /\ records[t[1]] = t[2]
    BY DEF GcsInv, TypeOK, HistoryInv
  <2> QED
    BY <2>1, GcsConstants DEF GcsInv, BucketInv, Backed
<1> QED
  BY <1>1, GcsInvariant, PTL

(* All successful responses under one idempotency key are the same: the    *)
(* record is written once, and every response is the record.               *)
THEOREM AnswersAgree == Spec => []RepliesAgree
<1>1. GcsInv => RepliesAgree
  BY DEF GcsInv, HistoryInv, RepliesAgree
<1> QED
  BY <1>1, GcsInvariant, PTL

(* An object is counted as accepted by at most one push, the one whose     *)
(* upload took the free name, and that is the object the bucket holds.     *)
THEOREM CountedOnce == Spec => []AcceptedOnce
<1>1. GcsInv => AcceptedOnce
  <2> SUFFICES ASSUME GcsInv, NEW i \in Ids
               PROVE  /\ Len(credit[i]) <= 1
                      /\ \A n \in DOMAIN credit[i] : credit[i][n] = objects[i]
    BY DEF AcceptedOnce
  <2>1. CASE credit[i] = <<>>
    BY <2>1
  <2>2. CASE objects[i] # None /\ credit[i] = <<objects[i]>>
    <3>1. objects[i] \in Envelope
      BY <2>2 DEF GcsInv, TypeOK
    <3> QED
      BY <2>2, <3>1
  <2> QED
    BY <2>1, <2>2 DEF GcsInv, HistoryInv
<1> QED
  BY <1>1, GcsInvariant, PTL

----------------------------------------------------------------------------
(* Refinement of RelayPromise.                                             *)

(* What the bucket does on its own or for an upload is a store, a record   *)
(* or nothing that the promise speaks of.                                  *)
LEMMA QuietPromise ==
    ASSUME GcsInv, BucketStep, UNCHANGED told
    PROVE  Promise!PromiseNext \/ UNCHANGED <<objects, records, told>>
<1>1. CASE UNCHANGED <<objects, records>>
  BY <1>1
<1>2. CASE \E u : Sendable(u) /\ Store(u)
  <2>1. PICK u : Sendable(u) /\ Store(u)
    BY <1>2
  <2>2. CASE /\ u.name \in Ids /\ u.value \in Authentic[u.name] /\ UNCHANGED records
             /\ objects' = [objects EXCEPT ![u.name] = IF @ = None THEN u.value ELSE @]
    <3>1. CASE objects[u.name] = None
      BY <2>2, <3>1 DEF Promise!PromiseNext, Promise!Store
    <3>2. CASE objects[u.name] # None
      BY <2>2, <3>2 DEF GcsInv, TypeOK
    <3> QED
      BY <3>1, <3>2
  <2>3. CASE /\ u.name \in Keys /\ Backed(u.value) /\ UNCHANGED objects
             /\ records' = [records EXCEPT ![u.name] = IF @ = None THEN u.value ELSE @]
    <3>1. CASE records[u.name] = None
      <4>1. records' = [records EXCEPT ![u.name] = u.value] /\ records'[u.name] = u.value
        BY <2>3, <3>1 DEF GcsInv, TypeOK
      <4> QED
        BY <2>3, <3>1, <4>1 DEF Promise!PromiseNext, Promise!Record, Backed
    <3>2. CASE records[u.name] # None
      BY <2>3, <3>2 DEF GcsInv, TypeOK
    <3> QED
      BY <3>1, <3>2
  <2> QED
    BY <2>1, <2>2, <2>3 DEF Sendable, Store
<1> QED
  BY <1>1, <1>2 DEF BucketStep, bucket

(* A response is the record of its key, read or written in that step.      *)
LEMMA AnswerPromise ==
    ASSUME GcsInv, NEW k \in Keys, NEW r, Backed(r), records[k] \in {None, r},
           records' = [records EXCEPT ![k] = r], UNCHANGED objects,
           told' = told \cup {<<k, r>>}
    PROVE  Promise!PromiseNext
<1>1. records'[k] = r
  BY DEF GcsInv, TypeOK
<1> QED
  BY <1>1 DEF Promise!PromiseNext, Promise!Record, Backed

LEMMA NextPromise ==
    ASSUME GcsInv, [Next]_vars
    PROVE  Promise!PromiseNext \/ UNCHANGED <<objects, records, told>>
<1>1. CASE UNCHANGED vars
  BY <1>1 DEF vars
<1>2. ASSUME NEW u \in late, Arrive(u)
      PROVE  Promise!PromiseNext \/ UNCHANGED <<objects, records, told>>
  BY <1>2, QuietPromise DEF Arrive, BucketStep, GcsInv, BucketInv, history
<1>3. ASSUME NEW c \in Conns,
             \/ \E r \in Requests : Push(c, r)
             \/ StartList(c)
             \/ \E i \in Ids : StartGet(c, i)
             \/ Step(c)
      PROVE  Promise!PromiseNext \/ UNCHANGED <<objects, records, told>>
  <2>1. CASE \/ \E r \in Requests : Push(c, r)
             \/ StartList(c) \/ (\E i \in Ids : StartGet(c, i))
             \/ ListAnswer(c) \/ NextObject(c) \/ GetAnswer(c)
             \/ \E known \in SUBSET Ids, limit \in 0..Cardinality(Ids) :
                   Listed(c, known, limit)
    BY <2>1 DEF Push, StartList, StartGet, ListAnswer, NextObject, GetAnswer, Listed,
                bucket, history
  <2>2. CASE Retry(c) \/ GiveUp(c)
    <3>1. BucketStep /\ UNCHANGED told
      BY <2>2, LostFacts DEF Retry, GiveUp, BucketStep, history
    <3> QED
      BY <3>1, QuietPromise
  <2>3. CASE PutAnswer(c)
    <3>1. BucketStep /\ UNCHANGED told
      BY <2>3, UploadFacts DEF PutAnswer, BucketStep
    <3> QED
      BY <3>1, QuietPromise
  <2>4. CASE KeyAnswer(c) \/ BackAnswer(c)
    <3>1. Key(c) \in Keys /\ (BackAnswer(c) => records[Key(c)] # None)
      BY <2>4, RequestFacts
         DEF KeyAnswer, BackAnswer, GcsInv, ConnInv, Holds, Key
    <3>2. CASE UNCHANGED <<objects, records, told>>
      BY <3>2
    <3>3. CASE /\ records[Key(c)] # None /\ UNCHANGED <<objects, records>>
               /\ told' = told \cup {<<Key(c), records[Key(c)]>>}
      <4>1. Backed(records[Key(c)])
        BY <3>1, <3>3 DEF GcsInv, BucketInv
      <4>2. records' = [records EXCEPT ![Key(c)] = records[Key(c)]]
        BY <3>1, <3>3 DEF GcsInv, TypeOK
      <4> QED
        BY <3>1, <3>3, <4>1, <4>2, AnswerPromise
    <3> QED
      BY <2>4, <3>1, <3>2, <3>3 DEF KeyAnswer, BackAnswer, bucket
  <2>5. CASE RecordAnswer(c)
    <3>1. /\ pc[c] = "record" /\ Key(c) \in Keys
          /\ \E u \in Upload(c) : Store(u)
      BY <2>5, RequestFacts DEF RecordAnswer, GcsInv, ConnInv, Holds, Key
    <3>2. CASE records[Key(c)] # None /\ UNCHANGED told
      <4>1. BucketStep
        BY <2>5, UploadFacts DEF RecordAnswer, BucketStep
      <4> QED
        BY <3>2, <4>1, QuietPromise
    <3>3. CASE records[Key(c)] = None /\ told' = told \cup {<<Key(c), PushReport(c)>>}
      <4>1. Backed(PushReport(c))
        BY <3>1, UploadFacts DEF Upload, Sendable
      <4>2. records' = [records EXCEPT ![Key(c)] = PushReport(c)] /\ UNCHANGED objects
        BY <3>1, <3>3 DEF Upload, Store, GcsInv, TypeOK
      <4> QED
        BY <3>1, <3>3, <4>1, <4>2, AnswerPromise
    <3> QED
      BY <2>5, <3>2, <3>3 DEF RecordAnswer
  <2> QED
    BY <1>3, <2>1, <2>2, <2>3, <2>4, <2>5 DEF Step
<1> QED
  BY <1>1, <1>2, <1>3 DEF Next

(* The relay over GcsRelayStore keeps the promise that RelayPromise        *)
(* states: whatever is lost, repeated or late, its bucket is a store that  *)
(* takes authentic objects once, and its answers are the recorded reports. *)
THEOREM GcsKeepsPromise == Spec => KeepsPromise
<1>1. Init => Promise!PromiseInit
  BY DEF Init, Promise!PromiseInit
<1>2. GcsInv /\ [Next]_vars => [Promise!PromiseNext]_<<objects, records, told>>
  BY NextPromise
<1> QED
  BY <1>1, <1>2, GcsInvariant, PTL DEF Spec, KeepsPromise, Promise!PromiseSpec

----------------------------------------------------------------------------
(* GcsTransport: the token of a request in time.                           *)

Held == [left : Nat, real : Nat]
Token == [left : Nat, cached : BOOLEAN]

(* A request that is sending has a token. *)
Carried(c) == pc[c] = "send" => token[c] \in Token

TransportTypeOK ==
    /\ cache \in Held \cup {None}
    /\ pc \in [Conns -> {"idle", "fetch", "send"}]
    /\ try \in [Conns -> Nat \ {0}]
    /\ slow \in [Conns -> BOOLEAN]
    /\ token \in [Conns -> Token \cup {None}]

(* The cached token lasts longer than the cache believes, by what is left  *)
(* of the 60 seconds after a slow metadata answer.                         *)
Reserve == cache # None /\ cache.left > 0 => cache.real > cache.left

(* A cached token was taken with three ticks left, and each try costs one  *)
(* at most: what is left, the tries before this one and the tick that may  *)
(* have passed in this one make up for them.                               *)
Spent(c) == (try[c] - 1) + (IF slow[c] THEN 1 ELSE 0)
Budget ==
    \A c \in Conns : /\ Carried(c)
                     /\ pc[c] = "send" /\ token[c].cached => token[c].left + Spent(c) >= 3

TransportInv == TransportTypeOK /\ Reserve /\ Budget

LEMMA TransportInitInv == TransportInit => TransportInv
BY DEF TransportInit, TransportInv, TransportTypeOK, Reserve, Budget, Carried

LEMMA MinusFacts ==
    ASSUME NEW n \in Nat, NEW d \in Nat
    PROVE  Minus(n, d) \in Nat /\ Minus(n, d) >= n - d /\ (n > d => Minus(n, d) = n - d)
                             /\ (n <= d => Minus(n, d) = 0)
BY DEF Minus

(* What a step of one connection changes of the others: nothing. *)
Others(c) ==
    \A d \in Conns \ {c} :
      /\ pc'[d] = pc[d] /\ try'[d] = try[d] /\ slow'[d] = slow[d] /\ token'[d] = token[d]

LEMMA BudgetKept ==
    ASSUME TransportInv, NEW c \in Conns, Others(c),
           pc'[c] = "send" => /\ token'[c] \in Token
                              /\ token'[c].cached => token'[c].left + Spent(c)' >= 3
    PROVE  Budget'
<1> SUFFICES ASSUME NEW d \in Conns
             PROVE  pc'[d] = "send" => /\ token'[d] \in Token
                                       /\ token'[d].cached => token'[d].left + Spent(d)' >= 3
  BY DEF Budget, Carried
<1>1. CASE d = c
  BY <1>1
<1>2. CASE d # c
  BY <1>2 DEF Others, TransportInv, Budget, Carried, Spent
<1> QED
  BY <1>1, <1>2

LEMMA RequestKeeps ==
    ASSUME TransportInv, NEW c \in Conns, Request(c)
    PROVE  TransportInv'
<1> USE DEF TryFirst, Goto
<1>1. TransportTypeOK /\ Reserve
  BY DEF TransportInv
<1>2. CASE Usable /\ pc' = [pc EXCEPT ![c] = "send"]
           /\ token' = [token EXCEPT ![c] = [left |-> cache.real, cached |-> TRUE]]
  <2>1. cache \in Held /\ cache.left > 1 /\ cache.real \in Nat /\ cache.real >= 3
    BY <1>1, <1>2 DEF TransportTypeOK, Reserve, Usable, Held
  <2>2. [left |-> cache.real, cached |-> TRUE] \in Token
    BY <2>1 DEF Token
  <2>3. UNCHANGED cache /\ try' = [try EXCEPT ![c] = 1] /\ slow' = [slow EXCEPT ![c] = FALSE]
    BY DEF Request
  <2>4. TransportTypeOK'
    BY <1>1, <1>2, <2>2, <2>3 DEF TransportTypeOK
  <2>5. Others(c) /\ token'[c] = [left |-> cache.real, cached |-> TRUE]
        /\ try'[c] = 1 /\ ~slow'[c]
    BY <1>1, <1>2, <2>3 DEF Others, TransportTypeOK
  <2>6. token'[c].left + Spent(c)' >= 3
    BY <2>1, <2>5 DEF Spent
  <2>7. Budget'
    BY <2>2, <2>5, <2>6, BudgetKept
  <2> QED
    BY <1>1, <2>3, <2>4, <2>7 DEF TransportInv, Reserve
<1>3. CASE pc' = [pc EXCEPT ![c] = "fetch"] /\ UNCHANGED token
  <2>1. UNCHANGED cache /\ try' = [try EXCEPT ![c] = 1] /\ slow' = [slow EXCEPT ![c] = FALSE]
    BY DEF Request
  <2>2. TransportTypeOK'
    BY <1>1, <1>3, <2>1 DEF TransportTypeOK
  <2>3. Others(c) /\ pc'[c] = "fetch"
    BY <1>1, <1>3, <2>1 DEF Others, TransportTypeOK
  <2>4. Budget'
    BY <2>3, BudgetKept
  <2> QED
    BY <1>1, <2>1, <2>2, <2>4 DEF TransportInv, Reserve
<1> QED
  BY <1>2, <1>3 DEF Request

LEMMA FetchAnswerKeeps ==
    ASSUME TransportInv, NEW c \in Conns, FetchAnswer(c)
    PROVE  TransportInv'
<1>1. TransportTypeOK
  BY DEF TransportInv
<1>2. PICK n \in Lifetimes, d \in {0, IF slow[c] THEN 1 ELSE 0} :
         /\ cache' = [left |-> CachedFor(n), real |-> Minus(n, d)]
         /\ token' = [token EXCEPT ![c] = [left |-> Minus(n, d), cached |-> FALSE]]
  BY DEF FetchAnswer
<1>3. /\ pc' = [pc EXCEPT ![c] = "send"] /\ try' = [try EXCEPT ![c] = 1]
      /\ slow' = [slow EXCEPT ![c] = FALSE]
  BY DEF FetchAnswer, TryFirst, Goto
<1>4. n \in Nat /\ d \in {0, 1}
  BY TransportConstants
<1>5. /\ CachedFor(n) \in Nat /\ Minus(n, d) \in Nat
      /\ CachedFor(n) > 0 => Minus(n, d) > CachedFor(n)
  BY <1>4 DEF Minus, CachedFor
<1>6. /\ [left |-> CachedFor(n), real |-> Minus(n, d)] \in Held
      /\ [left |-> Minus(n, d), cached |-> FALSE] \in Token
  BY <1>5 DEF Held, Token
<1>7. TransportTypeOK'
  BY <1>1, <1>2, <1>3, <1>6 DEF TransportTypeOK
<1>8. Reserve'
  BY <1>2, <1>5 DEF Reserve
<1>9. Others(c) /\ token'[c] = [left |-> Minus(n, d), cached |-> FALSE]
  BY <1>1, <1>2, <1>3 DEF Others, TransportTypeOK
<1>10. Budget'
  BY <1>6, <1>9, BudgetKept
<1> QED
  BY <1>7, <1>8, <1>10 DEF TransportInv

LEMMA AgainKeeps ==
    ASSUME TransportInv, NEW c \in Conns, Again(c)
    PROVE  TransportInv'
<1>1. TransportTypeOK /\ try[c] \in Nat
  BY DEF TransportInv, TransportTypeOK
<1>2. /\ try' = [try EXCEPT ![c] = try[c] + 1] /\ slow' = [slow EXCEPT ![c] = FALSE]
      /\ UNCHANGED <<cache, pc, token>>
  BY DEF Again
<1>3. TransportTypeOK'
  BY <1>1, <1>2 DEF TransportTypeOK
<1>4. Others(c) /\ try'[c] = try[c] + 1 /\ ~slow'[c]
  BY <1>1, <1>2 DEF Others, TransportTypeOK
<1>5. ASSUME pc[c] = "send"
      PROVE  token[c] \in Token /\ (token[c].cached => token[c].left + Spent(c)' >= 3)
  <2>1. token[c] \in Token /\ (token[c].cached => token[c].left + Spent(c) >= 3)
    BY <1>5 DEF TransportInv, Budget, Carried
  <2>2. token[c].left \in Nat
    BY <2>1 DEF Token
  <2> QED
    BY <1>1, <1>4, <2>1, <2>2 DEF Spent
<1>6. Budget'
  BY <1>2, <1>4, <1>5, BudgetKept
<1> QED
  BY <1>2, <1>3, <1>6 DEF TransportInv, Reserve

LEMMA RequestEndsKeeps ==
    ASSUME TransportInv, NEW c \in Conns, FetchFails(c) \/ SendEnds(c) \/ NextUrl(c)
    PROVE  TransportInv'
<1>1. TransportTypeOK
  BY DEF TransportInv
<1>2. /\ UNCHANGED cache /\ try' = [try EXCEPT ![c] = 1] /\ slow' = [slow EXCEPT ![c] = FALSE]
      /\ token' \in {token, [token EXCEPT ![c] = None]}
      /\ \E l \in {"idle", "fetch"} : pc' = [pc EXCEPT ![c] = l]
  BY DEF FetchFails, SendEnds, NextUrl, EndRequest, TryFirst, Goto
<1>3. TransportTypeOK'
  BY <1>1, <1>2 DEF TransportTypeOK
<1>4. Others(c) /\ pc'[c] # "send"
  BY <1>1, <1>2 DEF Others, TransportTypeOK
<1>5. Budget'
  BY <1>4, BudgetKept
<1> QED
  BY <1>2, <1>3, <1>5 DEF TransportInv, Reserve

LEMMA TickKeeps ==
    ASSUME TransportInv, Tick
    PROVE  TransportInv'
<1>1. TransportTypeOK /\ Reserve
  BY DEF TransportInv
<1>2. cache' \in Held \cup {None} /\ Reserve'
  <2>1. CASE cache = None
    BY <2>1 DEF Tick, Reserve
  <2>2. CASE cache # None
    <3>1. cache.left \in Nat /\ cache.real \in Nat /\ (cache.left > 0 => cache.real > cache.left)
      BY <1>1, <2>2 DEF TransportTypeOK, Held, Reserve
    <3>2. cache' = [left |-> Minus(cache.left, 1), real |-> Minus(cache.real, 1)]
      BY <2>2 DEF Tick
    <3> QED
      BY <3>1, <3>2 DEF Minus, Held, Reserve
  <2> QED
    BY <2>1, <2>2
<1>3. ASSUME NEW c \in Conns, token[c] \in Token
      PROVE  /\ token'[c] \in Token /\ token'[c].cached = token[c].cached
             /\ token'[c].left \in Nat /\ token[c].left \in Nat
             /\ token'[c].left + 1 >= token[c].left
  <2>1. token[c] # None
    BY <1>3, TransportConstants DEF Token
  <2>2. token'[c] = [token[c] EXCEPT !.left = Minus(token[c].left, 1)]
    BY <2>1 DEF Tick
  <2>3. token[c].left \in Nat /\ Minus(token[c].left, 1) \in Nat
        /\ Minus(token[c].left, 1) + 1 >= token[c].left
    BY <1>3 DEF Token, Minus
  <2> QED
    BY <1>3, <2>2, <2>3 DEF Token
<1>4. \A c \in Conns : token'[c] \in Token \cup {None}
  <2> SUFFICES ASSUME NEW c \in Conns, token[c] \notin Token PROVE token'[c] = None
    BY <1>3
  <2>1. token[c] = None
    BY <1>1 DEF TransportTypeOK
  <2> QED
    BY <2>1 DEF Tick
<1>5. TransportTypeOK'
  <2>1. token' \in [Conns -> Token \cup {None}]
    BY <1>4 DEF Tick
  <2>2. slow' \in [Conns -> BOOLEAN]
    BY DEF Tick
  <2> QED
    BY <1>1, <1>2, <2>1, <2>2 DEF Tick, TransportTypeOK
<1>6. ASSUME NEW c \in Conns, pc[c] = "send"
      PROVE  token'[c] \in Token /\ (token'[c].cached => token'[c].left + Spent(c)' >= 3)
  <2>1. token[c] \in Token /\ (token[c].cached => token[c].left + Spent(c) >= 3)
    BY <1>6 DEF TransportInv, Budget, Carried
  <2>2. try'[c] = try[c] /\ try[c] \in Nat /\ ~slow[c] /\ slow'[c]
    BY <1>1, <1>6 DEF Tick, TransportTypeOK
  <2> QED
    BY <1>3, <2>1, <2>2 DEF Spent
<1>7. Budget'
  BY <1>6 DEF Budget, Carried, Tick
<1> QED
  BY <1>2, <1>5, <1>7 DEF TransportInv

LEMMA TransportStepKeeps ==
    TransportInv /\ [TransportNext]_transportVars => TransportInv'
<1> SUFFICES ASSUME TransportInv, [TransportNext]_transportVars PROVE TransportInv'
  OBVIOUS
<1>1. ASSUME NEW c \in Conns, Request(c) \/ Progress(c) PROVE TransportInv'
  BY <1>1, RequestKeeps, FetchAnswerKeeps, AgainKeeps, RequestEndsKeeps DEF Progress
<1>2. CASE UNCHANGED transportVars
  BY <1>2 DEF transportVars, TransportInv, TransportTypeOK, Reserve, Budget, Carried, Spent
<1> QED
  BY <1>1, <1>2, TickKeeps DEF TransportNext

(* cached_token, auth_token, send_with_retry: however long the tokens live *)
(* and however slow the answers are, two tries that time out do not use up *)
(* a cached token.                                                         *)
THEOREM CachedTokensCover == TransportSpec => []TokenCovers
<1>1. TransportInv => TokenCovers
  <2> SUFFICES ASSUME TransportInv, NEW c \in Conns,
                      pc[c] = "send", token[c].cached, try[c] <= 2
               PROVE  token[c].left > 0
    BY DEF TokenCovers
  <2>1. token[c] \in Token /\ token[c].left + Spent(c) >= 3 /\ token[c].left \in Nat
    BY DEF TransportInv, Budget, Carried, Token
  <2>2. try[c] \in Nat /\ Spent(c) <= 2
    BY DEF TransportInv, TransportTypeOK, Spent
  <2> QED
    BY <2>1, <2>2 DEF Spent
<1> QED
  BY <1>1, TransportInitInv, TransportStepKeeps, PTL DEF TransportSpec
=============================================================================
