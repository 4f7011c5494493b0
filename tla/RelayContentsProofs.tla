------------------------ MODULE RelayContentsProofs ------------------------
(***************************************************************************)
(* Proofs about RelayClient and KfdbIndex, the two users of what a relay   *)
(* has stored: for any clones, objects, keys, chunk sizes and limits, and  *)
(* for any threads, bundles and limits of a KFDB write.                    *)
(***************************************************************************)
EXTENDS RelayClient, KfdbIndex, FiniteSetTheorems, SequenceTheorems, WellFoundedInduction, TLAPS

----------------------------------------------------------------------------
(* RelayClient: chunks                                                     *)

(* The first n of a finite set are all of it, if it has no more than n.    *)
LEMMA FirstOfAll ==
  ASSUME NEW S, IsFiniteSet(S), NEW n \in Nat, Cardinality(S) <= n
  PROVE  FirstOf(n, S) = S
<1>1. ASSUME NEW i \in S
      PROVE  i \in FirstOf(n, S)
  <2>1. {j \in S : j <= i} \in SUBSET S
    OBVIOUS
  <2>2. Cardinality({j \in S : j <= i}) <= Cardinality(S)
    BY <2>1, FS_Subset
  <2>3. Cardinality({j \in S : j <= i}) \in Nat /\ Cardinality(S) \in Nat
    BY <2>1, FS_Subset, FS_CardinalityType
  <2> QED
    BY <2>2, <2>3 DEF FirstOf
<1> QED
  BY <1>1 DEF FirstOf

(* The first none are none. *)
LEMMA FirstOfNone ==
  ASSUME NEW S \in SUBSET Nat, IsFiniteSet(S)
  PROVE  FirstOf(0, S) = {}
<1>1. ASSUME NEW i \in FirstOf(0, S)
      PROVE  FALSE
  <2> DEFINE below == {j \in S : j <= i}
  <2>1. i \in S /\ Cardinality(below) <= 0
    BY <1>1 DEF FirstOf
  <2>2. IsFiniteSet(below) /\ Cardinality(below) \in Nat
    BY FS_Subset, FS_CardinalityType
  <2>3. i \in below
    BY <2>1
  <2> HIDE DEF below
  <2> QED
    BY <2>1, <2>2, <2>3, FS_EmptySet
<1> QED
  BY <1>1

(* div_ceil: a chunks of s objects hold n objects if a is that quotient.   *)
LEMMA DivCeil ==
  ASSUME NEW n \in Nat, NEW s \in Nat \ {0}, NEW a \in Nat,
         a >= (n + s - 1) \div s
  PROVE  a * s >= n
<1> DEFINE x == n + s - 1
           q == x \div s
<1>1. x \in Nat /\ q \in Nat /\ q * s + (x % s) = x /\ x % s \in 0..(s - 1)
  OBVIOUS
<1>2. q * s >= n
  BY <1>1
<1>3. a * s >= q * s
  <2>1. a >= q /\ q \in Nat
    BY <1>1
  <2>2. (a - q) * s >= 0 /\ (a - q) * s = a * s - q * s
    BY <2>1
  <2> QED
    BY <2>2, <1>1
<1>4. a * s \in Nat /\ q * s \in Nat
  BY <1>1
<1> QED
  BY <1>2, <1>3, <1>4

(* The objects sent after a chunk are those before it and the chunk.       *)
LEMMA NextChunk ==
  ASSUME NEW p
  PROVE  FirstOf(p.at * p.size, p.objects)
           \subseteq FirstOf((p.at - 1) * p.size, p.objects) \cup Chunk(p)
BY DEF Chunk

LEMMA ChunkInObjects ==
  ASSUME NEW p
  PROVE  Chunk(p) \subseteq p.objects
BY DEF Chunk, FirstOf

----------------------------------------------------------------------------
(* RelayClient: the invariant                                              *)

ClientTypeOK ==
    /\ local \in [Clones -> SUBSET Ids]
    /\ push \in [Clones -> Pushes \cup {None}]
    /\ stored \in SUBSET Ids
    /\ pushed \in [Clones -> SUBSET Ids]
    /\ mixed \in SUBSET Ids
    /\ habits \in Seq({None, UserKey} \X ChunkSizes)

AllFinite ==
    /\ \A c \in Clones : IsFiniteSet(local[c])
    /\ IsFiniteSet(stored)

(* Some push that was started has this key and chunk size. *)
Usual(p) ==
    \E n \in 1..Len(habits) :
        p.key = PushKey(habits[n][1], p.objects) /\ p.size = habits[n][2]

(* A push with a chunk to send; a push of one chunk has sent none. *)
Sending(p) ==
    /\ p \in Pushes /\ IsFiniteSet(p.objects)
    /\ p.at >= 1 /\ (p.at = 1 \/ p.at <= ChunkCount(p))
    /\ Usual(p)

(* What a push has sent so far is on the relay, or was answered from the   *)
(* record of other objects.                                                *)
PushInv ==
    \A c \in Clones : push[c] # None =>
        /\ Sending(push[c])
        /\ FirstOf((push[c].at - 1) * push[c].size, push[c].objects)
             \subseteq stored \cup mixed

(* A record is that of a chunk of a push that was started, and its objects *)
(* are on the relay.                                                       *)
RecordsInv ==
    \A r \in records :
        /\ r.objects \subseteq stored
        /\ \E p \in Pushes : Sending(p) /\ r.key = ChunkKey(p) /\ r.objects = Chunk(p)

ClientInv == ClientTypeOK /\ AllFinite /\ PushInv /\ RecordsInv /\ PushedStored

(* With derived keys and one chunk size, a key names its chunk. *)
LEMMA KeyNamesChunk ==
  ASSUME Disciplined, NEW p, NEW q, Sending(p), Sending(q), ChunkKey(p) = ChunkKey(q)
  PROVE  Chunk(p) = Chunk(q)
<1>1. p.size = q.size
  BY DEF Disciplined, Sending, Usual
<1>2. p.key = <<"derived", p.objects>> /\ q.key = <<"derived", q.objects>>
  BY DEF Disciplined, Sending, Usual, PushKey
<1>3. p.key = q.key
  BY DEF ChunkKey
<1>4. p.objects = q.objects
  BY <1>2, <1>3
<1>5. ChunkCount(p) = ChunkCount(q)
  BY <1>1, <1>4 DEF ChunkCount
<1>6. p.at = q.at
  <2>1. CASE ChunkCount(p) <= 1
    <3>1. p.at \in Nat /\ q.at \in Nat /\ ChunkCount(p) \in Int
      <4>1. Cardinality(p.objects) \in Nat /\ p.size \in Nat \ {0}
        BY FS_CardinalityType, ClientConstants DEF Sending, Pushes
      <4> QED
        BY <4>1 DEF Sending, Pushes, ChunkCount
    <3> QED
      BY <2>1, <3>1, <1>5 DEF Sending
  <2>2. CASE ~ (ChunkCount(p) <= 1)
    BY <2>2, <1>5 DEF ChunkKey
  <2> QED
    BY <2>1, <2>2
<1> QED
  BY <1>1, <1>4, <1>6 DEF Chunk

(* Who was disciplined all along was so before. *)
LEMMA HabitsGrow ==
  ASSUME ClientTypeOK, NEW h \in {None, UserKey} \X ChunkSizes, habits' = Append(habits, h)
  PROVE  /\ Len(habits') = Len(habits) + 1 /\ Len(habits) \in Nat
         /\ habits'[Len(habits')] = h
         /\ \A n \in 1..Len(habits) : habits'[n] = habits[n]
         /\ Disciplined' => Disciplined
         /\ habits' \in Seq({None, UserKey} \X ChunkSizes)
<1>1. /\ Len(habits') = Len(habits) + 1 /\ Len(habits) \in Nat
      /\ habits'[Len(habits')] = h
      /\ \A n \in 1..Len(habits) : habits'[n] = habits[n]
      /\ habits' \in Seq({None, UserKey} \X ChunkSizes)
      /\ DOMAIN habits = 1..Len(habits) /\ DOMAIN habits' = 1..Len(habits')
  BY DEF ClientTypeOK
<1>2. Disciplined' => Disciplined
  BY <1>1 DEF Disciplined
<1> QED
  BY <1>1, <1>2

----------------------------------------------------------------------------
(* RelayClient: the steps                                                  *)

LEMMA ClientInit == Init => ClientInv
<1> SUFFICES ASSUME Init
             PROVE  ClientInv
  OBVIOUS
<1>1. ClientTypeOK /\ AllFinite
  BY ClientConstants, FS_EmptySet DEF Init, ClientTypeOK, AllFinite
<1>2. PushInv /\ RecordsInv /\ PushedStored
  BY DEF Init, PushInv, RecordsInv, PushedStored
<1> QED
  BY <1>1, <1>2 DEF ClientInv

(* The relay answers a request: from then on the objects of the chunk are  *)
(* there, or were answered from the record of others.                      *)
LEMMA ServeStep ==
  ASSUME ClientInv, NEW c \in Clones, push[c] # None, Serve(c), UNCHANGED habits
  PROVE  /\ Chunk(push[c]) \subseteq stored' \cup mixed'
         /\ stored \subseteq stored' /\ mixed \subseteq mixed'
         /\ stored' \in SUBSET Ids /\ IsFiniteSet(stored') /\ mixed' \in SUBSET Ids
         /\ Disciplined => mixed' = mixed
         /\ RecordsInv'
<1> DEFINE p == push[c]
           key == ChunkKey(p)
           found == {r \in records : r.key = key}
<1>1. p \in Pushes /\ Sending(p) /\ IsFiniteSet(p.objects)
  BY DEF ClientInv, PushInv, Sending
<1>2. Chunk(p) \subseteq Ids /\ IsFiniteSet(Chunk(p))
  <2>1. Chunk(p) \in SUBSET p.objects /\ p.objects \subseteq Ids
    BY <1>1, ChunkInObjects DEF Pushes
  <2> QED
    BY <2>1, <1>1, FS_Subset
<1>3. \A q : Sending(q) => Sending(q)'
  BY DEF Sending, Usual, ChunkCount
<1>4. CASE found = {}
  <2>1. /\ stored' = stored \cup Chunk(p) /\ UNCHANGED mixed
        /\ records' = records \cup {[key |-> key, objects |-> Chunk(p)]}
    BY <1>4 DEF Serve
  <2>2. stored' \in SUBSET Ids /\ IsFiniteSet(stored')
    BY <2>1, <1>2, FS_Union DEF ClientInv, ClientTypeOK, AllFinite
  <2>3. ASSUME NEW r \in records'
        PROVE  /\ r.objects \subseteq stored'
               /\ \E q \in Pushes :
                     Sending(q)' /\ r.key = ChunkKey(q) /\ r.objects = Chunk(q)
    <3>1. CASE r \in records
      BY <3>1, <1>3, <2>1 DEF ClientInv, RecordsInv
    <3>2. CASE r = [key |-> key, objects |-> Chunk(p)]
      BY <3>2, <1>1, <1>3, <2>1
    <3> QED
      BY <2>1, <3>1, <3>2
  <2>4. RecordsInv'
    BY <2>3 DEF RecordsInv, ChunkKey, Chunk, ChunkCount
  <2> QED
    BY <2>1, <2>2, <2>4 DEF ClientInv, ClientTypeOK
<1>5. CASE found # {}
  <2>1. /\ UNCHANGED <<stored, records>>
        /\ mixed' = IF \E r \in found : r.objects = Chunk(p)
                      THEN mixed ELSE mixed \cup Chunk(p)
    BY <1>5 DEF Serve
  <2>2. Chunk(p) \subseteq stored' \cup mixed'
    BY <2>1 DEF ClientInv, RecordsInv
  <2>3. ASSUME Disciplined
        PROVE  mixed' = mixed
    <3>1. PICK r \in records : r.key = key
      BY <1>5
    <3>2. PICK q \in Pushes : Sending(q) /\ r.key = ChunkKey(q) /\ r.objects = Chunk(q)
      BY DEF ClientInv, RecordsInv
    <3>3. Chunk(q) = Chunk(p)
      BY <1>1, <2>3, <3>1, <3>2, KeyNamesChunk
    <3> QED
      BY <2>1, <3>1, <3>2, <3>3
  <2>4. RecordsInv'
    BY <1>3, <2>1 DEF ClientInv, RecordsInv, ChunkKey, Chunk, ChunkCount
  <2> QED
    BY <1>2, <2>1, <2>2, <2>3, <2>4 DEF ClientInv, ClientTypeOK, AllFinite
<1> QED
  BY <1>4, <1>5

(* Pushes under way, and what pushes have done, in a step that stores and  *)
(* mixes up more and starts nothing: c goes on with q, or ends.            *)
LEMMA GoesOn ==
  ASSUME ClientInv, NEW c \in Clones, NEW q \in Pushes \cup {None},
         push' = [push EXCEPT ![c] = q], UNCHANGED habits,
         stored \subseteq stored', mixed \subseteq mixed',
         q # None => /\ Sending(q)
                     /\ FirstOf((q.at - 1) * q.size, q.objects) \subseteq stored' \cup mixed'
  PROVE  PushInv' /\ push' \in [Clones -> Pushes \cup {None}]
<1>1. push' \in [Clones -> Pushes \cup {None}]
  BY DEF ClientInv, ClientTypeOK
<1>2. \A x : Sending(x) => Sending(x)'
  BY DEF Sending, Usual, ChunkCount
<1>3. ASSUME NEW d \in Clones, push'[d] # None
      PROVE  /\ Sending(push'[d])
             /\ FirstOf((push'[d].at - 1) * push'[d].size, push'[d].objects)
                  \subseteq stored' \cup mixed'
  <2>1. CASE d = c
    BY <1>3, <2>1 DEF ClientInv, ClientTypeOK
  <2>2. CASE d # c
    BY <1>3, <2>2 DEF ClientInv, ClientTypeOK, PushInv
  <2> QED
    BY <2>1, <2>2
<1> QED
  BY <1>1, <1>2, <1>3 DEF PushInv, Sending, Usual, ChunkCount

LEMMA SendChunkStep ==
  ASSUME ClientInv, NEW c \in Clones, SendChunk(c) \/ LoseAnswer(c)
  PROVE  ClientInv'
<1> DEFINE p == push[c]
<1>1. /\ p # None /\ Serve(c) /\ UNCHANGED <<local, habits>>
  BY DEF SendChunk, LoseAnswer
<1>2. /\ Chunk(p) \subseteq stored' \cup mixed'
      /\ stored \subseteq stored' /\ mixed \subseteq mixed'
      /\ stored' \in SUBSET Ids /\ IsFiniteSet(stored') /\ mixed' \in SUBSET Ids
      /\ Disciplined => mixed' = mixed
      /\ RecordsInv'
  BY <1>1, ServeStep
<1>3. /\ Sending(p) /\ p \in Pushes
      /\ FirstOf((p.at - 1) * p.size, p.objects) \subseteq stored \cup mixed
  BY <1>1 DEF ClientInv, PushInv, Sending
<1>4. FirstOf(p.at * p.size, p.objects) \subseteq stored' \cup mixed'
  <2>1. FirstOf(p.at * p.size, p.objects)
          \subseteq FirstOf((p.at - 1) * p.size, p.objects) \cup Chunk(p)
    BY NextChunk
  <2> QED
    BY <1>2, <1>3, <2>1
<1>5. Disciplined' = Disciplined
  BY <1>1 DEF Disciplined
<1>6. Disciplined' => mixed' = {}
  BY <1>2, <1>5 DEF ClientInv, PushedStored
<1>7. ASSUME p.at < ChunkCount(p), push' = [push EXCEPT ![c].at = @ + 1], UNCHANGED pushed
      PROVE  ClientInv'
  <2> DEFINE q == [p EXCEPT !.at = @ + 1]
  <2>1. /\ q \in Pushes /\ q.at = p.at + 1 /\ q.size = p.size /\ q.objects = p.objects
        /\ q.key = p.key /\ p.at \in Nat /\ p.size \in Nat \ {0}
    BY <1>3, ClientConstants DEF Pushes
  <2>2. push' = [push EXCEPT ![c] = q]
    BY <1>7 DEF ClientInv, ClientTypeOK
  <2>3. ChunkCount(p) = ChunkCount(q) /\ ChunkCount(p) \in Int
    <3>1. Cardinality(p.objects) \in Nat
      BY <1>3, FS_CardinalityType DEF Sending
    <3> QED
      BY <2>1, <3>1 DEF ChunkCount
  <2>4. Sending(q)
    BY <1>3, <1>7, <2>1, <2>3 DEF Sending, Usual
  <2>5. (q.at - 1) * q.size = p.at * p.size
    BY <2>1
  <2>6. PushInv' /\ push' \in [Clones -> Pushes \cup {None}]
    <3> HIDE DEF q, p
    <3> QED
      BY <1>1, <1>2, <1>4, <2>1, <2>2, <2>4, <2>5, GoesOn
  <2> QED
    BY <1>1, <1>2, <1>6, <1>7, <2>6
       DEF ClientInv, ClientTypeOK, AllFinite, PushedStored
<1>8. ASSUME push' = [push EXCEPT ![c] = None],
             \/ UNCHANGED pushed
             \/ /\ p.at >= ChunkCount(p)
                /\ pushed' = [pushed EXCEPT ![c] = @ \cup p.objects]
      PROVE  ClientInv'
  <2>1. PushInv' /\ push' \in [Clones -> Pushes \cup {None}]
    BY <1>1, <1>2, <1>8, GoesOn
  <2>2. p.at >= ChunkCount(p) => p.objects \subseteq stored' \cup mixed'
    <3>1. /\ Cardinality(p.objects) \in Nat /\ IsFiniteSet(p.objects)
          /\ p.at \in Nat /\ p.size \in Nat \ {0}
      BY <1>3, FS_CardinalityType, ClientConstants DEF Sending, Pushes
    <3>2. p.at >= ChunkCount(p) => p.at * p.size >= Cardinality(p.objects)
      BY <3>1, DivCeil DEF ChunkCount
    <3>3. p.at * p.size \in Nat
      BY <3>1
    <3> QED
      BY <1>4, <3>1, <3>2, <3>3, FirstOfAll
  <2>3. /\ pushed' \in [Clones -> SUBSET Ids]
        /\ \A d \in Clones : pushed'[d] \subseteq stored' \cup mixed'
    <3>1. \A d \in Clones : pushed[d] \subseteq stored' \cup mixed'
      BY <1>2 DEF ClientInv, PushedStored
    <3>2. p.objects \subseteq Ids
      BY <1>3 DEF Pushes
    <3> HIDE DEF p
    <3> QED
      BY <1>8, <2>2, <3>1, <3>2 DEF ClientInv, ClientTypeOK
  <2> QED
    BY <1>1, <1>2, <1>6, <2>1, <2>3 DEF ClientInv, ClientTypeOK, AllFinite, PushedStored
<1> QED
  BY <1>7, <1>8 DEF SendChunk, LoseAnswer

LEMMA ChunkFailsStep ==
  ASSUME ClientInv, NEW c \in Clones, ChunkFails(c)
  PROVE  ClientInv'
<1>1. PICK n \in 0..push[c].size : stored' = stored \cup FirstOf(n, Chunk(push[c]))
  BY DEF ChunkFails
<1>2. push[c] # None /\ push' = [push EXCEPT ![c] = None] /\ UNCHANGED <<local, records, history>>
  BY DEF ChunkFails
<1>3. FirstOf(n, Chunk(push[c])) \in SUBSET push[c].objects
  BY DEF Chunk, FirstOf
<1>4. push[c].objects \subseteq Ids /\ IsFiniteSet(push[c].objects)
  BY <1>2 DEF ClientInv, PushInv, Sending, Pushes
<1>5. stored' \in SUBSET Ids /\ IsFiniteSet(stored') /\ stored \subseteq stored'
  BY <1>1, <1>3, <1>4, FS_Subset, FS_Union DEF ClientInv, ClientTypeOK, AllFinite
<1>6. UNCHANGED <<local, records, pushed, mixed, habits>>
  BY <1>2 DEF history
<1>7. PushInv' /\ push' \in [Clones -> Pushes \cup {None}]
  BY <1>2, <1>5, <1>6, GoesOn
<1>8. RecordsInv'
  BY <1>5, <1>6 DEF ClientInv, RecordsInv, Sending, Usual, ChunkKey, Chunk, ChunkCount
<1>9. PushedStored'
  BY <1>5, <1>6 DEF ClientInv, PushedStored, Disciplined
<1> QED
  BY <1>5, <1>6, <1>7, <1>8, <1>9 DEF ClientInv, ClientTypeOK, AllFinite

LEMMA StartPushStep ==
  ASSUME ClientInv, NEW c \in Clones, NEW given \in {None, UserKey}, NEW size \in ChunkSizes,
         StartPush(c, given, size)
  PROVE  ClientInv'
<1> DEFINE q == [objects |-> local[c], size |-> size, at |-> 1,
                 key |-> PushKey(given, local[c])]
<1>1. /\ push' = [push EXCEPT ![c] = q] /\ push[c] = None
      /\ habits' = Append(habits, <<given, size>>)
      /\ UNCHANGED <<local, stored, records, pushed, mixed>>
  BY DEF StartPush, relay
<1>2. /\ Len(habits') = Len(habits) + 1 /\ Len(habits) \in Nat
      /\ habits'[Len(habits')] = <<given, size>>
      /\ \A n \in 1..Len(habits) : habits'[n] = habits[n]
      /\ Disciplined' => Disciplined
      /\ habits' \in Seq({None, UserKey} \X ChunkSizes)
  BY <1>1, HabitsGrow DEF ClientInv
<1>3. q \in Pushes
  BY DEF Pushes, PushKeys, PushKey, ClientInv, ClientTypeOK
<1>4. \A x : Sending(x) => Sending(x)'
  BY <1>2 DEF Sending, Usual, ChunkCount
<1>5. Sending(q)'
  <2>1. IsFiniteSet(local[c])
    BY DEF ClientInv, AllFinite
  <2>2. q.key = PushKey(habits'[Len(habits')][1], q.objects) /\ q.size = habits'[Len(habits')][2]
    BY <1>2
  <2>3. Len(habits') \in 1..Len(habits')
    BY <1>2
  <2> HIDE DEF q
  <2>4. q.at = 1 /\ q.objects = local[c]
    BY DEF q
  <2>5. \E n \in 1..Len(habits') : /\ q.key = PushKey(habits'[n][1], q.objects)
                                   /\ q.size = habits'[n][2]
    BY <2>2, <2>3
  <2>6. q' = q
    BY <1>1 DEF q
  <2> QED
    BY <1>3, <2>1, <2>4, <2>5, <2>6 DEF Sending, Usual, ChunkCount
<1>6. FirstOf((q.at - 1) * q.size, q.objects) = {}
  <2>1. (q.at - 1) * q.size = 0
    BY ClientConstants
  <2>2. IsFiniteSet(q.objects) /\ q.objects \in SUBSET Nat
    BY IdConstants DEF ClientInv, AllFinite, ClientTypeOK
  <2> QED
    BY <2>1, <2>2, FirstOfNone
<1>7. push' \in [Clones -> Pushes \cup {None}]
  BY <1>1, <1>3 DEF ClientInv, ClientTypeOK
<1>8. PushInv'
  <2>1. ASSUME NEW d \in Clones, push'[d] # None
        PROVE  (/\ Sending(push[d])
                /\ FirstOf((push[d].at - 1) * push[d].size, push[d].objects)
                      \subseteq stored \cup mixed)'
    <3>1. CASE d = c
      <4>1. push'[d] = q
        BY <1>1, <3>1 DEF ClientInv, ClientTypeOK
      <4>2. q' = q
        BY <1>1
      <4> HIDE DEF q
      <4> QED
        BY <1>1, <1>5, <1>6, <4>1, <4>2 DEF Sending, Usual, ChunkCount
    <3>2. CASE d # c
      <4>1. push'[d] = push[d]
        BY <1>1, <3>2 DEF ClientInv, ClientTypeOK
      <4>2. /\ Sending(push[d])
            /\ FirstOf((push[d].at - 1) * push[d].size, push[d].objects) \subseteq stored \cup mixed
        BY <2>1, <4>1 DEF ClientInv, PushInv
      <4> QED
        BY <1>1, <1>4, <4>1, <4>2 DEF Sending, Usual, ChunkCount
    <3> QED
      BY <3>1, <3>2
  <2> QED
    BY <2>1 DEF PushInv
<1>9. RecordsInv'
  BY <1>1, <1>4 DEF ClientInv, RecordsInv, ChunkKey, Chunk, ChunkCount
<1>10. PushedStored'
  BY <1>1, <1>2 DEF ClientInv, PushedStored
<1> QED
  BY <1>1, <1>2, <1>7, <1>8, <1>9, <1>10 DEF ClientInv, ClientTypeOK, AllFinite

(* A pull or a command that writes objects adds to one clone. *)
LEMMA LocalStep ==
  ASSUME ClientInv, NEW c \in Clones, NEW new \in SUBSET Ids, IsFiniteSet(new),
         local' = [local EXCEPT ![c] = @ \cup new],
         UNCHANGED <<push, stored, records, pushed, mixed, habits>>
  PROVE  ClientInv'
<1>1. ClientTypeOK'
  BY DEF ClientInv, ClientTypeOK
<1>2. AllFinite'
  <2>1. \A d \in Clones : local'[d] \in {local[d], local[d] \cup new}
    BY DEF ClientInv, ClientTypeOK
  <2>2. \A d \in Clones : IsFiniteSet(local[d]) /\ IsFiniteSet(local[d] \cup new)
    BY FS_Union DEF ClientInv, AllFinite
  <2>3. \A d \in Clones : IsFiniteSet(local'[d])
    BY <2>1, <2>2
  <2> QED
    BY <2>3 DEF ClientInv, AllFinite
<1>3. PushInv' /\ RecordsInv' /\ PushedStored'
  BY DEF ClientInv, PushInv, RecordsInv, PushedStored, Disciplined, Sending, Usual,
         ChunkKey, Chunk, ChunkCount
<1> QED
  BY <1>1, <1>2, <1>3 DEF ClientInv

LEMMA ClientStep == ClientInv /\ [Next]_vars => ClientInv'
<1> SUFFICES ASSUME ClientInv, [Next]_vars
             PROVE  ClientInv'
  OBVIOUS
<1>1. ASSUME NEW c \in Clones, SendChunk(c) \/ LoseAnswer(c)
      PROVE  ClientInv'
  BY <1>1, SendChunkStep
<1>2. ASSUME NEW c \in Clones, ChunkFails(c)
      PROVE  ClientInv'
  BY <1>2, ChunkFailsStep
<1>3. ASSUME NEW c \in Clones, NEW given \in {None, UserKey}, NEW size \in ChunkSizes,
             StartPush(c, given, size)
      PROVE  ClientInv'
  BY <1>3, StartPushStep
<1>4. ASSUME NEW c \in Clones, NEW limit \in Limits, Pull(c, limit)
      PROVE  ClientInv'
  <2>1. PICK n \in 0..limit : local' = [local EXCEPT ![c] = @ \cup FirstOf(n, Missing(c))]
    BY <1>4 DEF Pull
  <2>2. FirstOf(n, Missing(c)) \in SUBSET stored
    BY DEF FirstOf, Missing
  <2>3. FirstOf(n, Missing(c)) \in SUBSET Ids /\ IsFiniteSet(FirstOf(n, Missing(c)))
    BY <2>2, FS_Subset DEF ClientInv, ClientTypeOK, AllFinite
  <2> QED
    BY <1>4, <2>1, <2>3, LocalStep DEF Pull, relay, history
<1>5. ASSUME NEW c \in Clones, NEW i \in Ids, Create(c, i)
      PROVE  ClientInv'
  BY <1>5, LocalStep, FS_Singleton DEF Create, relay, history
<1>6. CASE UNCHANGED vars
  BY <1>6 DEF vars, ClientInv, ClientTypeOK, AllFinite, PushInv, RecordsInv, PushedStored,
              Disciplined, Sending, Usual, ChunkKey, Chunk, ChunkCount
<1> QED
  BY <1>1, <1>2, <1>3, <1>4, <1>5, <1>6 DEF Next

THEOREM ClientInvariant == Spec => []ClientInv
BY ClientInit, ClientStep, PTL DEF Spec

(* A relay push that reports ok has left its objects on the relay, except  *)
(* those answered from the record of other objects; and derived keys with  *)
(* one chunk size never meet such a record.                                *)
THEOREM PushedIsStored == Spec => []PushedStored
<1>1. ClientInv => PushedStored
  BY DEF ClientInv
<1> QED
  BY <1>1, ClientInvariant, PTL

(* A clone whose pushes were all answered for the objects sent can believe *)
(* relay status, which compares counts: equal counts are equal sets.       *)
THEOREM StatusIsSound == Spec => []StatusSound
<1>1. ASSUME ClientInv
      PROVE  StatusSound
  <2>1. SUFFICES ASSUME NEW c \in Clones, pushed[c] = local[c], mixed = {}, RelayStatusOk(c)
                 PROVE  stored = local[c]
    BY DEF StatusSound
  <2>2. local[c] \in SUBSET stored /\ IsFiniteSet(stored)
    BY <1>1, <2>1 DEF ClientInv, PushedStored, AllFinite
  <2> QED
    BY <2>1, <2>2, FS_Subset DEF RelayStatusOk
<1> QED
  BY <1>1, ClientInvariant, PTL

----------------------------------------------------------------------------
(* Induction over the length of a list: < is well founded on Nat.          *)
Less == {p \in Nat \X Nat : p[1] < p[2]}

(* The relation that NatLessThanWellFounded is about.                      *)
LEMMA LessIsWellFounded == IsWellFoundedOn(Less, Nat)
BY NatLessThanWellFounded DEF OpToRel, Less

(* A set that has 0 and with each number the next has all numbers.         *)
LEMMA Induction ==
  ASSUME NEW S, 0 \in S, \A n \in Nat : n \in S => n + 1 \in S
  PROVE  Nat \subseteq S
<1> DEFINE T == Nat \ S
<1>1. SUFFICES ASSUME T # {}
               PROVE  FALSE
  OBVIOUS
<1>2. PICK x \in T : \A y \in T : <<y, x>> \notin Less
  <2>1. T \subseteq Nat
    OBVIOUS
  <2> HIDE DEF T
  <2> QED
    BY <1>1, <2>1, WFMin, LessIsWellFounded, Zenon
<1>3. x - 1 \in Nat /\ x - 1 \notin S /\ x - 1 < x
  <2>1. x # 0
    OBVIOUS
  <2> QED
    BY <2>1
<1>4. x - 1 \in T /\ <<x - 1, x>> \in Less
  BY <1>3 DEF Less
<1> QED
  BY <1>2, <1>4

----------------------------------------------------------------------------
(* KfdbIndex: lists of operations                                          *)

(* A node that exists, or is created by an operation before the nth.       *)
Known(K, s, n, x) == x \in K \/ \E m \in 1..(n - 1) : s[m].op = "node" /\ s[m].node = x

(* A node x with object_id o is true if only objects of T are mirrored and *)
(* named, and x is the mirror or the projection of the object it names.    *)
NodeTrue(T, x, o) ==
    /\ \A i \in Ids : x = Mirror(i) => i \in T
    /\ o # NoObject => /\ o \in T
                       /\ x = Mirror(o) \/ (Kind[o] \in Projected /\ x = Projection(o))

(* Operations that may be written, and cut short anywhere, in a graph with *)
(* the nodes K: edges follow both of their ends, and nodes are true.       *)
OpsOk(K, T, s) ==
    /\ \E S : s \in Seq(S)
    /\ \A n \in 1..Len(s) :
         /\ s[n].op = "edge" => Known(K, s, n, s[n].from) /\ Known(K, s, n, s[n].to)
         /\ s[n].op = "node" => NodeTrue(T, s[n].node, s[n].object)

(* Two lists, one after the other.                                         *)
LEMMA ConcatList ==
  ASSUME NEW S, NEW s \in Seq(S), NEW R, NEW t \in Seq(R)
  PROVE  /\ s \o t \in Seq(S \cup R)
         /\ Len(s) \in Nat /\ Len(t) \in Nat
         /\ Len(s \o t) = Len(s) + Len(t)
         /\ \A n \in 1..Len(s) : (s \o t)[n] = s[n]
         /\ \A n \in 1..Len(t) : (s \o t)[Len(s) + n] = t[n]
         /\ \A n \in 1..Len(s \o t) : n > Len(s) => n - Len(s) \in 1..Len(t)
                                                    /\ (s \o t)[n] = t[n - Len(s)]
<1>1. s \in Seq(S \cup R) /\ t \in Seq(S \cup R)
  OBVIOUS
<1> QED
  BY <1>1, ConcatProperties

(* Operations may follow others that create the nodes they need.           *)
LEMMA ConcatOk ==
  ASSUME NEW K, NEW L, NEW T, NEW s, NEW t, OpsOk(K, T, s), OpsOk(L, T, t),
         L \subseteq K \cup Nodes(s)
  PROVE  OpsOk(K, T, s \o t) /\ Nodes(s) \cup Nodes(t) \subseteq Nodes(s \o t)
<1>1. PICK S, R : s \in Seq(S) /\ t \in Seq(R)
  BY DEF OpsOk
<1>2. /\ s \o t \in Seq(S \cup R)
      /\ Len(s) \in Nat /\ Len(t) \in Nat
      /\ Len(s \o t) = Len(s) + Len(t)
      /\ \A n \in 1..Len(s) : (s \o t)[n] = s[n]
      /\ \A n \in 1..Len(t) : (s \o t)[Len(s) + n] = t[n]
      /\ \A n \in 1..Len(s \o t) : n > Len(s) => n - Len(s) \in 1..Len(t)
                                                 /\ (s \o t)[n] = t[n - Len(s)]
  BY <1>1, ConcatList
<1>3. DOMAIN s = 1..Len(s) /\ DOMAIN t = 1..Len(t) /\ DOMAIN (s \o t) = 1..Len(s \o t)
  BY <1>1, <1>2
<1> DEFINE u == s \o t
<1> HIDE DEF u
<1>4. ASSUME NEW n \in 1..Len(u), NEW x, n > Len(s), Known(L, t, n - Len(s), x)
      PROVE  Known(K, u, n, x)
  <2>1. CASE x \in L
    <3>1. x \in K \/ \E m \in 1..Len(s) : s[m].op = "node" /\ s[m].node = x
      BY <2>1, <1>3 DEF Nodes
    <3>2. ASSUME NEW m \in 1..Len(s), s[m].op = "node", s[m].node = x
          PROVE  Known(K, u, n, x)
      <4>1. m \in 1..(n - 1) /\ u[m] = s[m]
        BY <1>2, <1>4 DEF u
      <4> QED
        BY <3>2, <4>1 DEF Known
    <3> QED
      BY <3>1, <3>2 DEF Known
  <2>2. ASSUME NEW m \in 1..(n - Len(s) - 1), t[m].op = "node", t[m].node = x
        PROVE  Known(K, u, n, x)
    <3>1. Len(s) + m \in 1..(n - 1) /\ m \in 1..Len(t)
      BY <1>2, <1>4 DEF u
    <3>2. u[Len(s) + m] = t[m]
      BY <1>2, <3>1 DEF u
    <3> QED
      BY <2>2, <3>1, <3>2 DEF Known
  <2> QED
    BY <1>4, <2>1, <2>2 DEF Known
<1>5. ASSUME NEW n \in 1..Len(u), NEW x, n <= Len(s), Known(K, s, n, x)
      PROVE  Known(K, u, n, x)
  <2>1. \A m \in 1..(n - 1) : u[m] = s[m]
    BY <1>2, <1>5 DEF u
  <2> QED
    BY <1>5, <2>1 DEF Known
<1>6. ASSUME NEW n \in 1..Len(u)
      PROVE  /\ u[n].op = "edge" => Known(K, u, n, u[n].from) /\ Known(K, u, n, u[n].to)
             /\ u[n].op = "node" => NodeTrue(T, u[n].node, u[n].object)
  <2>1. CASE n <= Len(s)
    <3>1. n \in 1..Len(s) /\ u[n] = s[n]
      BY <2>1, <1>2 DEF u
    <3> QED
      BY <3>1, <2>1, <1>5 DEF OpsOk
  <2>2. CASE n > Len(s)
    <3>1. n - Len(s) \in 1..Len(t) /\ u[n] = t[n - Len(s)]
      BY <2>2, <1>2 DEF u
    <3> QED
      BY <3>1, <2>2, <1>4 DEF OpsOk
  <2> QED
    BY <2>1, <2>2, <1>2
<1>7. Nodes(s) \cup Nodes(t) \subseteq Nodes(u)
  <2>1. ASSUME NEW n \in 1..Len(s), s[n].op = "node"
        PROVE  s[n].node \in Nodes(u)
    <3>1. n \in DOMAIN u /\ u[n] = s[n]
      BY <1>2, <1>3 DEF u
    <3> QED
      BY <2>1, <3>1 DEF Nodes
  <2>2. ASSUME NEW n \in 1..Len(t), t[n].op = "node"
        PROVE  t[n].node \in Nodes(u)
    <3>1. Len(s) + n \in DOMAIN u /\ u[Len(s) + n] = t[n]
      BY <1>2, <1>3 DEF u
    <3> QED
      BY <2>2, <3>1 DEF Nodes
  <2> QED
    BY <1>3, <2>1, <2>2 DEF Nodes
<1> QED
  BY <1>2, <1>6, <1>7 DEF u, OpsOk

(* Operations stay allowed as the graph and the store grow.                *)
LEMMA MoreKnown ==
  ASSUME NEW K, NEW L, NEW T, NEW U, NEW s, OpsOk(K, T, s), K \subseteq L, T \subseteq U
  PROVE  OpsOk(L, U, s)
BY DEF OpsOk, Known, NodeTrue

(* A node and the edge to it from a node that exists.                      *)
LEMMA PairOk ==
  ASSUME NEW K, NEW T, NEW x \in K, NEW y, NEW o, NodeTrue(T, y, o)
  PROVE  OpsOk(K, T, Linked(x, y, o)) /\ y \in Nodes(Linked(x, y, o))
<1> DEFINE s == Linked(x, y, o)
<1>1. /\ s \in Seq({s[1], s[2]}) /\ Len(s) = 2 /\ DOMAIN s = 1..2
      /\ s[1] = Node(y, o) /\ s[2] = Edge(x, y)
  BY DEF Linked
<1>2. /\ s[1].op = "node" /\ s[1].node = y /\ s[1].object = o
      /\ s[2].op = "edge" /\ s[2].from = x /\ s[2].to = y
  BY <1>1 DEF Node, Edge
<1> HIDE DEF s
<1>3. Known(K, s, 2, x) /\ Known(K, s, 2, y)
  BY <1>2 DEF Known
<1>4. \A n \in 1..2 : n = 1 \/ n = 2
  OBVIOUS
<1>5. OpsOk(K, T, s)
  BY <1>1, <1>2, <1>3, <1>4 DEF OpsOk
<1>6. y \in Nodes(s)
  BY <1>1, <1>2 DEF Nodes
<1> QED
  BY <1>5, <1>6 DEF s

(* Several such pairs: the even operations are edges, each after its node. *)
LEMMA LinkedAllOk ==
  ASSUME NEW K, NEW T, NEW x, NEW ys, Len(ys) \in Nat, ys # <<>> => x \in K,
         ys = [n \in 1..Len(ys) |-> ys[n]],
         \A n \in 1..Len(ys) : NodeTrue(T, ys[n], NoObject)
  PROVE  OpsOk(K, T, LinkedAll(x, ys))
<1> DEFINE s == LinkedAll(x, ys)
           N == 2 * Len(ys)
<1>1. /\ s = [n \in 1..N |-> IF n % 2 = 1 THEN Node(ys[(n + 1) \div 2], NoObject)
                                         ELSE Edge(x, ys[n \div 2])]
      /\ N \in Nat
  BY DEF LinkedAll
<1>2. s \in Seq({s[n] : n \in 1..N}) /\ Len(s) = N
  <2> DEFINE S == {s[n] : n \in 1..N}
  <2>1. s \in [1..N -> S]
    BY <1>1
  <2> HIDE DEF s, S, N
  <2>2. s \in Seq(S) /\ Len(s) = N
    BY <1>1, <2>1
  <2> QED
    BY <2>2 DEF S
<1> HIDE DEF s
<1>3. ASSUME NEW n \in 1..N, n % 2 = 1
      PROVE  /\ (n + 1) \div 2 \in 1..Len(ys)
             /\ s[n].op = "node" /\ s[n].node = ys[(n + 1) \div 2] /\ s[n].object = NoObject
  BY <1>1, <1>3 DEF Node
<1>4. ASSUME NEW n \in 1..N, n % 2 # 1
      PROVE  /\ n \div 2 \in 1..Len(ys) /\ n - 1 \in 1..N /\ (n - 1) % 2 = 1
             /\ ((n - 1) + 1) \div 2 = n \div 2
             /\ s[n].op = "edge" /\ s[n].from = x /\ s[n].to = ys[n \div 2]
  BY <1>1, <1>4 DEF Edge
<1>5. ASSUME NEW n \in 1..N, s[n].op = "edge"
      PROVE  Known(K, s, n, s[n].from) /\ Known(K, s, n, s[n].to)
  <2>1. n % 2 # 1
    BY <1>3, <1>5
  <2>2. x \in K
    <3>1. Len(ys) > 0
      BY <1>4, <2>1
    <3>2. Len(<<>>) = 0
      OBVIOUS
    <3> QED
      BY <3>1, <3>2
  <2>3. n - 1 \in 1..(n - 1) /\ s[n - 1].op = "node" /\ s[n - 1].node = s[n].to
    <3> DEFINE m == n - 1
    <3>1. /\ n - 1 \in 1..N /\ (n - 1) % 2 = 1 /\ ((n - 1) + 1) \div 2 = n \div 2
          /\ s[n].to = ys[n \div 2]
      <4> HIDE DEF N, m
      <4> QED
        BY <1>4, <2>1
    <3>2. m \in 1..N /\ m % 2 = 1 /\ (m + 1) \div 2 = n \div 2 /\ m \in 1..(n - 1)
      BY <3>1
    <3> HIDE DEF m
    <3>3. s[m].op = "node" /\ s[m].node = ys[(m + 1) \div 2]
      BY <1>3, <3>2
    <3>4. m \in 1..(n - 1) /\ s[m].op = "node" /\ s[m].node = s[n].to
      BY <3>1, <3>2, <3>3
    <3> QED
      BY <3>4 DEF m
  <2> QED
    BY <1>4, <2>1, <2>2, <2>3 DEF Known
<1>6. ASSUME NEW n \in 1..N, s[n].op = "node"
      PROVE  NodeTrue(T, s[n].node, s[n].object)
  <2>1. n % 2 = 1
    BY <1>4, <1>6
  <2> QED
    BY <1>3, <2>1
<1>7. OpsOk(K, T, s)
  BY <1>2, <1>5, <1>6 DEF OpsOk
<1> QED
  BY <1>7 DEF s

(* A list of nodes, none of which is a mirror.                             *)
SomeNames(s) ==
    /\ Len(s) \in Nat /\ s = [n \in 1..Len(s) |-> s[n]]
    /\ \A T, n : n \in 1..Len(s) => NodeTrue(T, s[n], NoObject)

(* A node with another label than a mirror is true without object_id.      *)
LEMMA PlainNames ==
  ASSUME NEW l, l # "RickydataObjectMirror", NEW v, NEW T
  PROVE  NodeTrue(T, <<l, v>>, NoObject)
BY DEF NodeTrue, Mirror

(* The names in a body field are such a list.                              *)
LEMMA NamedOk ==
  ASSUME NEW i \in Ids, NEW f, NEW l, l # "RickydataObjectMirror"
  PROVE  SomeNames(Named(i, f, l)) /\ \E S : Named(i, f, l) \in Seq(S)
<1>1. CASE f \in DOMAIN Body[i]
  <2> DEFINE v == Body[i][f]
             s == [n \in DOMAIN v |-> <<l, v[n]>>]
  <2>1. Named(i, f, l) = s
    BY <1>1 DEF Named
  <2>2. v \in Seq(Values)
    BY <1>1, IndexConstants
  <2>3. Len(v) \in Nat /\ DOMAIN v = 1..Len(v)
    BY <2>2
  <2> HIDE DEF v
  <2>4. s \in [1..Len(v) -> {<<l, v[n]>> : n \in 1..Len(v)}]
    BY <2>3
  <2>5. s \in Seq({<<l, v[n]>> : n \in 1..Len(v)}) /\ Len(s) = Len(v)
    BY <2>3, <2>4
  <2>6. \A T, n : n \in 1..Len(s) => NodeTrue(T, s[n], NoObject)
    BY <2>3, <2>5, PlainNames
  <2> QED
    BY <2>1, <2>3, <2>5, <2>6 DEF SomeNames
<1>2. CASE f \notin DOMAIN Body[i]
  <2>1. Named(i, f, l) = <<>>
    BY <1>2 DEF Named
  <2>2. <<>> \in Seq({}) /\ Len(<<>>) = 0 /\ <<>> = [n \in 1..0 |-> <<>>[n]]
    OBVIOUS
  <2> QED
    BY <2>1, <2>2 DEF SomeNames
<1> QED
  BY <1>1, <1>2

(* Two such lists are one.                                                 *)
LEMMA NamesConcat ==
  ASSUME NEW S, NEW s \in Seq(S), NEW R, NEW t \in Seq(R), SomeNames(s), SomeNames(t)
  PROVE  SomeNames(s \o t)
<1> DEFINE u == s \o t
<1>1. /\ s \o t \in Seq(S \cup R)
      /\ Len(s) \in Nat /\ Len(t) \in Nat
      /\ Len(s \o t) = Len(s) + Len(t)
      /\ \A n \in 1..Len(s) : (s \o t)[n] = s[n]
      /\ \A n \in 1..Len(t) : (s \o t)[Len(s) + n] = t[n]
      /\ \A n \in 1..Len(s \o t) : n > Len(s) => n - Len(s) \in 1..Len(t)
                                                 /\ (s \o t)[n] = t[n - Len(s)]
  BY ConcatList
<1>2. /\ u \in Seq(S \cup R)
      /\ Len(u) \in Nat
      /\ \A n \in 1..Len(s) : u[n] = s[n]
      /\ \A n \in 1..Len(u) : n > Len(s) => n - Len(s) \in 1..Len(t) /\ u[n] = t[n - Len(s)]
  BY <1>1
<1> HIDE DEF u
<1>3. ASSUME NEW T, NEW n, n \in 1..Len(u)
      PROVE  NodeTrue(T, u[n], NoObject)
  <2>1. CASE n <= Len(s)
    BY <1>1, <1>2, <1>3, <2>1 DEF SomeNames
  <2>2. CASE n > Len(s)
    BY <1>1, <1>2, <1>3, <2>2 DEF SomeNames
  <2> QED
    BY <1>1, <1>2, <1>3, <2>1, <2>2
<1>4. u = [n \in 1..Len(u) |-> u[n]]
  BY <1>2
<1>5. SomeNames(u)
  BY <1>2, <1>3, <1>4 DEF SomeNames
<1> QED
  BY <1>5 DEF u

(* Only projected objects descend from others.                             *)
LEMMA OriginsOk ==
  ASSUME NEW i \in Ids
  PROVE  /\ SomeNames(Origins(i))
         /\ Origins(i) # <<>> => Kind[i] \in Projected
<1>1. SomeNames(<<>>)
  BY DEF SomeNames
<1>2. \A f, l : l # "RickydataObjectMirror" =>
        SomeNames(Named(i, f, l)) /\ \E S : Named(i, f, l) \in Seq(S)
  BY NamedOk
<1>3. \A f, g, l : l # "RickydataObjectMirror" => SomeNames(Named(i, f, l) \o Named(i, g, l))
  BY <1>2, NamesConcat
<1>4. CASE Kind[i] = "agent.attempt"
  BY <1>2, <1>4 DEF Origins, Projected
<1>5. CASE Kind[i] = "agent.run"
  BY <1>2, <1>5 DEF Origins, Projected
<1>6. CASE Kind[i] = "agent.change"
  BY <1>3, <1>6 DEF Origins, Projected
<1>7. CASE Kind[i] = "agent.patch"
  BY <1>3, <1>7 DEF Origins, Projected
<1>8. CASE Kind[i] \notin {"agent.attempt", "agent.run", "agent.change", "agent.patch"}
  <2>1. Origins(i) = <<>>
    BY <1>8 DEF Origins
  <2> QED
    BY <1>1, <2>1
<1> QED
  BY <1>4, <1>5, <1>6, <1>7, <1>8

(* The mirror of an object of T.                                           *)
LEMMA MirrorTrue ==
  ASSUME NEW T, NEW i \in T
  PROVE  NodeTrue(T, Mirror(i), i)
BY DEF NodeTrue, Mirror

(* The projection of an object of T: its label is not that of mirrors.     *)
LEMMA ProjectionTrue ==
  ASSUME NEW T, NEW i \in T, Kind[i] \in Projected
  PROVE  NodeTrue(T, Projection(i), i)
<1>1. Kind[i] # "RickydataObjectMirror"
  BY DEF Projected
<1>2. \A j : Projection(i) # Mirror(j)
  BY <1>1 DEF Projection, Mirror
<1> QED
  BY <1>2 DEF NodeTrue

----------------------------------------------------------------------------
(* KfdbIndex: what kfdb_index_batch writes                                 *)

(* The signers of an object that has a mirror.                             *)
LEMMA SignatureOk ==
  ASSUME NEW T, NEW i \in Ids
  PROVE  OpsOk({Mirror(i)}, T, SignatureOps(i))
<1> DEFINE v == Signers[i]
           s == [n \in DOMAIN v |-> Actor(v[n])]
<1>1. v \in Seq(Values)
  BY IndexConstants
<1>2. Len(v) \in Nat /\ DOMAIN v = 1..Len(v)
  BY <1>1
<1> HIDE DEF v
<1>3. s \in [1..Len(v) -> {Actor(v[n]) : n \in 1..Len(v)}]
  BY <1>2
<1>4. s \in Seq({Actor(v[n]) : n \in 1..Len(v)}) /\ Len(s) = Len(v)
  BY <1>2, <1>3
<1>5. \A n \in 1..Len(s) : NodeTrue(T, s[n], NoObject)
  BY <1>2, <1>4, PlainNames DEF Actor
<1>6. s = [n \in 1..Len(s) |-> s[n]] /\ Len(s) \in Nat
  BY <1>2, <1>4
<1> HIDE DEF s
<1>7. OpsOk({Mirror(i)}, T, LinkedAll(Mirror(i), s))
  BY <1>5, <1>6, LinkedAllOk
<1> QED
  BY <1>7 DEF SignatureOps, s, v

(* The files of a projected object.                                        *)
LEMMA FileOk ==
  ASSUME NEW T, NEW i \in Ids
  PROVE  OpsOk({Projection(i)}, T, FileOps(i))
<1>1. SomeNames(Named(i, "file_paths", "CodeFile"))
  BY NamedOk
<1>2. OpsOk({Projection(i)}, T, LinkedAll(Projection(i), Named(i, "file_paths", "CodeFile")))
  BY <1>1, LinkedAllOk DEF SomeNames
<1>3. OpsOk({Projection(i)}, T, <<>>)
  <2>1. <<>> \in Seq({}) /\ Len(<<>>) = 0
    OBVIOUS
  <2> QED
    BY <2>1 DEF OpsOk
<1> QED
  BY <1>2, <1>3 DEF FileOps

(* The projection of a mirrored object, and its files.                     *)
LEMMA ProjectionOk ==
  ASSUME NEW T, NEW i \in Ids, i \in T
  PROVE  /\ OpsOk({Mirror(i)}, T, ProjectionOps(i))
         /\ Kind[i] \in Projected => Projection(i) \in Nodes(ProjectionOps(i))
<1>1. CASE Kind[i] \in Projected
  <2> DEFINE s == Linked(Mirror(i), Projection(i), i)
  <2>1. OpsOk({Mirror(i)}, T, s) /\ Projection(i) \in Nodes(s)
    BY <1>1, ProjectionTrue, PairOk
  <2>2. OpsOk({Projection(i)}, T, FileOps(i))
    BY FileOk
  <2>3. {Projection(i)} \subseteq {Mirror(i)} \cup Nodes(s)
    BY <2>1
  <2> HIDE DEF s
  <2>4. OpsOk({Mirror(i)}, T, s \o FileOps(i)) /\ Nodes(s) \subseteq Nodes(s \o FileOps(i))
    BY <2>1, <2>2, <2>3, ConcatOk
  <2>5. ProjectionOps(i) = s \o FileOps(i)
    BY <1>1 DEF ProjectionOps, s
  <2> QED
    BY <2>1, <2>4, <2>5
<1>2. CASE Kind[i] \notin Projected
  <2>1. ProjectionOps(i) = <<>> /\ <<>> \in Seq({}) /\ Len(<<>>) = 0
    BY <1>2 DEF ProjectionOps
  <2> QED
    BY <1>2, <2>1 DEF OpsOk
<1> QED
  BY <1>1, <1>2

(* The nodes an object descends from.                                      *)
LEMMA LineageOk ==
  ASSUME NEW T, NEW i \in Ids
  PROVE  OpsOk(IF Kind[i] \in Projected THEN {Projection(i)} ELSE {}, T, LineageOps(i))
<1> DEFINE K == IF Kind[i] \in Projected THEN {Projection(i)} ELSE {}
<1>1. SomeNames(Origins(i)) /\ (Origins(i) # <<>> => Projection(i) \in K)
  BY OriginsOk
<1> HIDE DEF K
<1>2. OpsOk(K, T, LinkedAll(Projection(i), Origins(i)))
  BY <1>1, LinkedAllOk DEF SomeNames
<1> QED
  BY <1>2 DEF LineageOps, K

(* All operations of one object, when the repository and bundle exist.     *)
LEMMA ObjectOk ==
  ASSUME NEW T, NEW b, NEW i \in Ids, i \in T
  PROVE  OpsOk({Repo, Bundle(b)}, T, ObjectOps(b, i))
<1> DEFINE K == {Repo, Bundle(b)}
           s1 == Linked(Repo, Mirror(i), i)
           e  == <<Edge(Bundle(b), Mirror(i))>>
           s2 == s1 \o e
           s3 == s2 \o SignatureOps(i)
           s4 == s3 \o ProjectionOps(i)
           s5 == s4 \o LineageOps(i)
<1>1. OpsOk(K, T, s1) /\ Mirror(i) \in Nodes(s1)
  BY MirrorTrue, PairOk
<1>2. OpsOk({Bundle(b), Mirror(i)}, T, e)
  <2>1. e \in Seq({e[1]}) /\ Len(e) = 1 /\ e[1] = Edge(Bundle(b), Mirror(i))
    OBVIOUS
  <2>2. e[1].op = "edge" /\ e[1].from = Bundle(b) /\ e[1].to = Mirror(i)
    BY <2>1 DEF Edge
  <2> HIDE DEF e
  <2>3. \A n \in 1..Len(e) : n = 1
    BY <2>1
  <2> QED
    BY <2>1, <2>2, <2>3 DEF OpsOk, Known
<1>3. {Bundle(b), Mirror(i)} \subseteq K \cup Nodes(s1)
  BY <1>1
<1>4. OpsOk(K, T, s2) /\ Mirror(i) \in Nodes(s2)
  <2> HIDE DEF K, s1, e
  <2> QED
    BY <1>1, <1>2, <1>3, ConcatOk
<1>5. OpsOk(K, T, s3) /\ Mirror(i) \in Nodes(s3)
  <2> HIDE DEF K, s2
  <2> QED
    BY <1>4, SignatureOk, ConcatOk
<1>6. /\ OpsOk(K, T, s4)
      /\ (IF Kind[i] \in Projected THEN {Projection(i)} ELSE {}) \subseteq Nodes(s4)
  <2>1. /\ OpsOk({Mirror(i)}, T, ProjectionOps(i))
        /\ Kind[i] \in Projected => Projection(i) \in Nodes(ProjectionOps(i))
    BY ProjectionOk
  <2> HIDE DEF K, s3
  <2> QED
    BY <1>5, <2>1, ConcatOk
<1>7. OpsOk(K, T, s5)
  <2>1. OpsOk(IF Kind[i] \in Projected THEN {Projection(i)} ELSE {}, T, LineageOps(i))
    BY LineageOk
  <2> HIDE DEF K, s4
  <2> QED
    BY <1>6, <2>1, ConcatOk
<1> QED
  BY <1>7 DEF ObjectOps

(* The operations before those of the objects.                             *)
Prelude(b) == <<Node(Repo, NoObject)>> \o Linked(Repo, Bundle(b), NoObject)

(* The function that IndexBatch chooses.                                   *)
Ops(f, b, objects, N) ==
    f = [n \in 0..N |-> IF n = 0 THEN Prelude(b) ELSE f[n - 1] \o ObjectOps(b, objects[n])]

(* There is such a function, for any number of objects.                    *)
LEMMA OpsExist ==
  ASSUME NEW b, NEW objects
  PROVE  \A N \in Nat : \E f : Ops(f, b, objects, N)
<1> DEFINE S == {N \in Nat : \E f : Ops(f, b, objects, N)}
<1>1. 0 \in S
  <2>1. Ops([n \in 0..0 |-> Prelude(b)], b, objects, 0)
    BY DEF Ops
  <2> QED
    BY <2>1
<1>2. ASSUME NEW N \in Nat, N \in S
      PROVE  N + 1 \in S
  <2>1. PICK f : Ops(f, b, objects, N)
    BY <1>2
  <2> DEFINE g == [n \in 0..(N + 1) |->
                     IF n <= N THEN f[n] ELSE f[N] \o ObjectOps(b, objects[n])]
  <2>2. \A n \in 0..(N + 1) :
          g[n] = IF n = 0 THEN Prelude(b) ELSE g[n - 1] \o ObjectOps(b, objects[n])
    <3>1. \A n \in 0..N :
            f[n] = IF n = 0 THEN Prelude(b) ELSE f[n - 1] \o ObjectOps(b, objects[n])
      BY <2>1 DEF Ops
    <3>2. \A n \in 0..N : g[n] = f[n]
      OBVIOUS
    <3>3. g[N + 1] = f[N] \o ObjectOps(b, objects[N + 1])
      OBVIOUS
    <3> HIDE DEF g
    <3>4. ASSUME NEW n \in 0..(N + 1), n <= N
          PROVE  g[n] = IF n = 0 THEN Prelude(b) ELSE g[n - 1] \o ObjectOps(b, objects[n])
      <4>1. n \in 0..N /\ (n # 0 => n - 1 \in 0..N)
        BY <3>4
      <4> QED
        BY <3>1, <3>2, <4>1
    <3>5. g[N + 1] = IF N + 1 = 0 THEN Prelude(b)
                                  ELSE g[(N + 1) - 1] \o ObjectOps(b, objects[N + 1])
      <4>1. N + 1 # 0 /\ (N + 1) - 1 = N /\ N \in 0..N
        OBVIOUS
      <4> QED
        BY <3>2, <3>3, <4>1
    <3>6. \A n \in 0..(N + 1) : n <= N \/ n = N + 1
      OBVIOUS
    <3> QED
      BY <3>4, <3>5, <3>6
  <2>3. Ops(g, b, objects, N + 1)
    <3>1. g = [n \in 0..(N + 1) |-> g[n]]
      OBVIOUS
    <3> HIDE DEF g
    <3> QED
      BY <2>2, <3>1 DEF Ops
  <2> QED
    BY <2>3
<1> HIDE DEF S
<1>3. Nat \subseteq S
  BY <1>1, <1>2, Induction
<1> QED
  BY <1>3 DEF S

(* IndexBatch is its last value.                                           *)
LEMMA IndexBatchIs ==
  ASSUME NEW b, NEW objects, Len(objects) \in Nat
  PROVE  \E f : Ops(f, b, objects, Len(objects)) /\ IndexBatch(b, objects) = f[Len(objects)]
<1> DEFINE f == CHOOSE g : Ops(g, b, objects, Len(objects))
<1>1. Ops(f, b, objects, Len(objects))
  BY OpsExist, Zenon
<1>2. IndexBatch(b, objects) = f[Len(objects)]
  BY DEF IndexBatch, Ops, Prelude
<1> QED
  BY <1>1, <1>2

(* The first operations need nothing.                                      *)
LEMMA PreludeOk ==
  ASSUME NEW T, NEW b
  PROVE  OpsOk({}, T, Prelude(b)) /\ {Repo, Bundle(b)} \subseteq Nodes(Prelude(b))
<1> DEFINE r == <<Node(Repo, NoObject)>>
           s == Linked(Repo, Bundle(b), NoObject)
<1>1. NodeTrue(T, Repo, NoObject) /\ NodeTrue(T, Bundle(b), NoObject)
  <2>1. \A i : Repo # Mirror(i) /\ Bundle(b) # Mirror(i)
    BY DEF Repo, Bundle, Mirror
  <2> QED
    BY <2>1 DEF NodeTrue
<1>2. OpsOk({}, T, r) /\ Repo \in Nodes(r)
  <2>1. r \in Seq({r[1]}) /\ Len(r) = 1 /\ DOMAIN r = 1..1 /\ r[1] = Node(Repo, NoObject)
    OBVIOUS
  <2>2. r[1].op = "node" /\ r[1].node = Repo /\ r[1].object = NoObject
    BY <2>1 DEF Node
  <2> HIDE DEF r
  <2>3. \A n \in 1..Len(r) : n = 1
    BY <2>1
  <2> QED
    BY <1>1, <2>1, <2>2, <2>3 DEF OpsOk, Nodes
<1>3. OpsOk({Repo}, T, s) /\ Bundle(b) \in Nodes(s)
  BY <1>1, PairOk
<1> HIDE DEF r, s
<1>4. OpsOk({}, T, r \o s) /\ Nodes(r) \cup Nodes(s) \subseteq Nodes(r \o s)
  BY <1>2, <1>3, ConcatOk
<1> QED
  BY <1>2, <1>3, <1>4 DEF Prelude, r, s

(* The operations of a whole request need nothing.                         *)
LEMMA BatchOk ==
  ASSUME NEW T, NEW b, NEW objects, Len(objects) \in Nat,
         \A n \in 1..Len(objects) : objects[n] \in Ids /\ objects[n] \in T
  PROVE  OpsOk({}, T, IndexBatch(b, objects))
<1> DEFINE N == Len(objects)
<1>1. PICK f : Ops(f, b, objects, N) /\ IndexBatch(b, objects) = f[N]
  BY IndexBatchIs
<1> HIDE DEF N
<1> DEFINE Good(n) == OpsOk({}, T, f[n]) /\ {Repo, Bundle(b)} \subseteq Nodes(f[n])
           S == {n \in Nat : n <= N => Good(n)}
<1>2. N \in Nat
  BY DEF N
<1>3. 0 \in S
  <2>1. f[0] = Prelude(b)
    BY <1>1, <1>2 DEF Ops
  <2> QED
    BY <2>1, PreludeOk
<1>4. ASSUME NEW n \in Nat, n \in S
      PROVE  n + 1 \in S
  <2>1. SUFFICES ASSUME n + 1 <= N
                 PROVE  Good(n + 1)
    OBVIOUS
  <2>2. Good(n)
    BY <1>2, <1>4, <2>1
  <2>3. f[n + 1] = f[n] \o ObjectOps(b, objects[n + 1])
    <3>1. n + 1 \in 0..N /\ n + 1 # 0 /\ (n + 1) - 1 = n
      BY <1>2, <2>1
    <3>2. f[n + 1] = IF n + 1 = 0 THEN Prelude(b)
                                  ELSE f[(n + 1) - 1] \o ObjectOps(b, objects[n + 1])
      BY <1>1, <3>1 DEF Ops
    <3> QED
      BY <3>1, <3>2
  <2>4. OpsOk({Repo, Bundle(b)}, T, ObjectOps(b, objects[n + 1]))
    <3>1. n + 1 \in 1..Len(objects)
      BY <1>2, <2>1 DEF N
    <3> QED
      BY <3>1, ObjectOk
  <2>5. /\ OpsOk({}, T, f[n] \o ObjectOps(b, objects[n + 1]))
        /\ Nodes(f[n]) \subseteq Nodes(f[n] \o ObjectOps(b, objects[n + 1]))
    <3> DEFINE u == f[n]
               v == ObjectOps(b, objects[n + 1])
    <3>1. OpsOk({}, T, u) /\ {Repo, Bundle(b)} \subseteq {} \cup Nodes(u)
      BY <2>2
    <3>2. OpsOk({Repo, Bundle(b)}, T, v)
      BY <2>4
    <3> HIDE DEF u, v, S, Good
    <3>3. OpsOk({}, T, u \o v) /\ Nodes(u) \cup Nodes(v) \subseteq Nodes(u \o v)
      BY <3>1, <3>2, ConcatOk
    <3> QED
      BY <3>3 DEF u, v
  <2> QED
    BY <2>2, <2>3, <2>5
<1> HIDE DEF S, Good
<1>5. Nat \subseteq S
  BY <1>3, <1>4, Induction
<1>6. Good(N)
  BY <1>2, <1>5 DEF S
<1> QED
  BY <1>1, <1>6 DEF Good, N

----------------------------------------------------------------------------
(* KfdbIndex: the invariant                                                *)

(* The objects of recorded bundles are stored, and what the threads have   *)
(* left to write may be written now.                                       *)
OperationsInv ==
    /\ stored \in SUBSET Ids /\ mixed \in SUBSET Ids
    /\ \A b \in recorded : b \in Bundles /\ Objects(b) \subseteq stored
    /\ DOMAIN thread = Threads
    /\ \A t \in Threads : OpsOk(graph.nodes, stored \cup mixed, thread[t])

(* The graph is whole, its nodes are true of the objects T, and a node     *)
(* names one object.                                                       *)
GraphOk(g, T) ==
    /\ \A e \in g.edges : e[1] \in g.nodes /\ e[2] \in g.nodes
    /\ Mirrored(g) \subseteq T
    /\ \A p \in g.objects : p = <<p[1], p[2]>> /\ p[2] # NoObject
                             /\ NodeTrue(T, p[1], p[2])
    /\ \A p, q \in g.objects : p[1] = q[1] => p = q

IndexInv == OperationsInv /\ GraphOk(graph, stored \cup mixed)

(* Nothing may be written.                                                 *)
LEMMA EmptyOk == ASSUME NEW K, NEW T PROVE OpsOk(K, T, <<>>)
<1>1. <<>> \in Seq({}) /\ Len(<<>>) = 0
  OBVIOUS
<1> QED
  BY <1>1 DEF OpsOk

(* The empty graph.                                                        *)
LEMMA IndexedInit == IndexInit => IndexInv
<1> SUFFICES ASSUME IndexInit PROVE IndexInv
  OBVIOUS
<1>1. OperationsInv
  BY EmptyOk DEF IndexInit, OperationsInv
<1>2. GraphOk(graph, stored \cup mixed)
  BY DEF IndexInit, GraphOk, Mirrored
<1> QED
  BY <1>1, <1>2 DEF IndexInv

(* A bundle lists ids.                                                     *)
LEMMA ObjectsOfBundle ==
  ASSUME NEW b \in Bundles
  PROVE  /\ Len(b) \in Nat /\ DOMAIN b = 1..Len(b) /\ Objects(b) \subseteq Ids
         /\ \A n \in 1..Len(b) : b[n] \in Ids /\ b[n] \in Objects(b)
<1>1. b \in Seq(Ids)
  BY IndexConstants
<1> QED
  BY <1>1 DEF Objects

(* More objects are stored, and threads may start on them.                 *)
LEMMA StoreMore ==
  ASSUME IndexInv, stored \subseteq stored', mixed \subseteq mixed',
         stored' \in SUBSET Ids, mixed' \in SUBSET Ids,
         \A b \in recorded' : b \in Bundles /\ Objects(b) \subseteq stored',
         DOMAIN thread' = Threads, UNCHANGED graph,
         \A t \in Threads : \/ thread'[t] = thread[t]
                            \/ OpsOk({}, stored' \cup mixed', thread'[t])
  PROVE  IndexInv'
<1> DEFINE T == stored \cup mixed
           U == stored' \cup mixed'
           K == graph.nodes
<1>1. T \subseteq U
  OBVIOUS
<1>2. ASSUME NEW t \in Threads
      PROVE  OpsOk(K, U, thread'[t])
  <2>1. CASE thread'[t] = thread[t]
    <3>1. OpsOk(K, T, thread[t])
      BY DEF IndexInv, OperationsInv
    <3> HIDE DEF K, T, U
    <3> QED
      BY <1>1, <2>1, <3>1, MoreKnown
  <2>2. CASE OpsOk({}, U, thread'[t])
    <3> HIDE DEF K, T, U
    <3>1. {} \subseteq K
      OBVIOUS
    <3> QED
      BY <2>2, <3>1, MoreKnown
  <2> QED
    BY <2>1, <2>2
<1>3. graph' = graph
  OBVIOUS
<1>4. \A t \in Threads : OpsOk(graph'.nodes, stored' \cup mixed', thread'[t])
  BY <1>2, <1>3
<1>5. OperationsInv'
  BY <1>4 DEF OperationsInv, Objects
<1>6. GraphOk(graph, U)
  <2>1. GraphOk(graph, T)
    BY DEF IndexInv
  <2> HIDE DEF T, U
  <2> QED
    BY <1>1, <2>1 DEF GraphOk, NodeTrue
<1> QED
  BY <1>3, <1>5, <1>6 DEF IndexInv

(* A push is stored, or answered from a record: its objects are indexed.   *)
LEMMA PushStep == ASSUME IndexInv, NEW t \in Threads, NEW b \in Bundles, Push(t, b) PROVE IndexInv'
<1>1. /\ Len(b) \in Nat /\ Objects(b) \subseteq Ids
      /\ \A n \in 1..Len(b) : b[n] \in Ids /\ b[n] \in Objects(b)
  BY ObjectsOfBundle
<1>2. \A u \in Threads : u # t => thread'[u] = thread[u]
  BY DEF Push, IndexInv, OperationsInv
<1>3. DOMAIN thread' = Threads /\ UNCHANGED graph
  BY DEF Push, IndexInv, OperationsInv
<1>4. ASSUME NEW r, thread'[t] = IndexBatch(r, b), Objects(b) \subseteq stored' \cup mixed'
      PROVE  OpsOk({}, stored' \cup mixed', thread'[t])
  BY <1>1, <1>4, BatchOk
<1>5. CASE /\ stored' = stored \cup Objects(b)
           /\ recorded' = recorded \cup {b}
           /\ thread' = [thread EXCEPT ![t] = IndexBatch(b, b)]
           /\ UNCHANGED mixed
  <2>1. thread'[t] = IndexBatch(b, b)
    BY <1>5 DEF IndexInv, OperationsInv
  <2>2. OpsOk({}, stored' \cup mixed', thread'[t])
    BY <2>1, <1>4, <1>5
  <2>3. /\ stored \subseteq stored' /\ mixed \subseteq mixed'
        /\ stored' \in SUBSET Ids /\ mixed' \in SUBSET Ids
        /\ \A c \in recorded' : c \in Bundles /\ Objects(c) \subseteq stored'
    BY <1>1, <1>5 DEF IndexInv, OperationsInv
  <2> QED
    BY <1>2, <1>3, <2>2, <2>3, StoreMore
<1>6. ASSUME NEW r \in recorded,
             thread' = [thread EXCEPT ![t] = IndexBatch(r, b)],
             mixed' = IF r = b THEN mixed ELSE mixed \cup Objects(b),
             UNCHANGED <<stored, recorded>>
      PROVE  IndexInv'
  <2>1. thread'[t] = IndexBatch(r, b)
    BY <1>6 DEF IndexInv, OperationsInv
  <2>2. Objects(b) \subseteq stored' \cup mixed'
    BY <1>6 DEF IndexInv, OperationsInv
  <2>3. OpsOk({}, stored' \cup mixed', thread'[t])
    BY <2>1, <2>2, <1>4
  <2>4. /\ stored \subseteq stored' /\ mixed \subseteq mixed'
        /\ stored' \in SUBSET Ids /\ mixed' \in SUBSET Ids
        /\ \A c \in recorded' : c \in Bundles /\ Objects(c) \subseteq stored'
    BY <1>1, <1>6 DEF IndexInv, OperationsInv
  <2> QED
    BY <1>2, <1>3, <2>3, <2>4, StoreMore
<1> QED
  BY <1>5, <1>6 DEF Push

(* A push that fails has stored some of its objects.                       *)
LEMMA PushFailsStep == ASSUME IndexInv, NEW b \in Bundles, PushFails(b) PROVE IndexInv'
<1>1. /\ Len(b) \in Nat
      /\ \A n \in 1..Len(b) : b[n] \in Ids /\ b[n] \in Objects(b)
  BY ObjectsOfBundle
<1>2. PICK n \in 0..Len(b) : stored' = stored \cup {b[k] : k \in 1..n}
  BY DEF PushFails
<1>3. /\ stored \subseteq stored' /\ mixed \subseteq mixed'
      /\ stored' \in SUBSET Ids /\ mixed' \in SUBSET Ids
  BY <1>1, <1>2 DEF PushFails, IndexInv, OperationsInv
<1>4. /\ DOMAIN thread' = Threads /\ UNCHANGED graph
      /\ \A t \in Threads : thread'[t] = thread[t]
      /\ \A c \in recorded' : c \in Bundles /\ Objects(c) \subseteq stored'
  BY <1>3 DEF PushFails, IndexInv, OperationsInv
<1> QED
  BY <1>3, <1>4, StoreMore

(* A write of the first operations, and the rest after it.                 *)
LEMMA SplitOk ==
  ASSUME NEW K, NEW T, NEW s, OpsOk(K, T, s), NEW n \in 0..Len(s)
  PROVE  /\ OpsOk(K, T, SubSeq(s, 1, n))
         /\ OpsOk(K \cup Nodes(SubSeq(s, 1, n)), T, SubSeq(s, n + 1, Len(s)))
<1> DEFINE u == SubSeq(s, 1, n)
           v == SubSeq(s, n + 1, Len(s))
           L == K \cup Nodes(u)
<1>1. PICK S : s \in Seq(S)
  BY DEF OpsOk
<1>2. Len(s) \in Nat
  BY <1>1
<1>3. /\ u \in Seq(S) /\ Len(u) = n /\ DOMAIN u = 1..n
      /\ \A m \in 1..n : u[m] = s[m]
  BY <1>1, <1>2
<1>4. /\ v \in Seq(S) /\ Len(v) = Len(s) - n
      /\ \A m \in 1..(Len(s) - n) : v[m] = s[n + m] /\ n + m \in 1..Len(s)
  <2>1. \A m \in (n + 1)..Len(s) : s[m] \in S
    BY <1>1
  <2>2. v \in Seq(S) /\ Len(v) = Len(s) - n
    BY <1>1, <1>2, <2>1
  <2>3. ASSUME NEW m \in 1..(Len(s) - n)
        PROVE  v[m] = s[n + m] /\ n + m \in 1..Len(s)
    BY <1>1, <1>2
  <2> QED
    BY <2>2, <2>3
<1> HIDE DEF u, v
<1>5. ASSUME NEW m \in 1..n, NEW x, Known(K, s, m, x)
      PROVE  Known(K, u, m, x)
  BY <1>2, <1>3, <1>5 DEF Known
<1>6. OpsOk(K, T, u)
  <2>1. \A m \in 1..n : m \in 1..Len(s)
    BY <1>2
  <2> QED
    BY <1>3, <1>5, <2>1 DEF OpsOk
<1>7. ASSUME NEW m \in 1..(Len(s) - n), NEW x, Known(K, s, n + m, x)
      PROVE  Known(L, v, m, x)
  <2>1. CASE x \in K
    BY <2>1 DEF Known
  <2>2. ASSUME NEW k \in 1..(n + m - 1), s[k].op = "node", s[k].node = x
        PROVE  Known(L, v, m, x)
    <3>1. CASE k <= n
      <4>1. k \in DOMAIN u /\ u[k] = s[k]
        BY <1>2, <1>3, <2>2, <3>1
      <4>2. x \in Nodes(u)
        BY <2>2, <4>1 DEF Nodes
      <4> QED
        BY <4>2 DEF Known
    <3>2. CASE k > n
      <4> DEFINE j == k - n
      <4>1. j \in 1..(m - 1) /\ j \in 1..(Len(s) - n) /\ n + j = k
        BY <1>2, <3>2
      <4> HIDE DEF j
      <4>2. v[j] = s[k]
        BY <1>4, <4>1
      <4> QED
        BY <2>2, <4>1, <4>2 DEF Known
    <3> QED
      BY <1>2, <3>1, <3>2
  <2> QED
    BY <1>7, <2>1, <2>2 DEF Known
<1>8. OpsOk(L, T, v)
  <2> HIDE DEF L
  <2>1. ASSUME NEW m \in 1..(Len(s) - n)
        PROVE  /\ v[m].op = "edge" => Known(L, v, m, v[m].from) /\ Known(L, v, m, v[m].to)
               /\ v[m].op = "node" => NodeTrue(T, v[m].node, v[m].object)
    <3> DEFINE k == n + m
    <3>1. v[m] = s[k] /\ k \in 1..Len(s)
      BY <1>4
    <3>2. \A x : Known(K, s, k, x) => Known(L, v, m, x)
      BY <1>7
    <3> HIDE DEF k
    <3> QED
      BY <3>1, <3>2 DEF OpsOk
  <2> QED
    BY <1>4, <2>1 DEF OpsOk
<1> QED
  BY <1>6, <1>8 DEF u, v

(* What is written keeps the graph whole and true.                         *)
LEMMA WriteOk ==
  ASSUME NEW g, NEW T, NEW s, GraphOk(g, T), OpsOk(g.nodes, T, s)
  PROVE  /\ GraphOk(WriteAll(g, s), T)
         /\ WriteAll(g, s).nodes = g.nodes \cup Nodes(s)
<1> DEFINE h == WriteAll(g, s)
<1>1. /\ h.nodes = g.nodes \cup Nodes(s)
      /\ h.edges = g.edges \cup Edges(s)
      /\ h.objects = {p \in g.objects : \A n \in Naming(s) : s[n].node # p[1]}
                       \cup {<<s[n].node, s[n].object>> : n \in
                              {k \in Naming(s) : \A m \in Naming(s) :
                                  s[m].node = s[k].node => m <= k}}
  BY DEF WriteAll
<1> HIDE DEF h
<1>2. Len(s) \in Nat /\ DOMAIN s = 1..Len(s)
  BY DEF OpsOk
<1>3. ASSUME NEW e \in Edges(s)
      PROVE  e[1] \in h.nodes /\ e[2] \in h.nodes
  <2>1. PICK n \in 1..Len(s) : s[n].op = "edge" /\ e = <<s[n].from, s[n].to>>
    BY <1>2 DEF Edges
  <2>2. ASSUME NEW x, Known(g.nodes, s, n, x)
        PROVE  x \in h.nodes
    <3>1. \A m \in 1..(n - 1) : m \in DOMAIN s
      BY <1>2
    <3> QED
      BY <1>1, <2>2, <3>1 DEF Known, Nodes
  <2> QED
    BY <2>1, <2>2 DEF OpsOk
<1>4. \A e \in h.edges : e[1] \in h.nodes /\ e[2] \in h.nodes
  BY <1>1, <1>3 DEF GraphOk
<1>5. Mirrored(h) \subseteq T
  <2>1. ASSUME NEW i \in Ids, Mirror(i) \in Nodes(s)
        PROVE  i \in T
    <3>1. PICK n \in 1..Len(s) : s[n].op = "node" /\ s[n].node = Mirror(i)
      BY <1>2, <2>1 DEF Nodes
    <3> QED
      BY <3>1 DEF OpsOk, NodeTrue
  <2> QED
    BY <1>1, <2>1 DEF GraphOk, Mirrored
<1>6. ASSUME NEW p \in h.objects
      PROVE  /\ p = <<p[1], p[2]>> /\ p[2] # NoObject /\ NodeTrue(T, p[1], p[2])
  <2>1. CASE p \in g.objects
    BY <2>1 DEF GraphOk
  <2>2. ASSUME NEW n \in Naming(s), p = <<s[n].node, s[n].object>>
        PROVE  /\ p = <<p[1], p[2]>> /\ p[2] # NoObject /\ NodeTrue(T, p[1], p[2])
    <3>1. n \in 1..Len(s) /\ s[n].op = "node" /\ s[n].object # NoObject
      BY <1>2 DEF Naming
    <3>2. NodeTrue(T, s[n].node, s[n].object)
      BY <3>1 DEF OpsOk
    <3> QED
      BY <2>2, <3>1, <3>2
  <2> QED
    BY <1>1, <2>1, <2>2
<1>7. ASSUME NEW p \in h.objects, NEW q \in h.objects, p[1] = q[1]
      PROVE  p = q
  <2> DEFINE Old(x) == x \in g.objects /\ \A n \in Naming(s) : s[n].node # x[1]
             New(x) == \E n \in Naming(s) :
                         /\ x = <<s[n].node, s[n].object>>
                         /\ \A m \in Naming(s) : s[m].node = s[n].node => m <= n
  <2>1. \A x \in h.objects : Old(x) \/ New(x)
    BY <1>1
  <2>2. ASSUME Old(p), Old(q)
        PROVE  p = q
    BY <1>7, <2>2 DEF GraphOk
  <2>3. \A x, y : Old(x) /\ New(y) => x[1] # y[1]
    OBVIOUS
  <2>4. ASSUME New(p), New(q)
        PROVE  p = q
    <3>1. PICK n \in Naming(s) :
            /\ p = <<s[n].node, s[n].object>>
            /\ \A m \in Naming(s) : s[m].node = s[n].node => m <= n
      BY <2>4
    <3>2. PICK k \in Naming(s) :
            /\ q = <<s[k].node, s[k].object>>
            /\ \A m \in Naming(s) : s[m].node = s[k].node => m <= k
      BY <2>4
    <3>3. n \in Nat /\ k \in Nat
      BY <1>2 DEF Naming
    <3>4. n <= k /\ k <= n
      BY <1>7, <3>1, <3>2
    <3> QED
      BY <3>1, <3>2, <3>3, <3>4
  <2> HIDE DEF Old, New
  <2> QED
    BY <1>7, <2>1, <2>2, <2>3, <2>4
<1> QED
  BY <1>1, <1>4, <1>5, <1>6, <1>7 DEF GraphOk, h

(* The next write of a thread, and the rest after it.                      *)
LEMMA BatchIs ==
  ASSUME IndexInv, NEW t \in Threads
  PROVE  /\ OpsOk(graph.nodes, stored \cup mixed, Batch(t))
         /\ OpsOk(graph.nodes \cup Nodes(Batch(t)), stored \cup mixed, Rest(t))
<1> DEFINE s == thread[t]
           n == IF Len(s) < IndexLimit THEN Len(s) ELSE IndexLimit
           T == stored \cup mixed
           K == graph.nodes
<1>1. OpsOk(K, T, s)
  BY DEF IndexInv, OperationsInv
<1>2. PICK S : s \in Seq(S)
  BY <1>1 DEF OpsOk
<1> HIDE DEF s, T, K
<1>3. Len(s) \in Nat /\ n \in 0..Len(s)
  BY <1>2, IndexConstants
<1>4. Batch(t) = SubSeq(s, 1, n)
  BY DEF Batch, s
<1> HIDE DEF n
<1>5. Len(Batch(t)) = n
  BY <1>2, <1>3, <1>4
<1>6. Rest(t) = SubSeq(s, n + 1, Len(s))
  BY <1>5 DEF Rest, s
<1>7. OpsOk(K, T, Batch(t)) /\ OpsOk(K \cup Nodes(Batch(t)), T, Rest(t))
  BY <1>1, <1>3, <1>4, <1>6, SplitOk
<1> QED
  BY <1>7 DEF K, T

(* A write, or none, after which a thread has r left to write.             *)
LEMMA WriteStep ==
  ASSUME IndexInv, NEW t \in Threads, UNCHANGED <<stored, recorded, mixed>>,
         graph' \in {graph, WriteAll(graph, Batch(t))}, NEW r,
         thread' = [thread EXCEPT ![t] = r],
         OpsOk(graph'.nodes, stored \cup mixed, r)
  PROVE  IndexInv'
<1> DEFINE T == stored \cup mixed
<1>1. GraphOk(graph', T) /\ graph.nodes \subseteq graph'.nodes
  <2>1. GraphOk(graph, T) /\ OpsOk(graph.nodes, T, Batch(t))
    BY BatchIs DEF IndexInv
  <2>2. CASE graph' = graph
    BY <2>1, <2>2
  <2>3. CASE graph' = WriteAll(graph, Batch(t))
    <3> HIDE DEF T
    <3> QED
      BY <2>1, <2>3, WriteOk
  <2> QED
    BY <2>2, <2>3
<1>2. ASSUME NEW u \in Threads
      PROVE  OpsOk(graph'.nodes, T, thread'[u])
  <2>1. CASE u = t
    BY <2>1 DEF IndexInv, OperationsInv
  <2>2. CASE u # t
    <3>1. thread'[u] = thread[u] /\ OpsOk(graph.nodes, T, thread[u])
      BY <2>2 DEF IndexInv, OperationsInv
    <3> HIDE DEF T
    <3> QED
      BY <3>1, <1>1, MoreKnown
  <2> QED
    BY <2>1, <2>2
<1>3. stored' \cup mixed' = T
  OBVIOUS
<1>4. OperationsInv'
  BY <1>2, <1>3 DEF IndexInv, OperationsInv, Objects
<1> QED
  BY <1>1, <1>3, <1>4 DEF IndexInv

(* A write that succeeds.                                                  *)
LEMMA IndexStep == ASSUME IndexInv, NEW t \in Threads, Index(t) PROVE IndexInv'
<1> DEFINE T == stored \cup mixed
<1>1. OpsOk(graph.nodes, T, Batch(t)) /\ OpsOk(graph.nodes \cup Nodes(Batch(t)), T, Rest(t))
  BY BatchIs
<1>2. GraphOk(graph, T)
  BY DEF IndexInv
<1> HIDE DEF T
<1>3. OpsOk(graph'.nodes, T, Rest(t))
  BY <1>1, <1>2, WriteOk DEF Index
<1> QED
  BY <1>3, WriteStep DEF Index, Advance, T

(* A write that fails, or whose answer is lost.                            *)
LEMMA IndexFailsStep == ASSUME IndexInv, NEW t \in Threads, IndexFails(t) PROVE IndexInv'
BY EmptyOk, WriteStep DEF IndexFails

(* Whatever the threads push and whichever writes fail, what is left to    *)
(* write may be written and the graph is whole and true.                   *)
THEOREM IndexInvariant == IndexSpec => []IndexInv
<1>1. IndexInit => IndexInv
  BY IndexedInit
<1>2. IndexInv /\ [IndexNext]_indexVars => IndexInv'
  <2> SUFFICES ASSUME IndexInv, [IndexNext]_indexVars
               PROVE  IndexInv'
    OBVIOUS
  <2>1. ASSUME NEW b \in Bundles, PushFails(b)
        PROVE  IndexInv'
    BY <2>1, PushFailsStep
  <2>2. ASSUME NEW t \in Threads, NEW b \in Bundles, Push(t, b)
        PROVE  IndexInv'
    BY <2>2, PushStep
  <2>3. ASSUME NEW t \in Threads, Index(t)
        PROVE  IndexInv'
    BY <2>3, IndexStep
  <2>4. ASSUME NEW t \in Threads, IndexFails(t)
        PROVE  IndexInv'
    BY <2>4, IndexFailsStep
  <2>5. CASE UNCHANGED indexVars
    BY <2>5 DEF indexVars, IndexInv, OperationsInv, Objects
  <2> QED
    BY <2>1, <2>2, <2>3, <2>4, <2>5 DEF IndexNext
<1> QED
  BY <1>1, <1>2, PTL DEF IndexSpec

(* The graph in KFDB never has an edge without its ends, nor the mirror of *)
(* an object that the relay does not have.                                 *)
THEOREM GraphIsSound == IndexSpec => []GraphSound
<1>1. IndexInv => GraphSound
  BY DEF IndexInv, GraphOk, GraphSound
<1> QED
  BY <1>1, IndexInvariant, PTL

(* A subset of equal size is the whole set.                                *)
LEMMA SameSize ==
  ASSUME NEW S, IsFiniteSet(S), NEW R \in SUBSET S, Cardinality(R) = Cardinality(S)
  PROVE  R = S
BY FS_Subset

(* The objects that patch nodes name are patches, on their own nodes.      *)
LEMMA PatchPairs ==
  ASSUME NEW g, NEW T, GraphOk(g, T), NEW i \in PatchObjects(g)
  PROVE  /\ i \in T /\ Kind[i] = "agent.patch"
         /\ <<Projection(i), i>> \in g.objects
<1>1. PICK p \in g.objects : p[1][1] = "agent.patch" /\ i = p[2]
  BY DEF PatchObjects
<1>2. p = <<p[1], i>> /\ i # NoObject /\ NodeTrue(T, p[1], i)
  BY <1>1 DEF GraphOk
<1>3. p[1] # Mirror(i)
  BY <1>1 DEF Mirror
<1>4. i \in T /\ p[1] = Projection(i)
  BY <1>2, <1>3 DEF NodeTrue
<1>5. Kind[i] = "agent.patch"
  BY <1>1, <1>4 DEF Projection
<1> QED
  BY <1>1, <1>2, <1>4, <1>5

(* The counts of build_kfdb_proof imply equality: the clone, the relay and *)
(* the mirrors are the same objects, and no two patches share a node.      *)
THEOREM ProofIsSound == IndexSpec => []ProofSound
<1>1. ASSUME IndexInv
      PROVE  ProofSound
  <2> SUFFICES ASSUME NEW clone \in SUBSET Ids, IsFiniteSet(clone), mixed = {},
                      stored \subseteq clone, KfdbProofOk(clone)
               PROVE  /\ stored = clone /\ Mirrored(graph) = clone
                      /\ \A i, j \in clone :
                           Kind[i] = "agent.patch" /\ Kind[j] = "agent.patch"
                             /\ Projection(i) = Projection(j) => i = j
    BY DEF ProofSound
  <2> DEFINE T == stored \cup mixed
             P == {i \in clone : Kind[i] = "agent.patch"}
  <2>1. GraphOk(graph, T) /\ T = stored
    BY <1>1 DEF IndexInv
  <2>2. Mirrored(graph) \subseteq stored
    BY <2>1 DEF GraphOk
  <2>3. Mirrored(graph) = clone
    BY <2>2, SameSize DEF KfdbProofOk
  <2>4. PatchObjects(graph) \subseteq P
    BY <2>1, PatchPairs
  <2>5. IsFiniteSet(P)
    BY FS_Subset
  <2>6. PatchObjects(graph) = P
    <3>1. Cardinality(PatchObjects(graph)) = Cardinality(P)
      BY DEF KfdbProofOk
    <3> HIDE DEF P
    <3> QED
      BY <3>1, <2>4, <2>5, SameSize
  <2>7. ASSUME NEW i \in P, NEW j \in P, Projection(i) = Projection(j)
        PROVE  i = j
    <3>1. <<Projection(i), i>> \in graph.objects /\ <<Projection(j), j>> \in graph.objects
      BY <2>1, <2>6, <2>7, PatchPairs
    <3>2. <<Projection(i), i>> = <<Projection(j), j>>
      BY <2>1, <2>7, <3>1 DEF GraphOk
    <3> QED
      BY <3>2
  <2> QED
    BY <2>2, <2>3, <2>7
<1> QED
  BY <1>1, IndexInvariant, PTL
=============================================================================
