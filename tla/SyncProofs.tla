----------------------------- MODULE SyncProofs -----------------------------
(***************************************************************************)
(* Proofs about Sync for any ids, wire forms and patches, and any number   *)
(* of signed updates under way.                                            *)
(***************************************************************************)
EXTENDS Sync, TLAPS

(* What a ref may point at. *)
Blobs == Objects \cup {None, Torn, Alien}

TypeOK ==
    /\ refs \in [Ids -> Blobs]
    /\ cache \in [Ids -> Objects \cup {None}]
    /\ remote \in [Ids -> Blobs]
    /\ held \in [Ids -> Blobs]
    /\ claims \subseteq [id : Ids, old : Blobs, new : Blobs]
    /\ viewer \in BOOLEAN
    /\ job.op = "listed" => job \in [op : {"listed"}, local : [Ids -> Blobs]]
    /\ job.op = "send" =>
         job \in [op : {"send"}, local : [Ids -> Blobs], known : [Ids -> Blobs]]

(* What is held is what the refs still point at or, once they were listed, *)
(* what they pointed at then.                                              *)
HeldInv ==
    /\ job.op \in {"list", "push"} => \A i \in Ids : held[i] \in {None, refs[i]}
    /\ job.op \in {"compare", "listed", "send"} =>
         \A i \in Ids : held[i] \in {None, job.local[i]}

(* What a push has found at the remote, or put there, is there still, or   *)
(* it does not count for what was signed.                                  *)
KnownInv ==
    job.op = "send" =>
      \A i \in Ids : held[i] # None /\ job.known[i] # None => remote[i] = job.known[i]

(* A host that grants nothing has no signed update under way. *)
ViewerInv == viewer => claims = {}

SyncInv == TypeOK /\ HeldInv /\ KnownInv /\ ViewerInv

----------------------------------------------------------------------------
(* What the operators give. *)
LEMMA WireFacts ==
    ASSUME NEW i \in Ids, NEW b \in Wires[i]
    PROVE  b \in Objects /\ b \in Blobs /\ b \notin {None, Torn, Alien}
BY SyncConstants DEF Objects, Blobs

LEMMA FilledFacts ==
    ASSUME TypeOK, NEW I
    PROVE  /\ Filled(I) \in [Ids -> Objects \cup {None}]
           /\ \A i \in Ids : Filled(I)[i] \in {None, cache[i], refs[i]}
BY DEF Filled, Intact, TypeOK

LEMMA PointFacts ==
    ASSUME TypeOK, NEW i \in Ids, NEW b \in Blobs, Point(i, b)
    PROVE  /\ refs' \in [Ids -> Blobs] /\ held' \in [Ids -> Blobs]
           /\ refs'[i] = b /\ \A k \in Ids \ {i} : refs'[k] = refs[k]
           /\ \A k \in Ids : held'[k] \in {None, held[k]}
           /\ job.op \in {"list", "push"} =>
                \A k \in Ids : held'[k] = None \/ refs'[k] = refs[k]
<1>1. /\ refs' = [refs EXCEPT ![i] = b]
      /\ held' = IF job.op \in {"list", "push"} /\ b # refs[i]
                   THEN [held EXCEPT ![i] = None] ELSE held
  BY DEF Point
<1>2. None \in Blobs
  BY DEF Blobs
<1>3. CASE job.op \in {"list", "push"} /\ b # refs[i]
  BY <1>1, <1>2, <1>3 DEF TypeOK
<1>4. CASE ~(job.op \in {"list", "push"} /\ b # refs[i])
  BY <1>1, <1>4 DEF TypeOK
<1> QED
  BY <1>3, <1>4

(* Every command that writes objects declares a mutation. *)
LEMMA WritersMutate ==
    ASSUME NEW cmd \in Writers \cup {"sync_pull"}
    PROVE  Mutates(cmd) # {}
<1>1. \E m \in Manifests : cmd \in DOMAIN m
  BY DEF Writers, Manifests, ObjectManifests, IntentManifests, AttemptManifests,
         RunManifests, PatchManifests, ProofManifests, SyncManifests
<1>2. \A m \in Manifests : cmd \in DOMAIN m => m[cmd] \ ReadCapabilities # {}
  BY DEF Writers, Manifests, ReadCapabilities, SetupManifests, RepoManifests,
         AttemptManifests, IntentManifests, ObjectManifests, PatchManifests,
         RunManifests, SyncManifests, ProofManifests, Looking, Reading, Recording
<1> QED
  BY <1>1, <1>2 DEF Mutates, Capabilities

----------------------------------------------------------------------------
LEMMA InitHolds == Init => SyncInv
<1> SUFFICES ASSUME Init PROVE SyncInv
  OBVIOUS
<1>1. TypeOK
  BY DEF Init, Idle, TypeOK, Blobs
<1> QED
  BY <1>1 DEF Init, SyncInv, HeldInv, KnownInv, ViewerInv, Idle

(* Steps that move no ref, start nothing and hold nothing. *)
LEMMA QuietStep ==
    ASSUME SyncInv, UNCHANGED <<refs, remote, job, held, viewer>>,
           cache' \in [Ids -> Objects \cup {None}], claims' \subseteq claims
    PROVE  SyncInv'
<1>1. TypeOK'
  BY DEF SyncInv, TypeOK
<1>2. HeldInv' /\ KnownInv' /\ ViewerInv'
  BY DEF SyncInv, HeldInv, KnownInv, ViewerInv
<1> QED
  BY <1>1, <1>2 DEF SyncInv

(* A ref moves, and is not held any longer. *)
LEMMA PointStep ==
    ASSUME SyncInv, NEW i \in Ids, NEW b \in Blobs, Point(i, b),
           cache' \in [Ids -> Objects \cup {None}],
           UNCHANGED <<remote, job, viewer>>, claims' \subseteq claims
    PROVE  SyncInv'
<1>1. /\ refs' \in [Ids -> Blobs] /\ held' \in [Ids -> Blobs]
      /\ \A k \in Ids : held'[k] \in {None, held[k]}
      /\ job.op \in {"list", "push"} =>
           \A k \in Ids : held'[k] = None \/ refs'[k] = refs[k]
  BY PointFacts DEF SyncInv
<1>2. TypeOK'
  BY <1>1 DEF SyncInv, TypeOK
<1>3. HeldInv' /\ KnownInv' /\ ViewerInv'
  BY <1>1 DEF SyncInv, HeldInv, KnownInv, ViewerInv
<1> QED
  BY <1>2, <1>3 DEF SyncInv

(* A command ends. *)
LEMMA DoneStep == SyncInv /\ Done => SyncInv'
<1> SUFFICES ASSUME SyncInv, Done PROVE SyncInv'
  OBVIOUS
<1>1. TypeOK'
  BY DEF Done, Idle, SyncInv, TypeOK, Blobs, clone
<1>2. HeldInv' /\ KnownInv' /\ ViewerInv'
  BY DEF Done, Idle, SyncInv, HeldInv, KnownInv, ViewerInv
<1> QED
  BY <1>1, <1>2 DEF SyncInv

(* A command begins with the refs that it finds. *)
LEMMA BeginStep ==
    ASSUME SyncInv, NEW j, Begin(j), UNCHANGED <<refs, remote, claims, viewer>>,
           cache' \in [Ids -> Objects \cup {None}],
           j.op \in {"list", "push"} \/ (j.op = "compare" /\ j.local = refs)
    PROVE  SyncInv'
<1>1. TypeOK'
  BY DEF Begin, SyncInv, TypeOK
<1>2. HeldInv' /\ KnownInv' /\ ViewerInv'
  BY DEF Begin, SyncInv, HeldInv, KnownInv, ViewerInv
<1> QED
  BY <1>1, <1>2 DEF SyncInv

LEMMA WriteHolds ==
    ASSUME SyncInv, NEW i \in Ids, NEW b \in Wires[i], Write(i, b)
    PROVE  SyncInv'
<1>1. b \in Objects /\ b \in Blobs
  BY WireFacts
<1>2. cache' \in [Ids -> Objects \cup {None}]
  BY <1>1 DEF Write, SyncInv, TypeOK
<1>3. CASE Point(i, b)
  BY <1>1, <1>2, <1>3, PointStep DEF Write
<1>4. CASE UNCHANGED <<refs, held>>
  BY <1>2, <1>4, QuietStep DEF Write, SyncInv, TypeOK
<1> QED
  BY <1>3, <1>4 DEF Write

(* Retiring a patch, reading and clearing the cache *)
LEMMA CacheHolds ==
    ASSUME SyncInv, (\E p \in Patches : Retire(p)) \/ (\E i \in Ids : Read(i)) \/ ClearCache
    PROVE  SyncInv'
<1>1. cache' \in [Ids -> Objects \cup {None}]
  BY FilledFacts DEF Retire, Read, ClearCache, SyncInv
<1>2. UNCHANGED <<refs, remote, claims, job, held, viewer>>
  BY DEF Retire, Read, ClearCache
<1> QED
  BY <1>1, <1>2, QuietStep DEF SyncInv, TypeOK

(* The steps of status, proof and sync status *)
LEMMA StatusHolds ==
    ASSUME SyncInv,
           StartProof \/ StartStatus \/ ListLocal \/ ReportParity \/ ReportDifference
    PROVE  SyncInv'
<1>1. CASE StartProof
  <2>1. cache' \in [Ids -> Objects \cup {None}]
    BY <1>1, FilledFacts DEF StartProof, SyncInv
  <2> QED
    BY <1>1, <2>1, BeginStep DEF StartProof
<1>2. CASE StartStatus
  <2>1. Begin([op |-> "compare", local |-> refs])
    BY <1>2 DEF StartStatus
  <2> QED
    BY <1>2, <2>1, BeginStep DEF StartStatus, clone, SyncInv, TypeOK
<1>3. CASE ListLocal
  <2>1. /\ job.op = "list" /\ job' = [op |-> "compare", local |-> refs]
        /\ UNCHANGED <<refs, cache, remote, claims, held, viewer>>
    BY <1>3 DEF ListLocal, clone
  <2>2. HeldInv' /\ KnownInv' /\ ViewerInv'
    BY <2>1 DEF SyncInv, HeldInv, KnownInv, ViewerInv
  <2> QED
    BY <2>1, <2>2 DEF SyncInv, TypeOK
<1>4. CASE ReportParity \/ ReportDifference
  BY <1>4, DoneStep DEF ReportParity, ReportDifference
<1> QED
  BY <1>1, <1>2, <1>3, <1>4

(* The steps of sync push but those that change the remote *)
LEMMA PushHolds ==
    ASSUME SyncInv, StartPush \/ PushLists \/ PushAsks \/ PushOk \/ PushRejected
    PROVE  SyncInv'
<1>1. CASE StartPush
  <2>1. Begin([op |-> "push"])
    BY <1>1 DEF StartPush
  <2> QED
    BY <1>1, <2>1, BeginStep DEF StartPush, clone, SyncInv, TypeOK
<1>2. CASE PushLists
  <2>1. /\ job.op = "push" /\ job' = [op |-> "listed", local |-> refs]
        /\ UNCHANGED <<refs, cache, remote, claims, held, viewer>>
    BY <1>2 DEF PushLists, clone
  <2>2. TypeOK'
    BY <2>1 DEF SyncInv, TypeOK
  <2>3. HeldInv' /\ KnownInv' /\ ViewerInv'
    BY <2>1 DEF SyncInv, HeldInv, KnownInv, ViewerInv
  <2> QED
    BY <2>2, <2>3 DEF SyncInv
<1>3. CASE PushAsks
  <2>1. PICK known :
          /\ known = [i \in Ids |-> IF job.local[i] = None THEN None ELSE remote[i]]
          /\ job' = [op |-> "send", local |-> job.local, known |-> known]
    BY <1>3 DEF PushAsks
  <2>2. job.op = "listed" /\ UNCHANGED <<refs, cache, remote, claims, held, viewer>>
    BY <1>3 DEF PushAsks, clone
  <2>3. known \in [Ids -> Blobs]
    BY <2>1 DEF SyncInv, TypeOK, Blobs
  <2>4. TypeOK'
    BY <2>1, <2>2, <2>3 DEF SyncInv, TypeOK
  <2>5. HeldInv' /\ KnownInv' /\ ViewerInv'
    BY <2>1, <2>2 DEF SyncInv, HeldInv, KnownInv, ViewerInv
  <2> QED
    BY <2>4, <2>5 DEF SyncInv
<1>4. CASE PushOk \/ PushRejected
  BY <1>4, DoneStep DEF PushOk, PushRejected
<1> QED
  BY <1>1, <1>2, <1>3, <1>4

(* The remote takes a ref: it had none, and now has what git listed. *)
LEMMA SendHolds ==
    ASSUME SyncInv, NEW i \in Ids, SendRef(i)
    PROVE  SyncInv'
<1>1. /\ job.op = "send" /\ job.local[i] # None
      /\ job \in [op : {"send"}, local : [Ids -> Blobs], known : [Ids -> Blobs]]
      /\ UNCHANGED <<refs, cache, claims, held, viewer>>
  BY DEF SendRef, clone, SyncInv, TypeOK
<1>2. PICK b \in Blobs : b = job.local[i]
  BY <1>1
<1>3. /\ job' = [job EXCEPT !.known = [job.known EXCEPT ![i] = b]]
      /\ remote' = [remote EXCEPT ![i] = b]
  BY <1>2 DEF SendRef
<1>4. /\ job' \in [op : {"send"}, local : [Ids -> Blobs], known : [Ids -> Blobs]]
      /\ job'.op = "send" /\ job'.local = job.local
      /\ \A k \in Ids : job'.known[k] = IF k = i THEN b ELSE job.known[k]
      /\ remote' \in [Ids -> Blobs]
      /\ \A k \in Ids : remote'[k] = IF k = i THEN b ELSE remote[k]
  BY <1>1, <1>3 DEF SyncInv, TypeOK
<1>5. TypeOK'
  BY <1>1, <1>4 DEF SyncInv, TypeOK
<1>6. HeldInv' /\ KnownInv' /\ ViewerInv'
  BY <1>1, <1>4 DEF SyncInv, HeldInv, KnownInv, ViewerInv
<1> QED
  BY <1>5, <1>6 DEF SyncInv

(* Another clone pushes where there is nothing, so nowhere that git found  *)
(* or put something that counts for what was signed.                       *)
LEMMA OthersHold ==
    ASSUME SyncInv, NEW i \in Ids, NEW b \in Wires[i], OthersPush(i, b)
    PROVE  SyncInv'
<1>1. /\ remote[i] = None /\ UNCHANGED <<refs, cache, claims, job, held, viewer>>
      /\ remote' = [remote EXCEPT ![i] = b] /\ b \in Blobs
  BY WireFacts DEF OthersPush, clone
<1>2. /\ remote' \in [Ids -> Blobs]
      /\ \A k \in Ids \ {i} : remote'[k] = remote[k]
  BY <1>1 DEF SyncInv, TypeOK
<1>3. TypeOK'
  BY <1>1, <1>2 DEF SyncInv, TypeOK
<1>4. HeldInv' /\ KnownInv' /\ ViewerInv'
  BY <1>1, <1>2 DEF SyncInv, HeldInv, KnownInv, ViewerInv
<1> QED
  BY <1>3, <1>4 DEF SyncInv

LEMMA TamperHolds ==
    ASSUME SyncInv, NEW i \in Ids, NEW b \in {Torn, Alien}, Tamper(i, b)
    PROVE  SyncInv'
<1>1. /\ UNCHANGED <<refs, cache, claims, job, viewer>>
      /\ remote' = [remote EXCEPT ![i] = b] /\ b \in Blobs /\ None \in Blobs
      /\ held' = IF job.op = "send" /\ job.known[i] # None
                   THEN [held EXCEPT ![i] = None] ELSE held
  BY DEF Tamper, clone, Blobs
<1>2. /\ remote' \in [Ids -> Blobs]
      /\ \A k \in Ids \ {i} : remote'[k] = remote[k]
  BY <1>1 DEF SyncInv, TypeOK
<1>3. /\ held' \in [Ids -> Blobs]
      /\ \A k \in Ids : held'[k] \in {None, held[k]}
      /\ job.op = "send" /\ job.known[i] # None => held'[i] = None
  <2>1. CASE job.op = "send" /\ job.known[i] # None
    BY <1>1, <2>1 DEF SyncInv, TypeOK
  <2>2. CASE ~(job.op = "send" /\ job.known[i] # None)
    BY <1>1, <2>2 DEF SyncInv, TypeOK
  <2> QED
    BY <2>1, <2>2
<1>4. TypeOK'
  BY <1>1, <1>2, <1>3 DEF SyncInv, TypeOK
<1>5. HeldInv' /\ KnownInv' /\ ViewerInv'
  BY <1>1, <1>2, <1>3 DEF SyncInv, HeldInv, KnownInv, ViewerInv
<1> QED
  BY <1>4, <1>5 DEF SyncInv

(* A pull replaces what a local ref points at. *)
LEMMA FetchHolds ==
    ASSUME SyncInv, NEW i \in Ids, FetchRef(i)
    PROVE  SyncInv'
<1>1. remote[i] \in Blobs /\ Point(i, remote[i])
  BY DEF FetchRef, SyncInv, TypeOK
<1> QED
  BY <1>1, PointStep DEF FetchRef, SyncInv, TypeOK

(* The steps of a signed ref update *)
LEMMA ClaimHolds ==
    ASSUME SyncInv,
           \/ \E i \in Ids : \E old \in Wires[i] \cup {None}, new \in Wires[i] :
                CheckExpectation(i, old, new)
           \/ \E c \in claims : MoveRef(c) \/ DropClaim(c)
    PROVE  SyncInv'
<1>1. ASSUME NEW i \in Ids, NEW old \in Wires[i] \cup {None}, NEW new \in Wires[i],
             CheckExpectation(i, old, new)
      PROVE  SyncInv'
  <2>1. old \in Blobs /\ new \in Blobs
    BY WireFacts DEF Blobs
  <2>2. TypeOK'
    BY <1>1, <2>1 DEF CheckExpectation, clone, SyncInv, TypeOK
  <2>3. HeldInv' /\ KnownInv' /\ ViewerInv'
    BY <1>1 DEF CheckExpectation, clone, SyncInv, HeldInv, KnownInv, ViewerInv
  <2> QED
    BY <2>2, <2>3 DEF SyncInv
<1>2. ASSUME NEW c \in claims, MoveRef(c) PROVE SyncInv'
  <2>1. c.id \in Ids /\ c.new \in Blobs /\ Point(c.id, c.new)
    BY <1>2 DEF MoveRef, SyncInv, TypeOK
  <2> QED
    BY <1>2, <2>1, PointStep DEF MoveRef, SyncInv, TypeOK
<1>3. ASSUME NEW c \in claims, DropClaim(c) PROVE SyncInv'
  BY <1>3, QuietStep DEF DropClaim, clone, SyncInv, TypeOK
<1> QED
  BY <1>1, <1>2, <1>3

LEMMA NextHolds == SyncInv /\ [Next]_vars => SyncInv'
<1>1. ASSUME SyncInv, UNCHANGED vars PROVE SyncInv'
  BY <1>1, QuietStep DEF vars, clone, SyncInv, TypeOK
<1>2. ASSUME SyncInv, Restrict PROVE SyncInv'
  BY <1>2 DEF Restrict, clone, SyncInv, TypeOK, HeldInv, KnownInv, ViewerInv
<1>3. ASSUME SyncInv, Abort PROVE SyncInv'
  BY <1>3, DoneStep DEF Abort
<1>4. ASSUME SyncInv, NEW i \in Ids,
             \/ \E b \in Wires[i] : Write(i, b) \/ OthersPush(i, b)
             \/ \E b \in {Torn, Alien} : Tamper(i, b)
             \/ Read(i) \/ FetchRef(i) \/ SendRef(i)
             \/ \E old \in Wires[i] \cup {None}, new \in Wires[i] :
                  CheckExpectation(i, old, new)
      PROVE  SyncInv'
  <2>1. CASE \E b \in Wires[i] : Write(i, b)
    BY <1>4, <2>1, WriteHolds
  <2>2. CASE SendRef(i) \/ FetchRef(i)
    BY <1>4, <2>2, SendHolds, FetchHolds
  <2>3. CASE \E b \in Wires[i] : OthersPush(i, b)
    BY <1>4, <2>3, OthersHold
  <2>4. CASE \E b \in {Torn, Alien} : Tamper(i, b)
    BY <1>4, <2>4, TamperHolds
  <2>5. CASE Read(i)
    BY <1>4, <2>5, CacheHolds
  <2>6. CASE \E old \in Wires[i] \cup {None}, new \in Wires[i] :
               CheckExpectation(i, old, new)
    BY <1>4, <2>6, ClaimHolds
  <2> QED
    BY <1>4, <2>1, <2>2, <2>3, <2>4, <2>5, <2>6
<1>5. ASSUME SyncInv, \E c \in claims : MoveRef(c) \/ DropClaim(c) PROVE SyncInv'
  BY <1>5, ClaimHolds
<1>6. ASSUME SyncInv,
             (\E p \in Patches : Retire(p)) \/ StartProof \/ StartStatus \/ ListLocal
               \/ ReportParity \/ ReportDifference \/ ClearCache
               \/ StartPush \/ PushLists \/ PushAsks \/ PushOk \/ PushRejected
      PROVE  SyncInv'
  BY <1>6, CacheHolds, StatusHolds, PushHolds
<1> QED
  BY <1>1, <1>2, <1>3, <1>4, <1>5, <1>6 DEF Next

LEMMA SyncInvariant == Spec => []SyncInv
  BY InitHolds, NextHolds, PTL DEF Spec

----------------------------------------------------------------------------
(* When build_sync_verify answers "ok", every object ref holds the object  *)
(* it is named after and the diff of every patch to review can be read,    *)
(* although verify_cached_object looks at the cache first.                 *)
THEOREM VerifyIsSound == Spec => []VerifySound
<1>1. SyncInv => VerifySound
  <2> SUFFICES ASSUME SyncInv, VerifyOk
               PROVE  /\ \A i \in Ids : refs[i] # None => Intact(refs[i])
                      /\ \A p \in Patches \ retired : refs[p] # None =>
                           Intact(refs[DiffOf[p]]) \/ Intact(cache[DiffOf[p]])
    BY DEF VerifySound
  <2>1. \A i \in Ids : ObjectValid(i) =>
           /\ Intact(refs[i]) \/ Intact(cache[i])
           /\ refs[i] # None => Intact(refs[i])
    BY DEF ObjectValid, Intact, SyncInv, TypeOK
  <2>2. \A p \in Patches : DiffOf[p] \in Ids
    BY SyncConstants
  <2> QED
    BY <2>1, <2>2 DEF VerifyOk
<1> QED
  BY <1>1, SyncInvariant, PTL

(* When status or proof reports parity, the remote holds what was verified *)
(* for every ref that no one moved before it was listed.                   *)
THEOREM ParityIsTrue == Spec => []ParityTrue
<1>1. SyncInv => ParityTrue
  BY DEF SyncInv, HeldInv, ParityTrue, Parity
<1> QED
  BY <1>1, SyncInvariant, PTL

(* When git push exits with 0 in sync_refs, the remote holds what          *)
(* build_signed_ref_expectations signed, of every ref that did not move    *)
(* until git listed it and was not replaced where git had found or put it: *)
(* what was signed is what git listed (HeldInv), and what git knows the    *)
(* remote to have it has still, whatever other clones push and wherever    *)
(* the local refs move meanwhile (KnownInv).                               *)
THEOREM AttestationsHold == Spec => []AttestedPushed
<1>1. SyncInv => AttestedPushed
  <2> SUFFICES ASSUME SyncInv, job.op = "send", Accepted(job.local, job.known),
                      NEW i \in Ids, held[i] # None
               PROVE  remote[i] = held[i]
    BY DEF AttestedPushed
  <2>1. held[i] = job.local[i]
    BY DEF SyncInv, HeldInv
  <2>2. job.known[i] = job.local[i]
    BY <2>1 DEF Accepted
  <2>3. remote[i] = job.known[i]
    BY <2>1, <2>2 DEF SyncInv, KnownInv
  <2> QED
    BY <2>1, <2>2, <2>3
<1> QED
  BY <1>1, SyncInvariant, PTL

(* A ref that is set is replaced only by what a pull brings or by a signed *)
(* update that expects the value it replaces.                              *)
THEOREM NoUpdateIsLost == Spec => NoLostUpdate
<1>1. SyncInv /\ [Next]_vars =>
        [\A i \in Ids :
           refs[i] # None /\ refs'[i] # refs[i] =>
             \/ refs'[i] = remote[i]
             \/ [id |-> i, old |-> refs[i], new |-> refs'[i]] \in claims]_vars
  <2> SUFFICES ASSUME SyncInv, Next, NEW i \in Ids, refs[i] # None, refs'[i] # refs[i]
               PROVE  \/ refs'[i] = remote[i]
                      \/ [id |-> i, old |-> refs[i], new |-> refs'[i]] \in claims
    OBVIOUS
  <2>1. \/ \E k \in Ids : \E b \in Wires[k] : Write(k, b)
        \/ \E k \in Ids : FetchRef(k)
        \/ \E c \in claims : MoveRef(c)
    BY DEF Next, OthersPush, Tamper, Read, SendRef, CheckExpectation, DropClaim,
           Retire, StartProof, StartStatus, ListLocal, ReportParity,
           ReportDifference, StartPush, PushLists, PushAsks, PushOk, PushRejected, Abort,
           Done, ClearCache, Restrict, clone
  <2>2. ASSUME NEW k \in Ids, NEW b \in Wires[k], Write(k, b) PROVE FALSE
    BY <2>2, WireFacts, PointFacts DEF Write, SyncInv
  <2>3. ASSUME NEW k \in Ids, FetchRef(k) PROVE refs'[i] = remote[i]
    <3>1. remote[k] \in Blobs /\ Point(k, remote[k])
      BY <2>3 DEF FetchRef, SyncInv, TypeOK
    <3> QED
      BY <3>1, PointFacts DEF SyncInv
  <2>4. ASSUME NEW c \in claims, MoveRef(c)
        PROVE  [id |-> i, old |-> refs[i], new |-> refs'[i]] \in claims
    <3>1. /\ c.id \in Ids /\ c.new \in Blobs /\ Point(c.id, c.new) /\ refs[c.id] = c.old
          /\ c = [id |-> c.id, old |-> c.old, new |-> c.new]
      BY <2>4 DEF MoveRef, Matches, SyncInv, TypeOK
    <3>2. c.id = i /\ refs'[i] = c.new
      BY <3>1, PointFacts DEF SyncInv
    <3> QED
      BY <3>1, <3>2
  <2> QED
    BY <2>1, <2>2, <2>3, <2>4
<1> QED
  BY <1>1, SyncInvariant, PTL DEF Spec, NoLostUpdate

(* A host that grants only what the manifests call reading lets no command *)
(* move a ref, retire a patch or change what the cache says.               *)
THEOREM ViewersAreHarmless == Spec => ViewerHarmless
<1>1. SyncInv /\ [Next]_vars =>
        [viewer =>
           /\ refs' = refs /\ retired' = retired
           /\ \A i \in Ids : cache'[i] \in {None, cache[i], refs[i]}]_vars
  <2> SUFFICES ASSUME SyncInv, Next, viewer
               PROVE  /\ refs' = refs /\ retired' = retired
                      /\ \A i \in Ids : cache'[i] \in {None, cache[i], refs[i]}
    OBVIOUS
  <2>1. \A cmd \in Writers \cup {"sync_pull"} : ~Granted(cmd)
    BY WritersMutate DEF Granted
  <2>2. claims = {}
    BY DEF SyncInv, ViewerInv
  <2>3. ASSUME (\E i \in Ids : Read(i)) \/ StartProof \/ ClearCache
        PROVE  /\ refs' = refs /\ retired' = retired
               /\ \A i \in Ids : cache'[i] \in {None, cache[i], refs[i]}
    BY <2>3, FilledFacts DEF Read, StartProof, ClearCache, SyncInv
  <2>4. ASSUME UNCHANGED clone
        PROVE  /\ refs' = refs /\ retired' = retired
               /\ \A i \in Ids : cache'[i] \in {None, cache[i], refs[i]}
    BY <2>4 DEF clone
  <2>5. \A p \in Patches : ~Retire(p)
    BY <2>1 DEF Retire, Writers
  <2>6. \A i \in Ids : ~FetchRef(i) /\ \A b \in Wires[i] : ~Write(i, b)
    BY <2>1 DEF FetchRef, Write
  <2> QED
    BY <2>2, <2>3, <2>4, <2>5, <2>6
       DEF Next, OthersPush, Tamper, SendRef, CheckExpectation, StartStatus, ListLocal,
           ReportParity, ReportDifference, StartPush, PushLists, PushAsks, PushOk,
           PushRejected, Abort, Done, Restrict
<1> QED
  BY <1>1, SyncInvariant, PTL DEF Spec, ViewerHarmless
=============================================================================
