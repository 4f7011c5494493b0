---------------------------- MODULE RelayClient ----------------------------
(***************************************************************************)
(* relay push, pull and status of several clones against one relay.  A     *)
(* push sends the objects of the clone in chunks, each under an            *)
(* idempotency key of its own, and stops at the first request that fails   *)
(* or whose answer is lost.  The relay is taken by its promise, which      *)
(* FileRelay and GcsRelay are about: a push is answered from the record of *)
(* its key, or else its objects are stored and then recorded.              *)
(***************************************************************************)
EXTENDS RelayContents, FiniteSets, Sequences

CONSTANTS
    Clones,
    Initial,    \* [Clones -> the objects a clone has at first]
    UserKey,    \* a key given with --idempotency-key
    ChunkSizes, \* values of --chunk-size
    Limits,     \* values of --limit
    MaxPushes,  \* bound: pushes started
    None

PushKeys == {<<"user", UserKey>>} \cup {<<"derived", objects>> : objects \in SUBSET Ids}
Pushes   == [objects : SUBSET Ids, size : ChunkSizes, at : Nat, key : PushKeys]

ASSUME ClientConstants ==
    /\ Initial \in [Clones -> SUBSET Ids]
    /\ \A c \in Clones : IsFiniteSet(Initial[c])
    /\ ChunkSizes \subseteq Nat \ {0} /\ Limits \subseteq Nat
    /\ MaxPushes \in Nat
    /\ UserKey # None
    /\ None \notin Pushes

VARIABLES
    local,      \* [Clones -> SUBSET Ids]  the object refs of the clone
    push,       \* [Clones -> the push under way, or None]
    records,    \* [key, objects] of the idempotency records
    pushed,     \* history: [Clones -> objects of pushes that reported ok]
    habits      \* history: the <<key given, chunk size>> of every push

vars == <<local, push, stored, records, pushed, mixed, habits>>
relay == <<stored, records>>
history == <<pushed, mixed, habits>>

Init ==
    /\ local = Initial
    /\ push = [c \in Clones |-> None]
    /\ stored = {}
    /\ records = {}
    /\ pushed = [c \in Clones |-> {}]
    /\ mixed = {}
    /\ habits = <<>>

----------------------------------------------------------------------------
(* relay push                                                              *)

(* The first n of a set of objects: both sides list objects by their ids. *)
FirstOf(n, objects) ==
    {i \in objects : Cardinality({j \in objects : j <= i}) <= n}

(* Mutant: the derived key names the repository only. *)
PushKeyRepo(given, objects) == IF given # None THEN <<"user", given>> ELSE <<"derived">>

(* The key is the user's or a hash of the object ids. *)
PushKey(given, objects) ==
    IF given # None THEN <<"user", given>> ELSE <<"derived", objects>>

(* div_ceil *)
ChunkCount(p) == (Cardinality(p.objects) + p.size - 1) \div p.size

(* The objects of chunk n. *)
Chunk(p) ==
    FirstOf(p.at * p.size, p.objects) \ FirstOf((p.at - 1) * p.size, p.objects)

ChunkKey(p) ==
    IF ChunkCount(p) <= 1 THEN <<p.key>> ELSE <<p.key, p.at, ChunkCount(p)>>

(* A push without objects makes no request. *)
StartPush(c, given, size) ==
    /\ push[c] = None /\ Len(habits) < MaxPushes
    /\ local[c] # {}
    /\ push' = [push EXCEPT ![c] = [objects |-> local[c], size |-> size, at |-> 1,
                                    key |-> PushKey(given, local[c])]]
    /\ habits' = Append(habits, <<given, size>>)
    /\ UNCHANGED <<local, relay, pushed, mixed>>

(* A request fails: the relay has not got it, or has stored some of the    *)
(* objects and failed.  The push is over, with an error.                   *)
ChunkFails(c) ==
    /\ push[c] # None
    /\ \E n \in 0..push[c].size : stored' = stored \cup FirstOf(n, Chunk(push[c]))
    /\ push' = [push EXCEPT ![c] = None]
    /\ UNCHANGED <<local, records, history>>

(* The relay answers from the record of the key, whatever objects are sent *)
(* this time, or stores and records them.                                  *)
Serve(c) ==
    LET key     == ChunkKey(push[c])
        objects == Chunk(push[c])
        found   == {r \in records : r.key = key}
    IN  \/ /\ found = {}
           /\ stored' = stored \cup objects
           /\ records' = records \cup {[key |-> key, objects |-> objects]}
           /\ UNCHANGED mixed
        \/ /\ found # {}
           /\ mixed' = IF \E r \in found : r.objects = objects
                         THEN mixed ELSE mixed \cup objects
           /\ UNCHANGED <<stored, records>>

(* The answer arrives: the next chunk follows, or the push reports ok. *)
SendChunk(c) ==
    /\ push[c] # None
    /\ Serve(c)
    /\ \/ /\ push[c].at < ChunkCount(push[c])
          /\ push' = [push EXCEPT ![c].at = @ + 1]
          /\ UNCHANGED pushed
       \/ /\ push[c].at >= ChunkCount(push[c])
          /\ push' = [push EXCEPT ![c] = None]
          /\ pushed' = [pushed EXCEPT ![c] = @ \cup push[c].objects]
    /\ UNCHANGED <<local, habits>>

(* The relay has done its part, but the client does not learn of it. *)
LoseAnswer(c) ==
    /\ push[c] # None
    /\ Serve(c)
    /\ push' = [push EXCEPT ![c] = None]
    /\ UNCHANGED <<local, pushed, habits>>

----------------------------------------------------------------------------
(* relay pull, and the agents' work                                        *)

(* Mutant: the clone does not say what it has. *)
MissingAll(c) == stored

(* The objects on the relay that the clone does not name as known. *)
Missing(c) == stored \ local[c]

(* relay pull --limit: the objects are written one by one; the command may *)
(* die on the way.                                                         *)
Pull(c, limit) ==
    /\ \E n \in 0..limit : local' = [local EXCEPT ![c] = @ \cup FirstOf(n, Missing(c))]
    /\ UNCHANGED <<push, relay, history>>

(* A pull that is not cut short. *)
WholePull(c, limit) ==
    /\ local' = [local EXCEPT ![c] = @ \cup FirstOf(limit, Missing(c))]
    /\ UNCHANGED <<push, relay, history>>

(* A command of the clone writes an object that no clone has so far. *)
Create(c, i) ==
    /\ \A d \in Clones : i \notin local[d]
    /\ i \notin stored
    /\ local' = [local EXCEPT ![c] = @ \cup {i}]
    /\ UNCHANGED <<push, relay, history>>

Next ==
    \E c \in Clones :
         \/ \E given \in {None, UserKey}, size \in ChunkSizes : StartPush(c, given, size)
         \/ SendChunk(c) \/ ChunkFails(c) \/ LoseAnswer(c)
         \/ \E limit \in Limits : Pull(c, limit)
         \/ \E i \in Ids : Create(c, i)

(* A request ends within the timeout of the client, and who repeats relay  *)
(* pull with a limit sees one get through once in a while.                 *)
Fairness ==
    \A c \in Clones :
         /\ WF_vars(SendChunk(c) \/ ChunkFails(c) \/ LoseAnswer(c))
         /\ \E limit \in Limits \ {0} : WF_vars(WholePull(c, limit))

Spec == Init /\ [][Next]_vars /\ Fairness

(* Mutant: a relay that has more objects is in sync too. *)
RelayStatusOkLoose(c) == Cardinality(local[c]) <= Cardinality(stored)

(* build_relay_status, also as a part of run_proof: only the counts are    *)
(* compared.                                                               *)
RelayStatusOk(c) == Cardinality(local[c]) = Cardinality(stored)

----------------------------------------------------------------------------
(* Everybody has used derived keys and one chunk size. *)
Disciplined == \A m, n \in DOMAIN habits : habits[m][1] = None /\ habits[m][2] = habits[n][2]

(* As long as keys are derived and the chunk size stays, no push is        *)
(* answered from the record of other objects, however many pushes failed   *)
(* half way and were repeated after more work; in any case, a push that    *)
(* reports ok leaves every object it listed on the relay, except those     *)
(* that were answered from the record of other objects.                    *)
PushedStored ==
    /\ Disciplined => mixed = {}
    /\ \A c \in Clones : pushed[c] \subseteq stored \cup mixed

(* relay status compares counts, and yet it can be believed by a clone     *)
(* whose pushes of all it has were answered for these very objects: when   *)
(* it says ok, the relay has the same objects.  (Two clones that have      *)
(* pushed nothing and have as many objects as the relay also see ok.)      *)
StatusSound ==
    \A c \in Clones :
        pushed[c] = local[c] /\ mixed = {} /\ RelayStatusOk(c) => stored = local[c]

(* A clone that repeats relay pull with a limit gets every object that is  *)
(* on the relay.                                                           *)
CaughtUp == \A c \in Clones, i \in Ids : i \in stored ~> i \in local[c]
=============================================================================
