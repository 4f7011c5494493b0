---------------------------- MODULE RelayPromise ----------------------------
(***************************************************************************)
(* What a relay promises to its clients, without connections, files or     *)
(* requests to a bucket: under each name one object is stored at most      *)
(* once, under each idempotency key one report is recorded at most once,   *)
(* and only of objects that are stored, and every answer to a push is the  *)
(* report of its key.  RelayClient takes the relay by this.                *)
(***************************************************************************)
CONSTANTS
    Names,      \* object ids
    Objects,    \* [Names -> the objects that may be stored under the id]
    Keys,       \* idempotency keys
    Reports,    \* reports of a push; r.ids are the objects it vouches for
    Vacant      \* nothing stored or recorded

VARIABLES
    stored,     \* [Names -> the object stored under the id, or Vacant]
    recorded,   \* [Keys -> the report recorded under the key, or Vacant]
    answered    \* the <<key, report>> pairs that clients were told

PromiseInit ==
    /\ stored = [n \in Names |-> Vacant]
    /\ recorded = [k \in Keys |-> Vacant]
    /\ answered = {}

Store(n, o) ==
    /\ stored[n] = Vacant
    /\ stored' = [stored EXCEPT ![n] = o]
    /\ UNCHANGED <<recorded, answered>>

(* A report is recorded, unless it is there already, and may be told. *)
Record(k) ==
    LET r == recorded'[k] IN
    /\ recorded[k] \in {Vacant, r}
    /\ r \in Reports /\ \A n \in r.ids : stored[n] # Vacant
    /\ recorded' = [recorded EXCEPT ![k] = r]
    /\ answered' \in {answered, answered \cup {<<k, r>>}}
    /\ UNCHANGED stored

PromiseNext ==
    \/ \E n \in Names : \E o \in Objects[n] : Store(n, o)
    \/ \E k \in Keys : Record(k)

PromiseSpec == PromiseInit /\ [][PromiseNext]_<<stored, recorded, answered>>
=============================================================================
