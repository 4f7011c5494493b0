---------------------------- MODULE RelayObjects ----------------------------
(***************************************************************************)
(* What both relay stores have in common: the objects of a push, the       *)
(* signature policy they are held to, and the report of a push.            *)
(***************************************************************************)
EXTENDS Naturals, Sequences

CONSTANTS
    Hashes,     \* what contents may hash to
    Ids,        \* the object ids among them that are pushed
    Sigs,       \* signature lists an object may carry
    Unsigned,   \* the empty list
    Forged,     \* the lists with a signature that does not verify
    Keys,       \* idempotency keys
    Requests,   \* the push requests that clients send
    Enforce,    \* RICKYDATA_RELAY_ENFORCE_SIGNATURES is on
    Legacy      \* RICKYDATA_RELAY_LEGACY_UNSIGNED_REPOS names this repository

(* An object: the id it claims, the id its content hashes to, and its      *)
(* signatures, which the id does not cover.                                *)
Envelope == [claimed : Hashes, content : Hashes, sig : Sigs]

(* The part of a BundlePushReport that later pushes depend on. *)
Report == [ids : SUBSET Ids, accepted : Nat, duplicates : Nat]

ASSUME ObjectConstants ==
    /\ Ids \subseteq Hashes
    /\ Enforce \in BOOLEAN /\ Legacy \in BOOLEAN
    /\ Unsigned \in Sigs /\ Forged \subseteq Sigs \ {Unsigned}
    /\ \A r \in Requests :
         /\ r.key \in Keys /\ r.objects \in Seq(Envelope)
         /\ \A n \in DOMAIN r.objects : r.objects[n].claimed \in Ids

(* validate_object_with_signature_policy, with the flags that              *)
(* validate_stored_object_with_policy passes it.                           *)
Valid(e) ==
    /\ e.content = e.claimed
    /\ Enforce /\ ~Legacy => e.sig # Unsigned
    /\ Enforce => e.sig \notin Forged

IdsOf(r) == {r.objects[n].claimed : n \in DOMAIN r.objects}

(* Mutant: one valid object lets the whole bundle in. *)
AcceptsSome(r) == \E n \in DOMAIN r.objects : Valid(r.objects[n])

Accepts(r) == \A n \in DOMAIN r.objects : Valid(r.objects[n])
=============================================================================
