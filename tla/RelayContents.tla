--------------------------- MODULE RelayContents ---------------------------
(***************************************************************************)
(* The objects of one repository on a relay, as its clients and its index  *)
(* see them: a push stores the objects it sends, or is answered from the   *)
(* idempotency record of its key, which may be one of other objects.       *)
(***************************************************************************)
EXTENDS Naturals

CONSTANT
    Ids         \* object ids (numbers: they are listed in sorted order)

ASSUME IdConstants == Ids \subseteq Nat

VARIABLES
    stored,     \* the objects on the relay
    mixed       \* history: objects sent under the key of another bundle
=============================================================================
