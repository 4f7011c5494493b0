--------------------------- MODULE MCRelayClient ---------------------------
(* TLC instance of RelayClient. *)
EXTENDS RelayClient, TLC

CONSTANTS a, b

(* One clone has most of the objects at first. *)
MCInitial == (a :> {1, 2, 4}) @@ (b :> {})
=============================================================================
