---------------------------- MODULE GcsRequests ----------------------------
(***************************************************************************)
(* The server threads of GcsRelayStore and the tries of their HTTP         *)
(* requests (send_with_retry), shared by the model of what the requests do *)
(* to the bucket (GcsRelay) and that of their course in time               *)
(* (GcsTransport).                                                         *)
(***************************************************************************)
EXTENDS Naturals

CONSTANTS
    Conns,      \* requests served at the same time
    Tries,      \* tries of one request: 3 in send_with_retry
    None

ASSUME RetryConstants == Tries \in Nat \ {0}

VARIABLES
    pc,         \* what each connection is waiting for
    try         \* the number of the current try

(* The next request begins with its first try. *)
Goto(c, l) ==
    /\ pc' = [pc EXCEPT ![c] = l]
    /\ try' = [try EXCEPT ![c] = 1]
=============================================================================
