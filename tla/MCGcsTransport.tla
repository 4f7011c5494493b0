--------------------------- MODULE MCGcsTransport ---------------------------
(* TLC instance of GcsTransport. *)
EXTENDS GcsTransport
=============================================================================
