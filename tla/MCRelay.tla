------------------------------- MODULE MCRelay -------------------------------
(* An instance of Relay for TLC: the finish reasons that a request may end with. *)
EXTENDS Relay

MCReason == {"none", "stop", "failed", "client_disconnect", "request_cancelled", "upstream_timeout"}
=============================================================================
