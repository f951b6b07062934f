------------------------------- MODULE MCRelay ------------------------------
(* One connection with a few bytes each way.                               *)
EXTENDS Relay
=============================================================================
