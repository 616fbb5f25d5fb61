----------------------------- MODULE MCSSEBroker -----------------------------
(* The broker on small sets, for TLC. *)
EXTENDS SSEBroker
==============================================================================
