------------------------------- MODULE MCProxy -------------------------------
(* The proxy on small sets, for TLC. *)
EXTENDS Proxy
==============================================================================
