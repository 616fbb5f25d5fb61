------------------------------ MODULE MCDrainer ------------------------------
(* The drainer on small sets, for TLC. *)
EXTENDS Drainer
==============================================================================
