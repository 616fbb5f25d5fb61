----------------------------- MODULE MCLifecycle -----------------------------
(* The program's start and stop with few requests and webhooks, for TLC. *)
EXTENDS Lifecycle
==============================================================================
