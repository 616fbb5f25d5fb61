---------------------------- MODULE MCDeployment ----------------------------
(* The whole deployment on small sets, for TLC. *)
EXTENDS Deployment
==============================================================================
