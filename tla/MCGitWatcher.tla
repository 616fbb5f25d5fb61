---------------------------- MODULE MCGitWatcher ----------------------------
(* The git watcher on small sets, for TLC. *)
EXTENDS GitWatcher
==============================================================================
