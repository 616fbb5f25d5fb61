----------------------------- MODULE MCSwitcher -----------------------------
(* The switcher on small sets, for TLC. *)
EXTENDS Switcher
==============================================================================
