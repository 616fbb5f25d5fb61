------------------------------- MODULE Config -------------------------------
(***************************************************************************)
(* The configuration, internal/config/config.go: the durations by which    *)
(* drains, polls and checks go, from the file to the running program.  A   *)
(* field that a file leaves out is 0; that both backends have an URL is    *)
(* one field.  Names, paths and keys are left out, and so are the two      *)
(* durations of the metrics, which validate does not look at.              *)
(***************************************************************************)
EXTENDS Integers, TLC

CONSTANTS Second, Tenth,        \* the least interval and the least timeout
          Defaults              \* what setDefaults gives to a duration of 0

Durations == {"drain", "poll", "interval", "timeout"}
Configs == [urls : BOOLEAN, drain : Int, poll : Int, interval : Int, timeout : Int]

SetDefaults(c) ==
  [f \in DOMAIN c |-> IF f \in Durations /\ c[f] = 0 THEN Defaults[f] ELSE c[f]]

Valid(c) ==
  /\ c.urls
  /\ c.drain >= 0 /\ c.poll >= Second
  /\ c.interval >= Second /\ c.timeout >= Tenth /\ c.timeout < c.interval

ASSUME ConfigAssumption ==
  /\ Tenth \in Nat /\ Second \in Nat /\ 0 < Tenth /\ Tenth < Second
  /\ Defaults \in [Durations -> Nat] /\ Valid([urls |-> TRUE] @@ Defaults)

(* What Load returns without an error when the file is one of these. *)
Load(files) == {c \in {SetDefaults(file) : file \in files} : Valid(c)}

(* Application.Reload takes over the durations, and no other of these. *)
\* Mutant: the new timeout is forgotten.
ReloadedButTimeout(old, new) == [new EXCEPT !.urls = old.urls, !.timeout = old.timeout]
Reloaded(old, new) == [new EXCEPT !.urls = old.urls]
==============================================================================
