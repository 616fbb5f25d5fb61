------------------------------ MODULE DrainGate ------------------------------
(***************************************************************************)
(* What the connection drainer promises (internal/proxy/drainer.go), with  *)
(* no mutex, WaitGroup or channel in it: a gate that requests pass.  A     *)
(* shut gate reopens only after it has been seen empty, so no request that *)
(* was inside when the gate was shut is still there when a new one enters. *)
(***************************************************************************)
CONSTANTS Requests      \* the requests that may be inside at once

VARIABLES gate,         \* "open", "shut", or "drained": shut and seen empty
          inflight      \* the requests inside

gvars == <<gate, inflight>>

GateTypeOK == /\ gate \in {"open", "shut", "drained"}
              /\ inflight \subseteq Requests

Init == gate = "open" /\ inflight = {}

Admit(r) == /\ gate = "open"
            /\ r \notin inflight
            /\ inflight' = inflight \cup {r}
            /\ UNCHANGED gate

Leave(r) == /\ r \in inflight
            /\ inflight' = inflight \ {r}
            /\ UNCHANGED gate

Shut == gate = "open" /\ gate' = "shut" /\ UNCHANGED inflight

Quiesce == /\ gate = "shut"
           /\ inflight = {}
           /\ gate' = "drained"
           /\ UNCHANGED inflight

Reopen == gate = "drained" /\ gate' = "open" /\ UNCHANGED inflight

Next == \/ \E r \in Requests : Admit(r) \/ Leave(r)
        \/ Shut \/ Quiesce \/ Reopen

Spec == Init /\ [][Next]_gvars

(* A shut gate that is empty is noticed to be. *)
FairSpec == Spec /\ WF_gvars(Quiesce)
==============================================================================
