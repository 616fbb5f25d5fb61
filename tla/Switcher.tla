------------------------------ MODULE Switcher ------------------------------
(***************************************************************************)
(* The switch orchestrator, internal/switcher/switcher.go: Switch checks,  *)
(* under s.mu, that the target is another one than the active and healthy, *)
(* releases s.mu, lets the proxy switch, and records the event under s.mu  *)
(* again.  Several calls run at once: one per goroutine that reports a tag *)
(* change.  The health of the backends changes at any time.                *)
(***************************************************************************)
EXTENDS Proxy, Sequences

CONSTANTS HistoryCap,   \* the events kept in the history; 100 in the code
          MaxSwitches   \* bound on the events recorded, for TLC

ASSUME HistoryCapAssumption == HistoryCap \in Nat \ {0}

VARIABLES healthy,      \* per target, health.IsHealthy
          phase,        \* per caller, how far its Switcher.Switch is
          goal, from,   \* per caller, the parameter target and the local from
          result,       \* per caller, what its last call returned
          switchCount, history,
          changes       \* ghost: how often the active target has changed

callVars == <<phase, goal, from, result>>
recordVars == <<switchCount, history>>
svars == <<healthy, callVars, recordVars, changes>>
allVars == <<vars, svars>>

Phases == {"idle", "calling", "switching", "returned"}
Event == [from : Targets, to : Targets]

SwitcherInit ==
  /\ ProxyInit
  /\ healthy = [t \in Targets |-> FALSE]
  /\ phase = [c \in Callers |-> "idle"]
  /\ goal = [c \in Callers |-> NoTarget]
  /\ from = [c \in Callers |-> NoTarget]
  /\ result = [c \in Callers |-> "none"]
  /\ switchCount = 0
  /\ history = <<>>
  /\ changes = 0

------------------------------------------------------------------------------
(* The first section under s.mu.  A call that has nothing to do, or a      *)
(* target that is not healthy, ends there.                                 *)

Answer(c, answer) ==
  /\ result' = [result EXCEPT ![c] = answer]
  /\ UNCHANGED <<vars, healthy, phase, goal, from, recordVars, changes>>

CheckRefused(c, target) ==
  /\ phase[c] = "idle"
  /\ \/ activeTarget = target /\ Answer(c, "noop")
     \/ activeTarget # target /\ ~healthy[target] /\ Answer(c, "unhealthy")

\* Mutant: the active target is not compared with the one asked for.
Accept(c, target) ==
  /\ phase[c] = "idle"
  /\ switchCount < MaxSwitches
  /\ healthy[target]
  /\ phase' = [phase EXCEPT ![c] = "calling"]
  /\ goal' = [goal EXCEPT ![c] = target]
  /\ from' = [from EXCEPT ![c] = activeTarget]
  /\ UNCHANGED <<vars, healthy, result, recordVars, changes>>

\* Mutant: from is not read.
AcceptWithoutFrom(c, target) ==
  /\ phase[c] = "idle"
  /\ switchCount < MaxSwitches
  /\ activeTarget # target
  /\ healthy[target]
  /\ phase' = [phase EXCEPT ![c] = "calling"]
  /\ goal' = [goal EXCEPT ![c] = target]
  /\ UNCHANGED <<vars, healthy, from, result, recordVars, changes>>

CheckAccepted(c, target) == activeTarget # target /\ Accept(c, target)

(* proxy.Switch reads the active target once more. *)
CallProxy(c) ==
  /\ phase[c] = "calling"
  /\ \/ /\ SwitchStart(c, goal[c])
        /\ phase' = [phase EXCEPT ![c] = "switching"]
     \/ /\ activeTarget = goal[c]
        /\ phase' = [phase EXCEPT ![c] = "returned"]
        /\ UNCHANGED vars
  /\ UNCHANGED <<healthy, goal, from, result, recordVars, changes>>

ProxySwitches(c) ==
  /\ phase[c] = "switching"
  /\ SwitchSteps(c)
  /\ phase' = IF pc'[c] = "idle" THEN [phase EXCEPT ![c] = "returned"] ELSE phase
  /\ changes' = IF activeTarget' # activeTarget THEN changes + 1 ELSE changes
  /\ UNCHANGED <<healthy, goal, from, result, recordVars>>

Trim(h) == IF Len(h) > HistoryCap THEN Tail(h) ELSE h

\* Mutant: the event is recorded with the target the proxy has now.
RecordActive(c) ==
  /\ phase[c] = "returned"
  /\ switchCount' = switchCount + 1
  /\ history' = Trim(Append(history, [from |-> activeTarget, to |-> goal[c]]))
  /\ phase' = [phase EXCEPT ![c] = "idle"]
  /\ result' = [result EXCEPT ![c] = "switched"]
  /\ UNCHANGED <<vars, healthy, goal, from, changes>>

\* Mutant: the event is recorded only if its target is active still.
RecordIfCurrent(c) ==
  /\ phase[c] = "returned"
  /\ IF activeTarget = goal[c]
     THEN /\ switchCount' = switchCount + 1
          /\ history' = Trim(Append(history, [from |-> from[c], to |-> goal[c]]))
     ELSE UNCHANGED recordVars
  /\ phase' = [phase EXCEPT ![c] = "idle"]
  /\ result' = [result EXCEPT ![c] = "switched"]
  /\ UNCHANGED <<vars, healthy, goal, from, changes>>

(* The second section under s.mu, the callback for the metrics, and the    *)
(* return.  proxy.Switch never fails, so every event is a success.         *)
Record(c) ==
  /\ phase[c] = "returned"
  /\ switchCount' = switchCount + 1
  /\ history' = Trim(Append(history, [from |-> from[c], to |-> goal[c]]))
  /\ phase' = [phase EXCEPT ![c] = "idle"]
  /\ result' = [result EXCEPT ![c] = "switched"]
  /\ UNCHANGED <<vars, healthy, goal, from, changes>>

(* A health check stores another answer. *)
HealthChanges(target) ==
  /\ healthy' = [healthy EXCEPT ![target] = ~@]
  /\ UNCHANGED <<vars, callVars, recordVars, changes>>

------------------------------------------------------------------------------
SwitchCall(c) == CallProxy(c) \/ ProxySwitches(c) \/ Record(c)
Environment == \/ \E r \in Requests : ServeHTTP(r) /\ UNCHANGED svars
               \/ \E d \in Dones : Background(d) /\ UNCHANGED svars
               \/ \E t \in Targets : HealthChanges(t)

SwitcherNext ==
  \/ \E c \in Callers :
       \/ \E t \in Targets : CheckRefused(c, t) \/ CheckAccepted(c, t)
       \/ SwitchCall(c)
  \/ Environment

SwitcherSpec == SwitcherInit /\ [][SwitcherNext]_allVars

------------------------------------------------------------------------------
(* Properties *)

(* Type invariant of the switcher and its proxy; the history keeps as many *)
(* of the events as its cap allows, whatever calls overlap (switcher.go:   *)
(* 136).                                                                   *)
SwitcherTypeOK ==
  /\ ProxyTypeOK
  /\ healthy \in [Targets -> BOOLEAN]
  /\ phase \in [Callers -> Phases]
  /\ goal \in [Callers -> Targets \cup {NoTarget}]
  /\ from \in [Callers -> Targets \cup {NoTarget}]
  /\ result \in [Callers -> {"none", "noop", "unhealthy", "switched"}]
  /\ switchCount \in Nat
  /\ history \in Seq(Event)
  /\ Len(history) = IF switchCount < HistoryCap THEN switchCount ELSE HistoryCap

(* The history of switches made one at a time reads as one path of the     *)
(* active target: each event starts where the one before it ended, and the *)
(* last ends at the target that is active when no switch runs.             *)
HistoryChains ==
  /\ \A i \in 1..Len(history) - 1 : history[i].to = history[i + 1].from
  /\ history # <<>> /\ (\A c \in Callers : phase[c] = "idle")
       => history[Len(history)].to = activeTarget

(* No change of the active target escapes the counter and the history,     *)
(* whatever calls overlap: each change counted for has been made by a call *)
(* that has recorded it or is about to.                                    *)
ChangesAreCounted ==
  changes <= switchCount + Cardinality({c \in Callers : phase[c] \in {"switching", "returned"}})

(* The inductive invariant.  A call is inside proxy.Switch exactly while   *)
(* its drainer calls are, with the target it was given; the changes of the *)
(* active target that are not counted yet are of calls that have stored.   *)
Resetting == {"reset_lock", "reset_open", "reset_keep"}
Busy == {c \in Callers : phase[c] # "idle"}
Stored == {c \in Callers : \/ phase[c] = "returned"
                           \/ phase[c] = "switching" /\ pc[c] \in Resetting}
CallsAreInProxy ==
  \A c \in Callers :
    /\ phase[c] = "switching" <=> pc[c] # "idle"
    /\ phase[c] = "switching" => want[c] = goal[c]
    /\ phase[c] # "idle" => goal[c] \in Targets /\ from[c] \in Targets
StoresAreCounted ==
  /\ changes \in Nat /\ IsFiniteSet(Busy)
  /\ changes <= switchCount + Cardinality(Stored)
SwitcherInv == SwitcherTypeOK /\ CallsAreInProxy /\ StoresAreCounted

(* "switch count should not increment for no-op"                           *)
(* (tests/integration/proxy_test.go:212): the switches counted are changes *)
(* of the active target, when switches are made one at a time.             *)
CountsOnlyChanges == switchCount <= changes
==============================================================================
