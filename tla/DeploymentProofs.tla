-------------------------- MODULE DeploymentProofs ---------------------------
(***************************************************************************)
(* Theorems about the switcher, alone and joined with the git watcher.     *)
(* With any number of calls at once: it uses the proxy as the proxy is     *)
(* specified, and counts every change of the active target.  With calls    *)
(* and fetches one at a time: the history is the path of the target, only  *)
(* changes are counted, and traffic follows what the switcher is told.     *)
(***************************************************************************)
EXTENDS Deployment, ProxyProofs, GitProofs

(* What each part of proxy.Switch does to its caller's position and to the *)
(* active target: it drains, stores, and resets.                           *)
LEMMA DrainMoves ==
  ASSUME DrainerTypeOK, NEW c \in Callers, SwitchDrain(c)
  PROVE  /\ pc[c] \notin Resetting \cup {"idle"}
         /\ pc' = [pc EXCEPT ![c] = pc'[c]] /\ pc'[c] \notin Resetting \cup {"idle"}
         /\ UNCHANGED <<activeTarget, want, route>>
BY DEF DrainerTypeOK, SwitchDrain, DrainSteps, DrainLock, DrainPrevDone, DrainPrevExpired,
       DrainAlready, DrainMark, DrainSpawn, DrainDone, DrainTimeout, Return, Resetting, pvars

(* The store of the target ... *)
LEMMA StoreMoves ==
  ASSUME DrainerTypeOK, NEW c \in Callers, SwitchStore(c)
  PROVE  /\ pc[c] \in {"drained", "timedout"} /\ pc' = [pc EXCEPT ![c] = "reset_lock"]
         /\ activeTarget' = want[c] /\ UNCHANGED <<want, route>>
BY DEF SwitchStore, CallReset

(* ... and the reset of the drainer. *)
LEMMA ResetMoves ==
  ASSUME DrainerTypeOK, NEW c \in Callers, SwitchReset(c)
  PROVE  /\ pc[c] \in Resetting
         /\ pc' = [pc EXCEPT ![c] = pc'[c]] /\ pc'[c] \in Resetting \cup {"idle"}
         /\ want' = IF pc'[c] = "idle" THEN [want EXCEPT ![c] = NoTarget] ELSE want
         /\ UNCHANGED <<activeTarget, route>>
BY DEF DrainerTypeOK, SwitchReset, ResetSteps, ResetCheck, ResetApply, Return, Resetting

(* The calls that have stored and not recorded are finitely many. *)
LEMMA StoredIsFinite ==
  ASSUME SwitcherInv
  PROVE  IsFiniteSet(Stored) /\ Cardinality(Stored) \in Nat
<1>1. Stored \in SUBSET Busy
  BY DEF Stored, Busy
<1> QED BY <1>1, FS_Subset, FS_CardinalityType DEF SwitcherInv, StoresAreCounted

(* The three ways in which the calls that have stored change: not at all,  *)
(* by one that stores, by one that records.                                *)
LEMMA CountKept ==
  ASSUME SwitcherInv, NEW c \in Callers, switchCount' \in Nat, changes' \in Nat,
         \/ Busy' = Busy \/ Busy' = Busy \cup {c} \/ Busy' = Busy \ {c},
         \/ Stored' = Stored /\ UNCHANGED <<changes, switchCount>>
         \/ /\ c \notin Stored /\ Stored' = Stored \cup {c}
            /\ changes' <= changes + 1 /\ UNCHANGED switchCount
         \/ /\ c \in Stored /\ Stored' = Stored \ {c}
            /\ UNCHANGED changes /\ switchCount' = switchCount + 1
  PROVE  StoresAreCounted'
<1>1. /\ changes \in Nat /\ switchCount \in Nat /\ IsFiniteSet(Busy)
      /\ changes <= switchCount + Cardinality(Stored)
      /\ IsFiniteSet(Stored) /\ Cardinality(Stored) \in Nat
  BY StoredIsFinite DEF SwitcherInv, StoresAreCounted, SwitcherTypeOK
<1>2. IsFiniteSet(Busy')
  BY <1>1, FS_AddElement, FS_RemoveElement
<1>3. CASE Stored' = Stored /\ UNCHANGED <<changes, switchCount>>
  BY <1>1, <1>2, <1>3 DEF StoresAreCounted
<1>4. CASE /\ c \notin Stored /\ Stored' = Stored \cup {c}
           /\ changes' <= changes + 1 /\ UNCHANGED switchCount
  <2>1. Cardinality(Stored') = Cardinality(Stored) + 1
    BY <1>1, <1>4, FS_AddElement
  <2> QED BY <1>1, <1>2, <1>4, <2>1 DEF StoresAreCounted
<1>5. CASE /\ c \in Stored /\ Stored' = Stored \ {c}
           /\ UNCHANGED changes /\ switchCount' = switchCount + 1
  <2>1. Cardinality(Stored') = Cardinality(Stored) - 1
    BY <1>1, <1>5, FS_RemoveElement
  <2> QED BY <1>1, <1>2, <1>5, <2>1 DEF StoresAreCounted
<1> QED BY <1>3, <1>4, <1>5

(* An event more, and the history as long as its cap allows. *)
LEMMA TrimKeeps ==
  ASSUME NEW h \in Seq(Event), NEW e \in Event, NEW count \in Nat,
         Len(h) = IF count < HistoryCap THEN count ELSE HistoryCap
  PROVE  /\ Trim(Append(h, e)) \in Seq(Event)
         /\ Len(Trim(Append(h, e)))
              = IF count + 1 < HistoryCap THEN count + 1 ELSE HistoryCap
<1>1. Append(h, e) \in Seq(Event) /\ Len(Append(h, e)) = Len(h) + 1
  OBVIOUS
<1>2. CASE count < HistoryCap
  BY <1>1, <1>2, HistoryCapAssumption DEF Trim
<1>3. CASE ~(count < HistoryCap)
  <2>1. Trim(Append(h, e)) = Tail(Append(h, e)) /\ Len(h) = HistoryCap
    BY <1>1, <1>3, HistoryCapAssumption DEF Trim
  <2>2. Append(h, e) # << >>
    BY <1>1, <2>1, HistoryCapAssumption
  <2> QED BY <1>1, <1>3, <2>1, <2>2, HistoryCapAssumption
<1> QED BY <1>2, <1>3

(* Nothing has been switched in the initial state. *)
LEMMA SwitcherInitHolds == SwitcherInit => SwitcherInv
<1> SUFFICES ASSUME SwitcherInit PROVE SwitcherInv
  OBVIOUS
<1>1. Busy = {} /\ Stored = {}
  BY DEF SwitcherInit, Busy, Stored
<1>2. StoresAreCounted
  BY <1>1, FS_EmptySet DEF SwitcherInit, StoresAreCounted
<1>3. ProxyTypeOK
  BY DEF SwitcherInit, ProxyInit, ProxyTypeOK, Targets
<1>4. history \in Seq(Event) /\ Len(history) = 0 /\ switchCount = 0
  BY DEF SwitcherInit
<1>5. SwitcherTypeOK
  <2>1. /\ healthy \in [Targets -> BOOLEAN] /\ phase \in [Callers -> Phases]
        /\ goal \in [Callers -> Targets \cup {NoTarget}]
        /\ from \in [Callers -> Targets \cup {NoTarget}]
        /\ result \in [Callers -> {"none", "noop", "unhealthy", "switched"}]
    BY DEF SwitcherInit, Phases
  <2> QED BY <1>3, <1>4, <2>1, HistoryCapAssumption DEF SwitcherTypeOK
<1>6. CallsAreInProxy
  BY DEF SwitcherInit, ProxyInit, DrainerInit, CallsAreInProxy
<1> QED BY <1>2, <1>5, <1>6 DEF SwitcherInv

(* What is not the switcher's: requests, a drain's goroutine, and health.  *)
LEMMA EnvironmentApart ==
  ASSUME Environment
  PROVE  UNCHANGED <<activeTarget, want, pc, callVars, recordVars, changes>>
<1>1. UNCHANGED <<activeTarget, want, pc>>
  BY DEF Environment, ServeHTTP, Admission, ChooseRoute, Finish, Leave, Track, Enter, Reject,
         Retry, ReleaseActive, ReleaseDone, Background, WaiterStep, WaitEnter, WaitWake,
         CloseDone, HealthChanges, pvars, dvars, vars
<1>2. UNCHANGED <<callVars, recordVars, changes>>
  BY DEF Environment, HealthChanges, svars
<1> QED BY <1>1, <1>2

(* So it disturbs no call. *)
LEMMA EnvironmentKeeps ==
  ASSUME DrainerInv, SwitcherInv, Environment
  PROVE  SwitcherInv'
<1>1. UNCHANGED <<activeTarget, want, pc>>
  BY EnvironmentApart
<1>2. UNCHANGED <<callVars, recordVars, changes>>
  BY EnvironmentApart
<1>3. healthy' \in [Targets -> BOOLEAN]
  BY DEF Environment, HealthChanges, svars, SwitcherInv, SwitcherTypeOK
<1>4. route' \in [Requests -> Targets \cup {NoTarget}]
  BY DEF Environment, ServeHTTP, Admission, ChooseRoute, Finish, Leave,
         Background, HealthChanges, pvars, vars, SwitcherInv, SwitcherTypeOK, ProxyTypeOK
<1>5. SwitcherTypeOK'
  BY <1>1, <1>2, <1>3, <1>4
     DEF SwitcherInv, SwitcherTypeOK, ProxyTypeOK, callVars, recordVars
<1>6. CallsAreInProxy'
  BY <1>1, <1>2 DEF SwitcherInv, CallsAreInProxy, callVars
<1>7. Busy' = Busy /\ Stored' = Stored
  BY <1>1, <1>2 DEF Busy, Stored, callVars
<1>8. StoresAreCounted'
  BY <1>2, <1>7 DEF SwitcherInv, StoresAreCounted, recordVars
<1> QED BY <1>5, <1>6, <1>8 DEF SwitcherInv

(* The first section under s.mu, and the record. *)
LEMMA CheckKeeps ==
  ASSUME SwitcherInv, NEW c \in Callers, NEW t \in Targets,
         CheckRefused(c, t) \/ CheckAccepted(c, t)
  PROVE  SwitcherInv'
<1> USE DEF SwitcherInv, SwitcherTypeOK, CallsAreInProxy
<1>1. CASE CheckRefused(c, t)
  <2>1. /\ UNCHANGED <<vars, healthy, phase, goal, from, recordVars, changes>>
        /\ result' \in [Callers -> {"none", "noop", "unhealthy", "switched"}]
    BY <1>1 DEF CheckRefused, Answer
  <2>2. Busy' = Busy /\ Stored' = Stored
    BY <2>1 DEF Busy, Stored, vars, dvars
  <2> QED BY <2>1, <2>2 DEF StoresAreCounted, ProxyTypeOK, vars, dvars, pvars, recordVars
<1>2. CASE CheckAccepted(c, t)
  <2>1. /\ UNCHANGED <<vars, healthy, result, recordVars, changes>>
        /\ phase[c] = "idle" /\ phase' = [phase EXCEPT ![c] = "calling"]
        /\ goal' = [goal EXCEPT ![c] = t] /\ from' = [from EXCEPT ![c] = activeTarget]
    BY <1>2 DEF CheckAccepted, Accept
  <2>2. UNCHANGED <<pc, want, activeTarget, route, switchCount, history>>
    BY <2>1 DEF vars, dvars, pvars, recordVars
  <2>3. Busy' = Busy \cup {c} /\ Stored' = Stored
    BY <2>1, <2>2 DEF Busy, Stored
  <2>4. StoresAreCounted'
    BY <2>1, <2>2, <2>3, CountKept DEF StoresAreCounted
  <2>5. CallsAreInProxy'
    BY <2>1, <2>2 DEF ProxyTypeOK
  <2>6. SwitcherTypeOK'
    BY <2>1, <2>2 DEF ProxyTypeOK, Phases
  <2> QED BY <2>4, <2>5, <2>6
<1> QED BY <1>1, <1>2

(* The second section under s.mu counts what was stored. *)
LEMMA RecordKeeps ==
  ASSUME SwitcherInv, NEW c \in Callers, Record(c)
  PROVE  SwitcherInv'
<1> USE DEF SwitcherInv
<1>1. /\ UNCHANGED <<vars, healthy, goal, from, changes>>
      /\ phase[c] = "returned" /\ phase' = [phase EXCEPT ![c] = "idle"]
      /\ result' = [result EXCEPT ![c] = "switched"]
      /\ switchCount' = switchCount + 1
      /\ history' = Trim(Append(history, [from |-> from[c], to |-> goal[c]]))
  BY DEF Record
<1>2. UNCHANGED <<pc, want, activeTarget, route>>
  BY <1>1 DEF vars, dvars, pvars
<1>3. Busy' = Busy \ {c} /\ c \in Stored /\ Stored' = Stored \ {c}
  BY <1>1, <1>2 DEF Busy, Stored, SwitcherTypeOK
<1>4. switchCount' \in Nat
  BY <1>1 DEF SwitcherTypeOK
<1>5. StoresAreCounted'
  BY <1>1, <1>3, <1>4, CountKept DEF StoresAreCounted
<1>6. [from |-> from[c], to |-> goal[c]] \in Event
  BY <1>1 DEF CallsAreInProxy, Event
<1>7. history' \in Seq(Event)
      /\ Len(history') = IF switchCount' < HistoryCap THEN switchCount' ELSE HistoryCap
  BY <1>1, <1>6, TrimKeeps DEF SwitcherTypeOK
<1>8. SwitcherTypeOK'
  BY <1>1, <1>2, <1>4, <1>7 DEF SwitcherTypeOK, ProxyTypeOK, Phases
<1>9. CallsAreInProxy'
  BY <1>1, <1>2 DEF SwitcherTypeOK, CallsAreInProxy
<1> QED BY <1>5, <1>8, <1>9

(* proxy.Switch begins, or finds the target active already. *)
LEMMA CallProxyKeeps ==
  ASSUME DrainerInv, SwitcherInv, NEW c \in Callers, CallProxy(c)
  PROVE  SwitcherInv'
<1> USE DEF SwitcherInv
<1>1. /\ phase[c] = "calling" /\ pc[c] = "idle" /\ goal[c] \in Targets
      /\ UNCHANGED <<healthy, goal, from, result, recordVars, changes>>
      /\ UNCHANGED <<activeTarget, route, switchCount, history>>
  BY DEF CallProxy, SwitchStart, CallsAreInProxy, vars, pvars, recordVars
<1>2. CASE SwitchStart(c, goal[c]) /\ phase' = [phase EXCEPT ![c] = "switching"]
  <2>1. pc' = [pc EXCEPT ![c] = "drain_lock"] /\ want' = [want EXCEPT ![c] = goal[c]]
    BY <1>2 DEF SwitchStart, CallDrain
  <2>2. Busy' = Busy /\ Stored' = Stored
    BY <1>1, <1>2, <2>1 DEF Busy, Stored, SwitcherTypeOK, DrainerInv, DrainerTypeOK, Resetting
  <2>3. StoresAreCounted'
    BY <1>1, <2>2 DEF StoresAreCounted
  <2>4. SwitcherTypeOK'
    BY <1>1, <1>2, <2>1 DEF SwitcherTypeOK, ProxyTypeOK, Phases
  <2>5. CallsAreInProxy'
    BY <1>1, <1>2, <2>1
       DEF CallsAreInProxy, SwitcherTypeOK, ProxyTypeOK, DrainerInv, DrainerTypeOK
  <2> QED BY <2>3, <2>4, <2>5
<1>3. CASE phase' = [phase EXCEPT ![c] = "returned"] /\ UNCHANGED vars
  <2>1. UNCHANGED <<pc, want>>
    BY <1>3 DEF vars, dvars, pvars
  <2>2. Busy' = Busy /\ c \notin Stored /\ Stored' = Stored \cup {c}
    BY <1>1, <1>3, <2>1 DEF Busy, Stored, SwitcherTypeOK
  <2>3. switchCount' = switchCount /\ changes' = changes /\ changes' \in Nat
        /\ switchCount' \in Nat /\ changes' <= changes + 1
    BY <1>1 DEF StoresAreCounted, SwitcherTypeOK
  <2>4. StoresAreCounted'
    BY <2>2, <2>3, CountKept
  <2>5. SwitcherTypeOK'
    BY <1>1, <1>3, <2>1 DEF SwitcherTypeOK, ProxyTypeOK, Phases
  <2>6. CallsAreInProxy'
    BY <1>1, <1>3, <2>1 DEF CallsAreInProxy, SwitcherTypeOK
  <2> QED BY <2>4, <2>5, <2>6
<1> QED BY <1>2, <1>3 DEF CallProxy

(* proxy.Switch goes on. *)
LEMMA ProxySwitchesKeeps ==
  ASSUME DrainerInv, SwitcherInv, NEW c \in Callers, ProxySwitches(c)
  PROVE  SwitcherInv'
<1> USE NoTargetAssumption DEF SwitcherInv
<1>1. /\ phase[c] = "switching" /\ pc[c] # "idle" /\ want[c] = goal[c] /\ goal[c] \in Targets
      /\ phase' = IF pc'[c] = "idle" THEN [phase EXCEPT ![c] = "returned"] ELSE phase
      /\ UNCHANGED <<healthy, goal, from, result, switchCount, history>>
      /\ changes' = IF activeTarget' # activeTarget THEN changes + 1 ELSE changes
  BY DEF ProxySwitches, CallsAreInProxy, recordVars
<1>2. /\ DrainerTypeOK /\ changes \in Nat /\ switchCount' \in Nat /\ changes' \in Nat
      /\ changes' <= changes + 1
  BY <1>1 DEF DrainerInv, StoresAreCounted, SwitcherTypeOK
<1> USE DEF DrainerTypeOK
<1>3. CASE SwitchDrain(c)
  <2>1. /\ pc[c] \notin Resetting \cup {"idle"}
        /\ pc' = [pc EXCEPT ![c] = pc'[c]] /\ pc'[c] \notin Resetting \cup {"idle"}
        /\ UNCHANGED <<activeTarget, want, route, phase, changes>>
    BY <1>1, <1>2, <1>3, DrainMoves
  <2>2. Busy' = Busy /\ Stored' = Stored
    BY <1>2, <2>1 DEF Busy, Stored
  <2>3. StoresAreCounted'
    BY <1>1, <2>1, <2>2 DEF StoresAreCounted
  <2>4. SwitcherTypeOK'
    BY <1>1, <2>1 DEF SwitcherTypeOK, ProxyTypeOK
  <2>5. CallsAreInProxy'
    BY <1>1, <1>2, <2>1 DEF CallsAreInProxy
  <2> QED BY <2>3, <2>4, <2>5
<1>4. CASE SwitchStore(c)
  <2>1. /\ pc[c] \in {"drained", "timedout"} /\ pc' = [pc EXCEPT ![c] = "reset_lock"]
        /\ activeTarget' \in Targets /\ UNCHANGED <<want, route, phase>>
    BY <1>1, <1>2, <1>4, StoreMoves
  <2>2. Busy' = Busy /\ c \notin Stored /\ Stored' = Stored \cup {c}
    BY <1>1, <1>2, <2>1 DEF Busy, Stored, Resetting
  <2>3. StoresAreCounted'
    BY <1>1, <1>2, <2>2, CountKept
  <2>4. SwitcherTypeOK'
    BY <1>1, <2>1 DEF SwitcherTypeOK, ProxyTypeOK
  <2>5. CallsAreInProxy'
    BY <1>1, <1>2, <2>1 DEF CallsAreInProxy
  <2> QED BY <2>3, <2>4, <2>5
<1>5. CASE SwitchReset(c)
  <2>1. /\ pc[c] \in Resetting
        /\ pc' = [pc EXCEPT ![c] = pc'[c]] /\ pc'[c] \in Resetting \cup {"idle"}
        /\ want' = IF pc'[c] = "idle" THEN [want EXCEPT ![c] = NoTarget] ELSE want
        /\ UNCHANGED <<activeTarget, route, changes>>
    BY <1>1, <1>2, <1>5, ResetMoves
  <2>2. Busy' = Busy /\ Stored' = Stored
    BY <1>1, <1>2, <2>1 DEF Busy, Stored, SwitcherTypeOK, Resetting
  <2>3. StoresAreCounted'
    BY <1>1, <2>1, <2>2 DEF StoresAreCounted
  <2>4. SwitcherTypeOK'
    BY <1>1, <2>1 DEF SwitcherTypeOK, ProxyTypeOK, Phases
  <2>5. CallsAreInProxy'
    BY <1>1, <1>2, <2>1 DEF CallsAreInProxy, SwitcherTypeOK, ProxyTypeOK, Resetting
  <2> QED BY <2>3, <2>4, <2>5
<1> QED BY <1>3, <1>4, <1>5 DEF ProxySwitches, SwitchSteps

------------------------------------------------------------------------------
(* Any number of calls at once. *)

(* What the switcher does to the proxy is a step of the proxy, or none. *)
LEMMA SwitcherStepIsProxyStep ==
  ASSUME SwitcherInv, [SwitcherNext]_allVars PROVE [ProxyNext]_vars
<1>1. ASSUME NEW c \in Callers, NEW t \in Targets, CheckRefused(c, t) \/ CheckAccepted(c, t)
      PROVE  UNCHANGED vars
  BY <1>1 DEF CheckRefused, Answer, CheckAccepted, Accept
<1>2. ASSUME NEW c \in Callers, CallProxy(c) PROVE [ProxyNext]_vars
  BY <1>2 DEF CallProxy, ProxyNext, SwitcherInv, CallsAreInProxy
<1>3. ASSUME NEW c \in Callers, ProxySwitches(c) \/ Record(c) PROVE [ProxyNext]_vars
  BY <1>3 DEF ProxySwitches, Record, ProxyNext
<1>4. CASE Environment
  BY <1>4 DEF Environment, HealthChanges, ProxyNext
<1>5. CASE UNCHANGED allVars
  BY <1>5 DEF allVars
<1> QED
  BY <1>1, <1>2, <1>3, <1>4, <1>5 DEF SwitcherNext, SwitchCall

(* Every step of the switcher preserves its invariant. *)
LEMMA SwitcherStepKeeps ==
  ASSUME DrainerInv, SwitcherInv, [SwitcherNext]_allVars
  PROVE  DrainerInv' /\ SwitcherInv'
<1>1. [DrainerNext]_dvars
  BY SwitcherStepIsProxyStep, ProxyStepIsDrainerStep
<1>2. DrainerInv'
  BY <1>1, StepInv
<1>3. ASSUME UNCHANGED allVars PROVE SwitcherInv'
  BY <1>3 DEF allVars, svars, callVars, recordVars, vars, dvars, pvars, SwitcherInv,
              SwitcherTypeOK, ProxyTypeOK, CallsAreInProxy, StoresAreCounted, Busy, Stored
<1>4. SwitcherInv'
  BY <1>3, EnvironmentKeeps, CheckKeeps, RecordKeeps, CallProxyKeeps, ProxySwitchesKeeps
     DEF SwitcherNext, SwitchCall
<1> QED BY <1>2, <1>4

(* The initial state has the invariants of drainer and switcher. *)
LEMMA SwitcherStarts == SwitcherInit => DrainerInv /\ SwitcherInv
BY SwitcherInitHolds, InitInv DEF SwitcherInit, ProxyInit

(* Type correctness of switcher and proxy, where each call is, and that    *)
(* changes not counted yet are about to be (switcher.go:93-140).           *)
THEOREM SwitcherInvariant == SwitcherSpec => []SwitcherInv
BY SwitcherStarts, SwitcherStepKeeps, PTL DEF SwitcherSpec

(* The switcher calls the proxy as its specification allows, so that what  *)
(* is proved of the proxy and the drainer holds inside the switcher.       *)
THEOREM SwitcherImplementsProxy == SwitcherSpec => ProxySpec
<1>1. SwitcherInit => ProxyInit
  BY DEF SwitcherInit
<1>2. SwitcherInv /\ [SwitcherNext]_allVars => [ProxyNext]_vars
  BY SwitcherStepIsProxyStep
<1> QED BY <1>1, <1>2, SwitcherInvariant, PTL DEF SwitcherSpec, ProxySpec

(* No change of the active target escapes the counter and the history, for *)
(* any number of overlapping calls (switcher.go:125-140).                  *)
THEOREM SwitcherChangesAreCounted == SwitcherSpec => []ChangesAreCounted
<1>1. ASSUME SwitcherInv PROVE ChangesAreCounted
  <2> DEFINE storing == {c \in Callers : phase[c] \in {"switching", "returned"}}
  <2>1. /\ changes \in Nat /\ switchCount \in Nat /\ IsFiniteSet(Busy)
        /\ changes <= switchCount + Cardinality(Stored)
    BY <1>1 DEF SwitcherInv, SwitcherTypeOK, StoresAreCounted
  <2>2. storing \in SUBSET Busy /\ Stored \in SUBSET storing
    BY DEF Busy, Stored
  <2>3. IsFiniteSet(storing)
    BY <2>1, <2>2, FS_Subset
  <2>4. Cardinality(Stored) <= Cardinality(storing) /\ IsFiniteSet(Stored)
    BY <2>2, <2>3, FS_Subset
  <2>5. Cardinality(Stored) \in Nat /\ Cardinality(storing) \in Nat
    BY <2>3, <2>4, FS_CardinalityType
  <2> QED BY <2>1, <2>4, <2>5 DEF ChangesAreCounted
<1> QED BY <1>1, SwitcherInvariant, PTL
------------------------------------------------------------------------------
(* Calls one at a time.  The active target is the one that the call under  *)
(* way found, until it stores its own; the history ends where that call    *)
(* began, or at the active target; and every change but its own is         *)
(* recorded.                                                               *)

SerialCalls ==
  \A c \in Busy :
    /\ from[c] # goal[c]
    /\ activeTarget = IF c \in Stored THEN goal[c] ELSE from[c]
Chains(h) == \A i \in 1..Len(h) - 1 : h[i].to = h[i + 1].from
HistoryFollows ==
  /\ Chains(history)
  /\ history # << >> =>
       IF Busy = {} THEN history[Len(history)].to = activeTarget
                    ELSE \A c \in Busy : history[Len(history)].to = from[c]
CountExact == changes = switchCount + (IF Stored = {} THEN 0 ELSE 1)
SerialSwitches == SerialCalls /\ HistoryFollows /\ CountExact

(* An event that starts where the history ends goes on with the path. *)
LEMMA TrimChains ==
  ASSUME NEW h \in Seq(Event), NEW e \in Event, Chains(h),
         h # << >> => h[Len(h)].to = e.from
  PROVE  LET path == Trim(Append(h, e))
         IN  Chains(path) /\ path # << >> /\ path[Len(path)] = e
<1> DEFINE longer == Append(h, e)
<1>1. /\ longer \in Seq(Event) /\ Len(longer) = Len(h) + 1 /\ Len(h) \in Nat
      /\ longer[Len(longer)] = e /\ \A i \in 1..Len(h) : longer[i] = h[i]
  OBVIOUS
<1>2. Chains(longer)
  <2> SUFFICES ASSUME NEW i \in 1..Len(longer) - 1 PROVE longer[i].to = longer[i + 1].from
    BY DEF Chains
  <2>1. CASE i < Len(h)
    BY <1>1, <2>1 DEF Chains
  <2>2. CASE i = Len(h)
    <3>1. h # << >>
      BY <1>1, <2>2
    <3> QED BY <1>1, <2>2, <3>1
  <2> QED BY <1>1, <2>1, <2>2
<1> HIDE DEF longer
<1>3. CASE Len(longer) > HistoryCap
  <2>1. Trim(longer) = Tail(longer) /\ Len(longer) > 1
    BY <1>1, <1>3, HistoryCapAssumption DEF Trim
  <2>2. /\ Len(Tail(longer)) = Len(longer) - 1 /\ longer # << >>
        /\ \A i \in 1..Len(longer) - 1 : Tail(longer)[i] = longer[i + 1]
    BY <1>1, <2>1
  <2>3. Chains(Tail(longer)) /\ Tail(longer)[Len(Tail(longer))] = e
    BY <1>1, <1>2, <2>1, <2>2 DEF Chains
  <2>4. Tail(longer) # << >>
    BY <1>1, <2>1, <2>2
  <2> QED BY <2>1, <2>3, <2>4 DEF longer
<1>4. CASE ~(Len(longer) > HistoryCap)
  BY <1>1, <1>2, <1>4 DEF Trim, longer
<1> QED BY <1>3, <1>4

(* Nothing is in the history in the initial state. *)
LEMMA SerialStart == SwitcherInit => SerialSwitches
BY DEF SwitcherInit, SerialSwitches, SerialCalls, HistoryFollows, Chains, CountExact, Busy, Stored

(* Nothing that the serial invariant speaks of changes. *)
LEMMA SerialApart ==
  ASSUME SerialSwitches, Busy' = Busy, Stored' = Stored,
         UNCHANGED <<activeTarget, goal, from, recordVars, changes>>
  PROVE  SerialSwitches'
BY DEF SerialSwitches, SerialCalls, HistoryFollows, Chains, CountExact, recordVars

(* The check: nothing else is under way. *)
LEMMA SerialCheckKeeps ==
  ASSUME OneCaller, SwitcherInv, SerialSwitches, NEW c \in Callers, NEW t \in Targets,
         CheckRefused(c, t) \/ CheckAccepted(c, t)
  PROVE  SerialSwitches'
<1>1. CASE CheckRefused(c, t)
  BY <1>1, SerialApart
     DEF CheckRefused, Answer, Busy, Stored, vars, dvars, pvars, recordVars
<1>2. CASE CheckAccepted(c, t)
  <2>1. /\ UNCHANGED <<vars, healthy, result, recordVars, changes>>
        /\ phase[c] = "idle" /\ phase' = [phase EXCEPT ![c] = "calling"]
        /\ goal' = [goal EXCEPT ![c] = t] /\ from' = [from EXCEPT ![c] = activeTarget]
        /\ activeTarget # t
    BY <1>2 DEF CheckAccepted, Accept
  <2>2. UNCHANGED <<pc, activeTarget, switchCount, history>> /\ Callers = {c}
    BY <2>1 DEF vars, dvars, pvars, recordVars, OneCaller
  <2>3. /\ Busy = {} /\ Stored = {} /\ Stored' = {} /\ Busy' = {c}
        /\ goal'[c] = t /\ from'[c] = activeTarget
    BY <2>1, <2>2 DEF Busy, Stored, SwitcherInv, SwitcherTypeOK
  <2> QED BY <2>1, <2>2, <2>3
             DEF SerialSwitches, SerialCalls, HistoryFollows, Chains, CountExact
<1> QED BY <1>1, <1>2

(* The record goes on from the target that the last one ended with. *)
LEMMA SerialRecordKeeps ==
  ASSUME OneCaller, SwitcherInv, SerialSwitches, NEW c \in Callers, Record(c)
  PROVE  SerialSwitches'
<1>1. /\ UNCHANGED <<vars, healthy, goal, from, changes>>
      /\ phase[c] = "returned" /\ phase' = [phase EXCEPT ![c] = "idle"]
      /\ switchCount' = switchCount + 1
      /\ history' = Trim(Append(history, [from |-> from[c], to |-> goal[c]]))
  BY DEF Record
<1>2. UNCHANGED <<pc, activeTarget>> /\ Callers = {c}
  BY <1>1 DEF vars, dvars, pvars, OneCaller
<1>3. Busy = {c} /\ Stored = {c} /\ Busy' = {} /\ Stored' = {}
  BY <1>1, <1>2 DEF Busy, Stored, SwitcherInv, SwitcherTypeOK
<1>4. activeTarget = goal[c]
  BY <1>3 DEF SerialSwitches, SerialCalls
<1>5. history \in Seq(Event) /\ switchCount \in Nat
  BY DEF SwitcherInv, SwitcherTypeOK
<1>6. [from |-> from[c], to |-> goal[c]] \in Event
  BY <1>1 DEF SwitcherInv, CallsAreInProxy, Event
<1>7. Chains(history) /\ (history # << >> => history[Len(history)].to = from[c])
  BY <1>3 DEF SerialSwitches, HistoryFollows
<1>8. Chains(history') /\ history'[Len(history')] = [from |-> from[c], to |-> goal[c]]
  BY <1>1, <1>5, <1>6, <1>7, TrimChains
<1>9. HistoryFollows'
  BY <1>2, <1>3, <1>4, <1>8 DEF HistoryFollows, Chains
<1>10. CountExact'
  BY <1>1, <1>3, <1>5 DEF SerialSwitches, CountExact
<1> QED BY <1>3, <1>9, <1>10 DEF SerialSwitches, SerialCalls

(* The one call never finds its target active already. *)
LEMMA SerialCallKeeps ==
  ASSUME OneCaller, DrainerInv, SwitcherInv, SerialSwitches, NEW c \in Callers, CallProxy(c)
  PROVE  SerialSwitches'
<1>1. /\ phase[c] = "calling" /\ pc[c] = "idle" /\ Callers = {c}
      /\ UNCHANGED <<goal, from, recordVars, changes>>
  BY DEF CallProxy, SwitcherInv, CallsAreInProxy, OneCaller
<1>2. Busy = {c} /\ Stored = {}
  BY <1>1 DEF Busy, Stored
<1>3. activeTarget # goal[c]
  BY <1>2 DEF SerialSwitches, SerialCalls
<1>4. /\ phase' = [phase EXCEPT ![c] = "switching"]
      /\ pc' = [pc EXCEPT ![c] = "drain_lock"] /\ UNCHANGED activeTarget
  BY <1>3 DEF CallProxy, SwitchStart, CallDrain
<1>5. Busy' = Busy /\ Stored' = Stored
  BY <1>1, <1>2, <1>4
     DEF Busy, Stored, Resetting, SwitcherInv, SwitcherTypeOK, DrainerInv, DrainerTypeOK
<1> QED BY <1>1, <1>4, <1>5, SerialApart

(* The proxy's switch changes the target only where it stores. *)
LEMMA SerialProxyKeeps ==
  ASSUME OneCaller, DrainerInv, SwitcherInv, SerialSwitches, NEW c \in Callers,
         ProxySwitches(c)
  PROVE  SerialSwitches'
<1>1. /\ phase[c] = "switching" /\ want[c] = goal[c] /\ DrainerTypeOK /\ Callers = {c}
      /\ phase' = IF pc'[c] = "idle" THEN [phase EXCEPT ![c] = "returned"] ELSE phase
      /\ UNCHANGED <<goal, from, recordVars>>
      /\ changes' = IF activeTarget' # activeTarget THEN changes + 1 ELSE changes
      /\ phase \in [Callers -> Phases] /\ switchCount \in Nat
  BY DEF ProxySwitches, SwitcherInv, SwitcherTypeOK, CallsAreInProxy, DrainerInv, OneCaller
<1> USE DEF DrainerTypeOK
<1>2. CASE SwitchDrain(c)
  <2>1. /\ pc[c] \notin Resetting \cup {"idle"}
        /\ pc' = [pc EXCEPT ![c] = pc'[c]] /\ pc'[c] \notin Resetting \cup {"idle"}
        /\ UNCHANGED <<activeTarget, phase, changes>>
    BY <1>1, <1>2, DrainMoves
  <2>2. Busy' = Busy /\ Stored' = Stored
    BY <1>1, <2>1 DEF Busy, Stored
  <2> QED BY <1>1, <2>1, <2>2, SerialApart
<1>3. CASE SwitchStore(c)
  <2>1. /\ pc[c] \in {"drained", "timedout"} /\ pc' = [pc EXCEPT ![c] = "reset_lock"]
        /\ activeTarget' = goal[c]
    BY <1>1, <1>3, StoreMoves
  <2>2. /\ phase' = phase
        /\ Busy = {c} /\ Busy' = {c} /\ Stored = {} /\ Stored' = {c}
    BY <1>1, <2>1 DEF Busy, Stored, Resetting
  <2>3. from[c] # goal[c] /\ activeTarget = from[c]
    BY <2>2 DEF SerialSwitches, SerialCalls
  <2>4. changes' = changes + 1 /\ changes = switchCount
    BY <1>1, <2>1, <2>2, <2>3 DEF SerialSwitches, CountExact
  <2> QED BY <1>1, <2>1, <2>2, <2>3, <2>4
             DEF SerialSwitches, SerialCalls, HistoryFollows, Chains, CountExact, recordVars
<1>4. CASE SwitchReset(c)
  <2>1. /\ pc[c] \in Resetting
        /\ pc' = [pc EXCEPT ![c] = pc'[c]] /\ pc'[c] \in Resetting \cup {"idle"}
        /\ UNCHANGED <<activeTarget, changes>>
    BY <1>1, <1>4, ResetMoves
  <2>2. Busy' = Busy /\ Stored' = Stored
    BY <1>1, <2>1 DEF Busy, Stored, Resetting
  <2> QED BY <1>1, <2>1, <2>2, SerialApart
<1> QED BY <1>2, <1>3, <1>4 DEF ProxySwitches, SwitchSteps

(* Every step preserves the serial invariant. *)
LEMMA SerialStepKeeps ==
  ASSUME OneCaller, DrainerInv, SwitcherInv, SerialSwitches, [SwitcherNext]_allVars
  PROVE  SerialSwitches'
<1>1. CASE Environment
  <2>1. UNCHANGED <<activeTarget, pc, callVars, recordVars, changes>>
    BY <1>1, EnvironmentApart
  <2> QED BY <2>1, SerialApart DEF Busy, Stored, callVars
<1>2. CASE UNCHANGED allVars
  BY <1>2, SerialApart
     DEF allVars, svars, callVars, vars, dvars, pvars, Busy, Stored
<1> QED BY <1>1, <1>2, SerialCheckKeeps, SerialRecordKeeps, SerialCallKeeps, SerialProxyKeeps
           DEF SwitcherNext, SwitchCall

(* With one caller, the serial invariant always holds. *)
LEMMA SerialSwitcher ==
  ASSUME OneCaller PROVE SwitcherSpec => []SerialSwitches
<1>1. ASSUME DrainerInv, SwitcherInv, SerialSwitches, [SwitcherNext]_allVars
      PROVE  SerialSwitches'
  BY <1>1, OneCaller, SerialStepKeeps
<1> QED BY <1>1, SerialStart, SwitcherStarts, SwitcherStepKeeps, PTL DEF SwitcherSpec

(* The events kept are one path of the active target (switcher.go:125).    *)
THEOREM SerialHistoryChains ==
  ASSUME OneCaller PROVE SwitcherSpec => []HistoryChains
<1>1. ASSUME SerialSwitches PROVE HistoryChains
  BY <1>1 DEF SerialSwitches, HistoryFollows, Chains, HistoryChains, Busy
<1>2. SwitcherSpec => []SerialSwitches
  BY OneCaller, SerialSwitcher
<1> QED BY <1>1, <1>2, PTL

(* A call that ends without a change is not counted (proxy_test.go:212).   *)
THEOREM SerialCountsOnlyChanges ==
  ASSUME OneCaller PROVE SwitcherSpec => []CountsOnlyChanges
<1>1. ASSUME SwitcherInv, SerialSwitches PROVE CountsOnlyChanges
  BY <1>1 DEF SerialSwitches, CountExact, SwitcherInv, SwitcherTypeOK, StoresAreCounted,
              CountsOnlyChanges
<1>2. SwitcherSpec => []SerialSwitches
  BY OneCaller, SerialSwitcher
<1> QED BY <1>1, <1>2, SwitcherInvariant, PTL
------------------------------------------------------------------------------
(* The deployment: each of its parts does what it does alone, so that what *)
(* is proved of the watcher, the switcher and the proxy holds inside it.   *)

(* A step of the deployment is one of the watcher, of the switcher, or of  *)
(* both.                                                                   *)
LEMMA DeploymentSteps ==
  ASSUME [DeploymentNext]_deploymentVars
  PROVE  [SwitcherNext]_allVars /\ [GitNext]_gvars
<1> USE FetchersCall DEF Fetching, SwitcherNext, GitNext, FetchSteps
<1>1. CASE UNCHANGED deploymentVars
  BY <1>1 DEF deploymentVars
<1>2. CASE World
  BY <1>2 DEF World
<1>3. ASSUME NEW f \in Fetchers, Watch(f) \/ Resume(f)
      PROVE  [SwitcherNext]_allVars /\ [GitNext]_gvars
  BY <1>3 DEF Watch, Resume
<1>4. ASSUME NEW f \in Fetchers, Switching(f)
      PROVE  [SwitcherNext]_allVars /\ [GitNext]_gvars
  BY <1>4 DEF Switching
<1>5. ASSUME NEW f \in Fetchers, NEW t \in Targets, HandleTagChange(f, t)
      PROVE  [SwitcherNext]_allVars /\ [GitNext]_gvars
  BY <1>5 DEF HandleTagChange, Targets, Watched
<1> QED BY <1>1, <1>2, <1>3, <1>4, <1>5 DEF DeploymentNext

(* The watcher with the switcher as its listener is a watcher: the safety  *)
(* part of ImplementsGitWatcher (app.go:129).                              *)
THEOREM DeploymentImplementsGitWatcher == DeploymentSpec => GitSpec
BY DeploymentSteps, PTL DEF DeploymentSpec, DeploymentInit, GitSpec

(* The switcher called by the watcher's goroutines is a switcher: each     *)
(* goroutine has one call under way (gitwatcher.go:196).                   *)
THEOREM DeploymentImplementsSwitcher == DeploymentSpec => SwitcherSpec
BY DeploymentSteps, PTL DEF DeploymentSpec, DeploymentInit, SwitcherSpec

(* No change of the active target that the watcher causes escapes the      *)
(* history, for any fetches at once.                                       *)
THEOREM DeploymentChangesAreCounted == DeploymentSpec => []ChangesAreCounted
BY DeploymentImplementsSwitcher, SwitcherChangesAreCounted, PTL

(* When a refresh answers, the switches for all that it listed have been   *)
(* made or refused, for any fetches at once (webhook.go:48).               *)
THEOREM DeploymentRefreshTellsAll == DeploymentSpec => []RefreshTellsAll
BY DeploymentImplementsGitWatcher, GitRefreshTellsAll, PTL

(* With one fetch at a time, the promises that Switch calls keep when they *)
(* are made one at a time hold in the deployment.                          *)
THEOREM DeploymentOpenMeansCurrent ==
  ASSUME OneCaller PROVE DeploymentSpec => []OpenMeansCurrent
<1>1. ProxySpec => []OpenMeansCurrent
  BY OneCaller, SerialOpenMeansCurrent
<1> QED BY <1>1, DeploymentImplementsSwitcher, SwitcherImplementsProxy, PTL

(* With one fetch at a time, a switch whose drain succeeded changes the    *)
(* backend under no request (proxy.go:180).                                *)
THEOREM DeploymentDrainedBeforeSwitch ==
  ASSUME OneCaller PROVE DeploymentSpec => DrainedBeforeSwitch
<1>1. ProxySpec => DrainedBeforeSwitch
  BY OneCaller, SerialDrainedBeforeSwitch
<1> QED BY <1>1, DeploymentImplementsSwitcher, SwitcherImplementsProxy, PTL
           DEF DrainedBeforeSwitch

(* With one fetch at a time, the events of the history are one path of the *)
(* active target (switcher.go:125).                                        *)
THEOREM DeploymentHistoryChains ==
  ASSUME OneCaller PROVE DeploymentSpec => []HistoryChains
<1>1. SwitcherSpec => []HistoryChains
  BY OneCaller, SerialHistoryChains
<1> QED BY <1>1, DeploymentImplementsSwitcher, PTL

(* With one fetch at a time, only changes of the active target are counted *)
(* (proxy_test.go:212).                                                    *)
THEOREM DeploymentCountsOnlyChanges ==
  ASSUME OneCaller PROVE DeploymentSpec => []CountsOnlyChanges
<1>1. SwitcherSpec => []CountsOnlyChanges
  BY OneCaller, SerialCountsOnlyChanges
<1> QED BY <1>1, DeploymentImplementsSwitcher, PTL

(* With one fetch at a time, the switcher is told of no commit twice and   *)
(* of none older than one it was told of (gitwatcher.go:136).              *)
THEOREM DeploymentTellsOnlyNews ==
  ASSUME OneCaller PROVE DeploymentSpec => TellsOnlyNews
<1>1. GitSpec => TellsOnlyNews
  BY OneCaller, FetchersCall, SerialTellsOnlyNews DEF OneCaller, OneFetcher
<1> QED BY <1>1, DeploymentImplementsGitWatcher, PTL DEF TellsOnlyNews

(* The call under way is the listener's, for the last change told of while *)
(* its target was healthy; without a call, traffic goes to that target.    *)
NewsInv ==
  \A f \in Fetchers :
    IF phase[f] = "idle" THEN activeTarget = news
                         ELSE fpc[f] \in {"in_blue", "in_green"} /\ goal[f] = news

(* Each step keeps the active target where the last change put it, or has  *)
(* a listener on its way there.                                            *)
LEMMA NewsStep ==
  ASSUME OneCaller, GitInv, DrainerInv, SwitcherInv, SerialSwitches, NewsInv,
         [DeploymentNext]_deploymentVars
  PROVE  NewsInv'
<1> USE FetchersCall
<1>1. ASSUME NEW f \in Fetchers, Watch(f)  PROVE NewsInv'
  <2>1. phase[f] = "idle" /\ Fetchers = {f}
    BY <1>1 DEF Watch, ListRefs, ListFails, CheckBlue, FetchReturns, NewsInv, OneCaller
  <2> QED BY <1>1, <2>1 DEF Watch, NewsInv, allVars, vars, pvars, svars, callVars
<1>2. ASSUME NEW f \in Fetchers, NEW t \in Targets, HandleTagChange(f, t)  PROVE NewsInv'
  <2>1. /\ Fetchers = {f} /\ phase[f] = "idle" /\ fpc'[f] \in {"in_blue", "in_green"}
        /\ news' = IF healthy[t] THEN t ELSE news
    BY <1>2 DEF HandleTagChange, Notify, GoTo, GitInv, GitTypeOK, OneCaller, CheckRefused,
               CheckAccepted, Accept
  <2>2. CASE CheckRefused(f, t)
    BY <2>1, <2>2 DEF CheckRefused, Answer, NewsInv, vars, pvars
  <2>3. CASE CheckAccepted(f, t)
    <3>1. phase'[f] = "calling" /\ goal'[f] = t /\ healthy[t]
      BY <2>3 DEF CheckAccepted, Accept, SwitcherInv, SwitcherTypeOK
    <3> QED BY <2>1, <3>1 DEF NewsInv
  <2> QED BY <1>2, <2>2, <2>3 DEF HandleTagChange
<1>3. ASSUME NEW f \in Fetchers, Switching(f)  PROVE NewsInv'
  <2>1. /\ Fetchers = {f} /\ phase[f] # "idle" /\ UNCHANGED <<fpc, news, goal>>
        /\ phase \in [Callers -> Phases]
    BY <1>3 DEF Switching, SwitchCall, CallProxy, ProxySwitches, Record, gvars,
               OneCaller, SwitcherInv, SwitcherTypeOK
  <2>2. CASE Record(f)
    <3>1. /\ phase[f] = "returned" /\ phase' = [phase EXCEPT ![f] = "idle"]
          /\ UNCHANGED activeTarget
      BY <2>2 DEF Record, vars, pvars
    <3>2. f \in Busy /\ f \in Stored
      BY <3>1 DEF Busy, Stored
    <3>3. activeTarget = goal[f]
      BY <3>2 DEF SerialSwitches, SerialCalls
    <3> QED BY <2>1, <3>1, <3>3 DEF NewsInv
  <2>3. CASE CallProxy(f) \/ ProxySwitches(f)
    <3>1. phase'[f] # "idle"
      BY <2>1, <2>3 DEF CallProxy, ProxySwitches
    <3> QED BY <2>1, <3>1 DEF NewsInv
  <2> QED BY <1>3, <2>2, <2>3 DEF Switching, SwitchCall
<1>4. ASSUME NEW f \in Fetchers, Resume(f)  PROVE NewsInv'
  BY <1>4 DEF Resume, NewsInv, OneCaller, allVars, vars, pvars, svars, callVars
<1>5. CASE World
  <2>1. UNCHANGED <<activeTarget, phase, goal, news, fpc>>
    <3>1. CASE \E t \in Tags : MoveTag(t) /\ UNCHANGED <<allVars, news>>
      BY <3>1 DEF MoveTag, allVars, vars, pvars, svars, callVars
    <3>2. CASE Environment /\ UNCHANGED <<gvars, news>>
      BY <3>2, EnvironmentApart DEF callVars, gvars
    <3> QED BY <1>5, <3>1, <3>2 DEF World
  <2> QED BY <2>1 DEF NewsInv
<1>6. CASE UNCHANGED deploymentVars
  BY <1>6 DEF NewsInv, deploymentVars, allVars, vars, pvars, svars, callVars, gvars
<1> QED BY <1>1, <1>2, <1>3, <1>4, <1>5, <1>6 DEF DeploymentNext, Fetching

(* Traffic goes to the backend of the last tag change that was told of     *)
(* while that backend was healthy, whenever no listener is at work         *)
(* (app.go:159, gitwatcher.go:188).                                        *)
THEOREM DeploymentNewsIsFollowed ==
  ASSUME OneCaller PROVE DeploymentSpec => []NewsIsFollowed
<1>1. DeploymentInit => NewsInv
  BY FetchersCall DEF DeploymentInit, NewsInv, SwitcherInit
<1>2. ASSUME GitInv, DrainerInv, SwitcherInv, SerialSwitches, NewsInv,
             [DeploymentNext]_deploymentVars
      PROVE  NewsInv'
  BY <1>2, OneCaller, NewsStep
<1>3. ASSUME NewsInv PROVE NewsIsFollowed
  BY <1>3, PollerAssumption DEF NewsInv, NewsIsFollowed, Settled
<1>4. SwitcherSpec => []SerialSwitches
  BY OneCaller, SerialSwitcher
<1>5. DeploymentSpec => []DrainerInv /\ []SwitcherInv /\ []SerialSwitches /\ []GitInv
  BY <1>4, DeploymentImplementsGitWatcher, GitInvariant, DeploymentImplementsSwitcher,
     SwitcherImplementsProxy, ProxyDrainerInv, SwitcherInvariant, PTL
<1> QED BY <1>1, <1>2, <1>3, <1>5, PTL DEF DeploymentSpec
==============================================================================
