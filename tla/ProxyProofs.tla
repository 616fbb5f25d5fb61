----------------------------- MODULE ProxyProofs -----------------------------
(***************************************************************************)
(* Theorems about the proxy: it uses the drainer as specified, and, when   *)
(* Switch calls come one at a time, no request is left behind on the old   *)
(* backend.  (Run proxy_race shows that the second fails for two.)         *)
(***************************************************************************)
EXTENDS Proxy, DrainerProofs

(* What the proxy does to the drainer is a step of the drainer, or none. *)
LEMMA ProxyStepIsDrainerStep == [ProxyNext]_vars => [DrainerNext]_dvars
<1> SUFFICES ASSUME [ProxyNext]_vars PROVE [DrainerNext]_dvars
  OBVIOUS
<1>1. ASSUME NEW r \in Requests, ServeHTTP(r) PROVE [DrainerNext]_dvars
  BY <1>1 DEF ServeHTTP, Admission, ChooseRoute, Finish, Leave, DrainerNext, RequestStep
<1>2. ASSUME NEW d \in Dones, Background(d) PROVE [DrainerNext]_dvars
  BY <1>2 DEF Background, DrainerNext
<1>3. ASSUME NEW c \in Callers, SwitchSteps(c) \/ \E t \in Targets : SwitchStart(c, t)
      PROVE  [DrainerNext]_dvars
  BY <1>3 DEF SwitchSteps, SwitchStart, SwitchDrain, SwitchStore, SwitchReset,
              DrainerNext, CallerStep
<1>4. CASE UNCHANGED vars
  BY <1>4 DEF vars
<1> QED
  BY <1>1, <1>2, <1>3, <1>4 DEF ProxyNext

(* Whatever holds of the drainer for all its callers holds in the proxy.   *)
THEOREM ProxyImplementsDrainer == ProxySpec => ImplementsDrainer
<1>1. ProxyInit => DrainerInit
  BY DEF ProxyInit
<1> QED
  BY <1>1, ProxyStepIsDrainerStep, PTL DEF ProxySpec, DrainerSpec, ImplementsDrainer

COROLLARY ProxyDrainerInv == ProxySpec => []DrainerInv
BY ProxyImplementsDrainer, DrainerInvariant, PTL DEF ImplementsDrainer

------------------------------------------------------------------------------
(* Switch calls one at a time *)

OneCaller == \A c1, c2 \in Callers : c1 = c2

(* Only a request that is inside has a route.  The one Switch that is      *)
(* under way keeps the drainer draining from the return of its Drain until *)
(* its Reset, and a Drain that succeeded has left the proxy empty.         *)
SerialInv ==
  /\ ProxyTypeOK
  /\ \A r \in Requests : route[r] # NoTarget => r \in InFlight
  /\ OpenMeansCurrent
  /\ \A c \in Callers :
       /\ pc[c] = "drained" => draining /\ InFlight = {}
       /\ pc[c] \in {"timedout", "reset_lock", "reset_open", "reset_keep"} => draining
       /\ pc[c] # "idle" => want[c] \in Targets

(* The initial state has the serial invariant. *)
LEMMA SerialInit == ProxyInit => SerialInv
BY NoTargetAssumption DEF ProxyInit, DrainerInit, SerialInv, ProxyTypeOK, Targets,
   OpenMeansCurrent

(* The steps of a request preserve it. *)
LEMMA ServeKeepsSerialInv ==
  ASSUME DrainerInv, SerialInv, NEW r \in Requests, ServeHTTP(r) PROVE SerialInv'
<1> USE NoTargetAssumption DEF SerialInv, ProxyTypeOK, DrainerInv, DrainerTypeOK
<1>1. CASE Admission(r)
  <2>1. UNCHANGED <<draining, pc, activeTarget, route, want>>
    BY <1>1 DEF Admission, Track, Enter, Reject, Retry, pvars
  <2>2. InFlight' = InFlight \/ (~draining /\ InFlight' = InFlight \cup {r})
    <3>1. CASE Track(r)
      BY <3>1 DEF Track, Enter, InFlight
    <3>2. CASE Reject(r) \/ Retry(r)
      BY <3>2 DEF Reject, Retry, InFlight
    <3> QED
      BY <1>1, <3>1, <3>2 DEF Admission
  <2> QED
    BY <2>1, <2>2 DEF OpenMeansCurrent
<1>2. CASE ChooseRoute(r)
  <2>1. /\ UNCHANGED <<draining, pc, activeTarget, want, req>>
        /\ r \in InFlight
        /\ route' = [route EXCEPT ![r] = activeTarget]
    BY <1>2 DEF ChooseRoute, dvars, InFlight
  <2>2. InFlight' = InFlight
    BY <2>1 DEF InFlight
  <2> QED
    BY <2>1, <2>2 DEF OpenMeansCurrent
<1>3. CASE Finish(r)
  <2>1. UNCHANGED <<draining, pc, activeTarget, route, want>>
    BY <1>3 DEF Finish, ReleaseActive, pvars
  <2>2. InFlight' = InFlight
    BY <1>3 DEF Finish, ReleaseActive, InFlight
  <2> QED
    BY <2>1, <2>2 DEF OpenMeansCurrent
<1>4. CASE Leave(r)
  <2>1. /\ UNCHANGED <<draining, pc, activeTarget, want>>
        /\ route' = [route EXCEPT ![r] = NoTarget]
    BY <1>4 DEF Leave, ReleaseDone
  <2>2. InFlight' = InFlight \ {r}
    BY <1>4 DEF Leave, ReleaseDone, InFlight
  <2> QED
    BY <2>1, <2>2 DEF OpenMeansCurrent
<1> QED
  BY <1>1, <1>2, <1>3, <1>4 DEF ServeHTTP

(* So do those of the one Switch. *)
LEMMA SwitchKeepsSerialInv ==
  ASSUME OneCaller, DrainerInv, SerialInv, NEW c \in Callers,
         SwitchSteps(c) \/ \E t \in Targets : SwitchStart(c, t)
  PROVE  SerialInv'
<1> USE NoTargetAssumption, NoDoneAssumption
    DEF SerialInv, ProxyTypeOK, DrainerInv, DrainerTypeOK
<1>1. Callers = {c}
  BY DEF OneCaller
<1>2. UNCHANGED <<wg, req, route>>
  BY DEF SwitchSteps, SwitchStart, SwitchDrain, SwitchStore, SwitchReset, CallDrain,
     CallReset, DrainSteps, ResetSteps, DrainLock, DrainPrevDone, DrainPrevExpired,
     DrainAlready, DrainMark, DrainSpawn, DrainDone, DrainTimeout, ResetCheck,
     ResetApply, counters, pvars
<1>3. InFlight' = InFlight
  BY <1>2 DEF InFlight
<1>4. CASE \E t \in Targets : SwitchStart(c, t)
  <2>1. /\ UNCHANGED <<draining, activeTarget>> /\ pc'[c] = "drain_lock"
        /\ want' \in [Callers -> Targets \cup {NoTarget}] /\ want'[c] \in Targets
    BY <1>4 DEF SwitchStart, CallDrain
  <2> QED
    BY <1>1, <1>2, <1>3, <2>1 DEF OpenMeansCurrent
<1>5. CASE SwitchDrain(c)
  <2>1. UNCHANGED <<activeTarget, want>>
    BY <1>5 DEF SwitchDrain, pvars
  <2>2. CASE DrainLock(c) \/ DrainPrevDone(c) \/ DrainMark(c) \/ DrainSpawn(c)
    <3>1. /\ pc'[c] \in {"drain_mark", "drain_prev", "drain_spawn", "drain_wait"}
          /\ pc[c] # "idle" /\ (draining' = draining \/ draining' = TRUE)
      BY <2>2 DEF DrainLock, DrainPrevDone, DrainMark, DrainSpawn
    <3> QED
      BY <1>1, <1>2, <1>3, <2>1, <3>1 DEF OpenMeansCurrent
  <2>3. CASE DrainPrevExpired(c) \/ DrainTimeout(c)
    <3>1. /\ pc[c] \in {"drain_prev", "drain_wait"} /\ pc'[c] = "timedout"
          /\ draining' = draining
      BY <2>3 DEF DrainPrevExpired, DrainTimeout, Return
    <3>2. draining
      BY <3>1 DEF CallerInv, OpenIsClean
    <3> QED
      BY <1>1, <1>2, <1>3, <2>1, <3>1, <3>2 DEF OpenMeansCurrent
  <2>4. CASE DrainAlready(c) \/ DrainDone(c)
    <3>1. pc[c] # "idle" /\ pc'[c] = "drained" /\ draining' = draining
      BY <2>4 DEF DrainAlready, DrainDone, Return
    <3>2. draining
      BY <2>4 DEF DrainAlready, DrainDone, CallerInv, OpenIsClean
    <3>3. prevDone # NoDone /\ Closed(prevDone)
      BY <1>1, <2>4 DEF DrainAlready, DrainDone, CallerInv, PrevDrainDone, DrainRecorded
    <3>4. InFlight = {}
      BY <3>3, ZeroMeansEmpty DEF QuietAfterWait
    <3> QED
      BY <1>1, <1>2, <1>3, <2>1, <3>1, <3>2, <3>4 DEF OpenMeansCurrent
  <2> QED
    BY <1>5, <2>2, <2>3, <2>4 DEF SwitchDrain, DrainSteps
<1>6. CASE SwitchStore(c)
  <2>1. /\ pc[c] \in {"drained", "timedout"} /\ pc'[c] = "reset_lock"
        /\ draining' = draining /\ want' = want /\ activeTarget' = want[c]
    BY <1>6 DEF SwitchStore, CallReset
  <2>2. want[c] \in Targets
    BY <2>1
  <2> QED
    BY <1>1, <1>2, <1>3, <2>1, <2>2 DEF OpenMeansCurrent
<1>7. CASE SwitchReset(c)
  <2>1. activeTarget' = activeTarget
    BY <1>7 DEF SwitchReset
  <2>2. CASE ResetCheck(c)
    <3>1. /\ pc[c] = "reset_lock" /\ pc'[c] \in {"reset_open", "reset_keep"}
          /\ draining' = draining
      BY <2>2 DEF ResetCheck
    <3>2. want' = want
      BY <1>7, <3>1 DEF SwitchReset
    <3> QED
      BY <1>1, <1>2, <1>3, <2>1, <3>1, <3>2 DEF OpenMeansCurrent
  <2>3. CASE ResetApply(c)
    <3>1. /\ pc[c] \in {"reset_open", "reset_keep"} /\ pc'[c] = "idle"
          /\ draining' <=> draining /\ pc[c] = "reset_keep"
      BY <2>3 DEF ResetApply, Return
    <3>2. want' \in [Callers -> Targets \cup {NoTarget}]
      BY <1>7 DEF SwitchReset
    <3>3. pc[c] = "reset_open" => InFlight = {}
      BY ZeroMeansEmpty DEF CallerInv
    <3>4. OpenMeansCurrent'
      BY <1>2, <2>1, <3>1, <3>3 DEF OpenMeansCurrent
    <3> QED
      BY <1>1, <1>2, <1>3, <2>1, <3>1, <3>2, <3>4
  <2> QED
    BY <1>7, <2>2, <2>3 DEF SwitchReset, ResetSteps
<1> QED
  BY <1>4, <1>5, <1>6, <1>7 DEF SwitchSteps

(* Every step preserves it. *)
LEMMA StepSerialInv ==
  ASSUME OneCaller, DrainerInv, SerialInv, [ProxyNext]_vars PROVE SerialInv'
<1>1. ASSUME NEW d \in Dones, Background(d) PROVE SerialInv'
  BY <1>1 DEF Background, WaiterStep, WaitEnter, WaitWake, CloseDone, pvars,
     SerialInv, ProxyTypeOK, OpenMeansCurrent, InFlight
<1>2. CASE UNCHANGED vars
  BY <1>2 DEF vars, dvars, pvars, SerialInv, ProxyTypeOK, OpenMeansCurrent, InFlight
<1> QED
  BY <1>1, <1>2, ServeKeepsSerialInv, SwitchKeepsSerialInv DEF ProxyNext

(* While the proxy admits requests, no request inside is routed to another *)
(* backend than the active one (proxy.go:181-192).                         *)
THEOREM SerialOpenMeansCurrent ==
  ASSUME OneCaller PROVE ProxySpec => []OpenMeansCurrent
<1>1. ASSUME DrainerInv, SerialInv, [ProxyNext]_vars PROVE SerialInv'
  BY <1>1, OneCaller, StepSerialInv
<1>2. SerialInv => OpenMeansCurrent
  BY DEF SerialInv
<1> QED
  BY <1>1, <1>2, SerialInit, ProxyDrainerInv, PTL DEF ProxySpec

(* A drain that succeeded leaves no request to change the backend under    *)
(* (README.md:19).                                                         *)
THEOREM SerialDrainedBeforeSwitch ==
  ASSUME OneCaller PROVE ProxySpec => DrainedBeforeSwitch
<1>1. ASSUME DrainerInv, SerialInv, [ProxyNext]_vars PROVE SerialInv'
  BY <1>1, OneCaller, StepSerialInv
<1>2. SerialInv
        => (\A c \in Callers :
              pc[c] = "drained" /\ activeTarget' # activeTarget => InFlight = {})
  BY DEF SerialInv
<1> QED
  BY <1>1, <1>2, SerialInit, ProxyDrainerInv, PTL DEF ProxySpec, DrainedBeforeSwitch
==============================================================================
