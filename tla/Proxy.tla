-------------------------------- MODULE Proxy --------------------------------
(***************************************************************************)
(* The reverse proxy, internal/proxy/proxy.go: ServeHTTP routes a request  *)
(* to the backend that is active when it is tracked; Switch drains, stores *)
(* the new target and resets the drainer.  Requests and concurrent Switch  *)
(* calls share the Drainer, whose steps theirs are made of.                *)
(***************************************************************************)
EXTENDS Drainer

CONSTANTS NoTarget
Targets == {"blue", "green"}
ASSUME NoTargetAssumption == NoTarget \notin Targets

VARIABLES activeTarget, \* p.activeTarget
          route,        \* per request, the local target of ServeHTTP
          want          \* per caller, the parameter target of Switch

pvars == <<activeTarget, route, want>>
vars == <<dvars, pvars>>

ProxyInit ==
  /\ DrainerInit
  /\ activeTarget = "blue"
  /\ route = [r \in Requests |-> NoTarget]
  /\ want = [c \in Callers |-> NoTarget]

------------------------------------------------------------------------------
(* ServeHTTP *)

\* Mutant: the check of draining is not made under the drainer's mutex.
UncheckedAdmission(r) == (Enter(r) \/ Reject(r) \/ Retry(r)) /\ UNCHANGED pvars

(* Track, or 503 and the client's retry. *)
Admission(r) == (Track(r) \/ Reject(r) \/ Retry(r)) /\ UNCHANGED pvars

(* The target is read after the request is tracked, in a step of its own. *)
ChooseRoute(r) ==
  /\ req[r] = "tracked"
  /\ route[r] = NoTarget
  /\ route' = [route EXCEPT ![r] = activeTarget]
  /\ UNCHANGED <<dvars, activeTarget, want>>

(* The backend has answered or failed: the deferred release runs. *)
Finish(r) == route[r] # NoTarget /\ ReleaseActive(r) /\ UNCHANGED pvars

Leave(r) == /\ ReleaseDone(r)
            /\ route' = [route EXCEPT ![r] = NoTarget]
            /\ UNCHANGED <<activeTarget, want>>

ServeHTTP(r) == Admission(r) \/ ChooseRoute(r) \/ Finish(r) \/ Leave(r)

------------------------------------------------------------------------------
(* Switch.  On the current target it returns at once and changes nothing.  *)

SwitchStart(c, target) ==
  /\ pc[c] = "idle"
  /\ activeTarget # target
  /\ CallDrain(c)
  /\ want' = [want EXCEPT ![c] = target]
  /\ UNCHANGED <<activeTarget, route>>

SwitchDrain(c) == DrainSteps(c) /\ UNCHANGED pvars

\* Mutant: a drain that timed out ends the switch with the old target.
StoreIfDrained(c) ==
  /\ pc[c] \in {"drained", "timedout"}
  /\ activeTarget' = IF pc[c] = "drained" THEN want[c] ELSE activeTarget
  /\ CallReset(c)
  /\ UNCHANGED <<route, want>>

(* A drain that timed out is logged and the target stored all the same. *)
SwitchStore(c) ==
  /\ pc[c] \in {"drained", "timedout"}
  /\ activeTarget' = want[c]
  /\ CallReset(c)
  /\ UNCHANGED <<route, want>>

SwitchReset(c) ==
  /\ ResetSteps(c)
  /\ want' = IF pc'[c] = "idle" THEN [want EXCEPT ![c] = NoTarget] ELSE want
  /\ UNCHANGED <<activeTarget, route>>

SwitchSteps(c) == SwitchDrain(c) \/ SwitchStore(c) \/ SwitchReset(c)

------------------------------------------------------------------------------
Background(d) == WaiterStep(d) /\ UNCHANGED pvars

ProxyNext == \/ \E r \in Requests : ServeHTTP(r)
             \/ \E d \in Dones : Background(d)
             \/ \E c \in Callers : SwitchSteps(c) \/ \E t \in Targets : SwitchStart(c, t)

ProxySpec == ProxyInit /\ [][ProxyNext]_vars

(* As for the drainer: a Switch that has begun goes on.  Requests may hang *)
(* for as long as they like.                                               *)
SwitchFairness ==
  /\ \A d \in Dones : WF_vars(Background(d))
  /\ \A c \in Callers :
       /\ WF_vars(SwitchSteps(c))
       /\ SF_vars(SwitchDrain(c) /\ DrainLock(c))
       /\ SF_vars(SwitchReset(c) /\ ResetCheck(c))
(* Every request that has been admitted ends. *)
RequestFairness ==
  \A r \in Requests : WF_vars(ChooseRoute(r)) /\ WF_vars(Finish(r)) /\ WF_vars(Leave(r))

ProxyHangingSpec == ProxySpec /\ SwitchFairness
ProxyFairSpec == ProxySpec /\ SwitchFairness /\ RequestFairness

------------------------------------------------------------------------------
(* Properties *)

(* Type invariant of the proxy's own state and its callers' parameters. *)
ProxyTypeOK == /\ activeTarget \in Targets
               /\ route \in [Requests -> Targets \cup {NoTarget}]
               /\ want \in [Callers -> Targets \cup {NoTarget}]

(* The proxy uses the drainer as the drainer's specification allows, so    *)
(* that what is true of the drainer is true inside the proxy: ServeHTTP    *)
(* releases once what it tracked, Switch alternates Drain and Reset.       *)
ImplementsDrainer == DrainerSpec

(* Whenever the proxy admits requests, the ones inside are all on their    *)
(* way to the active backend: none is left on the old one, also after a    *)
(* drain that timed out (proxy.go:181-192).                                *)
OpenMeansCurrent ==
  ~draining => \A r \in Requests : route[r] \in {NoTarget, activeTarget}

(* "Active connections are drained before switching backends" (README.md:  *)
(* 19): a Switch whose Drain returned nil changes the backend under no     *)
(* request.                                                                *)
DrainedBeforeSwitch ==
  [][\A c \in Callers :
       pc[c] = "drained" /\ activeTarget' # activeTarget => InFlight = {}]_vars

(* Switch returns in bounded waits even when requests hang forever: the    *)
(* drain times out, the next one gives up waiting for it, and Reset does   *)
(* not block (drainer.go:130).                                             *)
SwitchReturns == \A c \in Callers : pc[c] # "idle" ~> pc[c] = "idle"

(* "the next Drain() call will handle cleanup" (drainer.go:133): a proxy   *)
(* left draining by a timeout serves again if requests end and switches    *)
(* keep being made.                                                        *)
CleanedUpByNextSwitch ==
  RequestFairness /\ []<><<\E c \in Callers : pc[c] = "idle" /\ pc'[c] # "idle">>_vars
    => []<>(~draining)

(* A switch that went on in spite of its drain timeout ("drain timeout     *)
(* reached, switching anyway", proxy.go:182) "switches traffic to the new  *)
(* backend" (README.md:183): with no Switch running, the proxy comes to    *)
(* serve again, or another Switch begins.                                  *)
ServiceRestored ==
  (\A c \in Callers : pc[c] = "idle")
    ~> (~draining \/ \E c \in Callers : pc[c] # "idle")
==============================================================================
