------------------------------- MODULE Drainer -------------------------------
(***************************************************************************)
(* The connection drainer, internal/proxy/drainer.go: requests enter with  *)
(* Track and leave through the function it returns; Drain refuses new ones *)
(* and waits for those inside; Reset reopens.  Callers use the exported    *)
(* methods in any order and concurrently.                                  *)
(*                                                                         *)
(* A section guarded by mu is one step.  drainMu is held across several    *)
(* steps, so its holder is a variable.  A done channel is an element of    *)
(* Dones: it is closed exactly when the goroutine that Drain starts for it *)
(* has ended, and an element nobody refers to stands for a new channel.    *)
(***************************************************************************)
EXTENDS Integers, FiniteSets

CONSTANTS Requests,     \* goroutines serving a request
          Callers,      \* goroutines calling Drain and Reset
          Dones,        \* identities of the done channels
          NoCaller, NoDone

ASSUME RequestsAssumption == IsFiniteSet(Requests)
ASSUME NoCallerAssumption == NoCaller \notin Callers
ASSUME NoDoneAssumption   == NoDone \notin Dones

VARIABLES active,       \* d.activeConnections
          wg,           \* the counter of d.wg
          draining,     \* d.draining
          drainCh,      \* the channel in d.drainCh: "open", "closed", "panicked"
          drainMu,      \* the caller that holds d.drainMu
          prevDone,     \* d.prevDone
          waiter,       \* per done channel, the goroutine that will close it
          req,          \* per request, how far it is
          pc            \* per caller, the statement it is at

counters == <<active, wg>>
dvars == <<active, wg, draining, drainCh, drainMu, prevDone, waiter, req, pc>>

WaiterStates == {"exited", "spawned", "parked", "woken", "returned", "panicked"}
RequestStates == {"idle", "tracked", "releasing", "rejected"}

(* Where a caller can make its next call: it never called, or Drain has    *)
(* returned nil ("drained") or ctx.Err() ("timedout").                     *)
Ready == {"idle", "drained", "timedout"}
(* The statements executed with drainMu held. *)
Critical == {"drain_prev", "drain_mark", "drain_spawn", "drain_wait",
             "reset_open", "reset_keep"}

Tracked == {r \in Requests : req[r] = "tracked"}
InFlight == {r \in Requests : req[r] \in {"tracked", "releasing"}}
Closed(d) == waiter[d] = "exited"

DrainerInit ==
  /\ active = 0 /\ wg = 0
  /\ draining = FALSE
  /\ drainCh = "open"
  /\ drainMu = NoCaller
  /\ prevDone = NoDone
  /\ waiter = [d \in Dones |-> "exited"]
  /\ req = [r \in Requests |-> "idle"]
  /\ pc = [c \in Callers |-> "idle"]

------------------------------------------------------------------------------
(* Requests *)

Enter(r) ==
  /\ req[r] = "idle"
  /\ active' = active + 1
  /\ wg' = wg + 1
  /\ req' = [req EXCEPT ![r] = "tracked"]
  /\ UNCHANGED <<draining, drainCh, drainMu, prevDone, waiter, pc>>

Track(r) == ~draining /\ Enter(r)

(* Track returns nil: the request is answered 503. *)
Reject(r) ==
  /\ req[r] = "idle"
  /\ draining
  /\ req' = [req EXCEPT ![r] = "rejected"]
  /\ UNCHANGED <<counters, draining, drainCh, drainMu, prevDone, waiter, pc>>

(* The client of a rejected request comes back with a new one. *)
Retry(r) ==
  /\ req[r] = "rejected"
  /\ req' = [req EXCEPT ![r] = "idle"]
  /\ UNCHANGED <<counters, draining, drainCh, drainMu, prevDone, waiter, pc>>

(* The release function holds no mutex: it is two steps. *)
ReleaseActive(r) ==
  /\ req[r] = "tracked"
  /\ active' = active - 1
  /\ req' = [req EXCEPT ![r] = "releasing"]
  /\ UNCHANGED <<wg, draining, drainCh, drainMu, prevDone, waiter, pc>>

ReleaseDone(r) ==
  /\ req[r] = "releasing"
  /\ wg' = wg - 1
  /\ waiter' = [d \in Dones |-> IF wg' = 0 /\ waiter[d] = "parked"
                                  THEN "woken" ELSE waiter[d]]
  /\ req' = [req EXCEPT ![r] = "idle"]
  /\ UNCHANGED <<active, draining, drainCh, drainMu, prevDone, pc>>

------------------------------------------------------------------------------
(* The goroutine of a Drain: wg.Wait(), then close(done).  sync.WaitGroup  *)
(* parks a waiter that finds the counter positive, and panics when a woken *)
(* one finds the counter in use again.                                     *)

WaitEnter(d) ==
  /\ waiter[d] = "spawned"
  /\ waiter' = [waiter EXCEPT ![d] = IF wg = 0 THEN "returned" ELSE "parked"]
  /\ UNCHANGED <<counters, draining, drainCh, drainMu, prevDone, req, pc>>

WaitWake(d) ==
  /\ waiter[d] = "woken"
  /\ waiter' = [waiter EXCEPT ![d] = IF wg = 0 THEN "returned" ELSE "panicked"]
  /\ UNCHANGED <<counters, draining, drainCh, drainMu, prevDone, req, pc>>

\* Mutant: the goroutine waits again and does not get to close(done).
NeverCloses(d) ==
  /\ waiter[d] = "returned"
  /\ waiter' = [waiter EXCEPT ![d] = "woken"]
  /\ UNCHANGED <<counters, draining, drainCh, drainMu, prevDone, req, pc>>

CloseDone(d) ==
  /\ waiter[d] = "returned"
  /\ waiter' = [waiter EXCEPT ![d] = "exited"]
  /\ UNCHANGED <<counters, draining, drainCh, drainMu, prevDone, req, pc>>

------------------------------------------------------------------------------
(* Drain *)

CallDrain(c) ==
  /\ pc[c] \in Ready
  /\ pc' = [pc EXCEPT ![c] = "drain_lock"]
  /\ UNCHANGED <<counters, draining, drainCh, drainMu, prevDone, waiter, req>>

\* Mutant: Drain does not wait for the previous drain.
DrainIgnoresPrev(c) ==
  /\ pc[c] = "drain_lock"
  /\ drainMu = NoCaller
  /\ drainMu' = c
  /\ pc' = [pc EXCEPT ![c] = "drain_mark"]
  /\ UNCHANGED <<counters, draining, drainCh, prevDone, waiter, req>>

DrainLock(c) ==
  /\ pc[c] = "drain_lock"
  /\ drainMu = NoCaller
  /\ drainMu' = c
  /\ pc' = [pc EXCEPT ![c] = IF prevDone = NoDone THEN "drain_mark"
                                                  ELSE "drain_prev"]
  /\ UNCHANGED <<counters, draining, drainCh, prevDone, waiter, req>>

DrainPrevDone(c) ==
  /\ pc[c] = "drain_prev"
  /\ Closed(prevDone)
  /\ pc' = [pc EXCEPT ![c] = "drain_mark"]
  /\ UNCHANGED <<counters, draining, drainCh, drainMu, prevDone, waiter, req>>

(* Drain returns: the deferred unlock of drainMu, and the result. *)
Return(c, result) ==
  /\ drainMu' = NoCaller
  /\ pc' = [pc EXCEPT ![c] = result]

\* Mutant: the select has no case for ctx.Done().
NeverExpires(c) == FALSE

(* The caller's context ends while Drain waits for the previous drain. *)
DrainPrevExpired(c) ==
  /\ pc[c] = "drain_prev"
  /\ Return(c, "timedout")
  /\ UNCHANGED <<counters, draining, drainCh, prevDone, waiter, req>>

DrainAlready(c) ==
  /\ pc[c] = "drain_mark"
  /\ draining
  /\ Return(c, "drained")
  /\ UNCHANGED <<counters, draining, drainCh, prevDone, waiter, req>>

DrainMark(c) ==
  /\ pc[c] = "drain_mark"
  /\ ~draining
  /\ draining' = TRUE
  /\ drainCh' = IF drainCh = "open" THEN "closed" ELSE "panicked"
  /\ pc' = [pc EXCEPT ![c] = "drain_spawn"]
  /\ UNCHANGED <<counters, drainMu, prevDone, waiter, req>>

DrainSpawn(c) ==
  /\ pc[c] = "drain_spawn"
  /\ \E d \in Dones \ {prevDone} :
       /\ Closed(d)
       /\ prevDone' = d
       /\ waiter' = [waiter EXCEPT ![d] = "spawned"]
  /\ pc' = [pc EXCEPT ![c] = "drain_wait"]
  /\ UNCHANGED <<counters, draining, drainCh, drainMu, req>>

(* The local done is d.prevDone for as long as the caller holds drainMu. *)
DrainDone(c) ==
  /\ pc[c] = "drain_wait"
  /\ Closed(prevDone)
  /\ Return(c, "drained")
  /\ UNCHANGED <<counters, draining, drainCh, prevDone, waiter, req>>

DrainTimeout(c) ==
  /\ pc[c] = "drain_wait"
  /\ Return(c, "timedout")
  /\ UNCHANGED <<counters, draining, drainCh, prevDone, waiter, req>>

------------------------------------------------------------------------------
(* Reset *)

CallReset(c) ==
  /\ pc[c] \in Ready
  /\ pc' = [pc EXCEPT ![c] = "reset_lock"]
  /\ UNCHANGED <<counters, draining, drainCh, drainMu, prevDone, waiter, req>>

\* Mutants: Reset forgets a drain that still runs, or keeps one that is over.
ForgetsPrevDrain == TRUE
KeepsClosedDrain == prevDone = NoDone

PrevDrainDone == prevDone = NoDone \/ Closed(prevDone)

ResetCheck(c) ==
  /\ pc[c] = "reset_lock"
  /\ drainMu = NoCaller
  /\ drainMu' = c
  /\ prevDone' = IF PrevDrainDone THEN NoDone ELSE prevDone
  /\ pc' = [pc EXCEPT ![c] = IF PrevDrainDone THEN "reset_open" ELSE "reset_keep"]
  /\ UNCHANGED <<counters, draining, drainCh, waiter, req>>

\* Mutant: Reset always reopens.
ResetAlwaysOpens(c) ==
  /\ pc[c] \in {"reset_open", "reset_keep"}
  /\ draining' = FALSE
  /\ drainCh' = "open"
  /\ Return(c, "idle")
  /\ UNCHANGED <<counters, prevDone, waiter, req>>

ResetApply(c) ==
  /\ pc[c] \in {"reset_open", "reset_keep"}
  /\ draining' = (draining /\ pc[c] = "reset_keep")
  /\ drainCh' = "open"
  /\ Return(c, "idle")
  /\ UNCHANGED <<counters, prevDone, waiter, req>>

------------------------------------------------------------------------------
RequestStep(r) == \/ Track(r) \/ Reject(r) \/ Retry(r)
                  \/ ReleaseActive(r) \/ ReleaseDone(r)
WaiterStep(d) == WaitEnter(d) \/ WaitWake(d) \/ CloseDone(d)
(* The statements of a call that has been made. *)
DrainSteps(c) == \/ DrainLock(c) \/ DrainPrevDone(c) \/ DrainPrevExpired(c)
                 \/ DrainAlready(c) \/ DrainMark(c) \/ DrainSpawn(c)
                 \/ DrainDone(c) \/ DrainTimeout(c)
ResetSteps(c) == ResetCheck(c) \/ ResetApply(c)
CallerStep(c) == CallDrain(c) \/ CallReset(c) \/ DrainSteps(c) \/ ResetSteps(c)

DrainerNext == \/ \E r \in Requests : RequestStep(r)
               \/ \E d \in Dones : WaiterStep(d)
               \/ \E c \in Callers : CallerStep(c)

DrainerSpec == DrainerInit /\ [][DrainerNext]_dvars

(* Goroutines that can run do; sync.Mutex hands a contended drainMu to the *)
(* longest waiter, so acquiring it is strongly fair.  Nobody is obliged to *)
(* call Drain or Reset, and no request is obliged to end.  A call blocked  *)
(* in a select ends at the latest with its context: DrainTimeout has a     *)
(* timeout of its own, and the context in DrainPrevExpired comes from      *)
(* HandleTagChange, which gives it 30 seconds.                             *)
DrainerFairness ==
  /\ \A d \in Dones : WF_dvars(WaiterStep(d))
  /\ \A c \in Callers : /\ WF_dvars(DrainSteps(c)) /\ WF_dvars(ResetSteps(c))
                        /\ SF_dvars(DrainLock(c)) /\ SF_dvars(ResetCheck(c))

DrainerFairSpec == DrainerSpec /\ DrainerFairness

------------------------------------------------------------------------------
(* Properties *)

(* Type invariant of the drainer's fields and of the callers' positions.   *)
(* A negative counter would be a panic of sync.WaitGroup.                  *)
DrainerTypeOK ==
  /\ active \in Nat /\ wg \in Nat
  /\ draining \in BOOLEAN
  /\ drainCh \in {"open", "closed", "panicked"}
  /\ drainMu \in Callers \cup {NoCaller}
  /\ prevDone \in Dones \cup {NoDone}
  /\ waiter \in [Dones -> WaiterStates]
  /\ req \in [Requests -> RequestStates]
  /\ pc \in [Callers -> Ready \cup Critical \cup {"drain_lock", "reset_lock"}]

(* Reset's comment (drainer.go:129): keeping draining set while the        *)
(* previous drain runs prevents WaitGroup reuse panics.  No goroutine      *)
(* woken from wg.Wait() ever finds the counter in use again, whatever the  *)
(* order in which Track, Drain, Reset and the releases interleave.         *)
NoWaitGroupPanic == \A d \in Dones : waiter[d] # "panicked"

(* close(d.drainCh) in Drain (drainer.go:108) never closes a closed        *)
(* channel, although Reset replaces the channel without ending the drain.  *)
NoDoubleClose == drainCh # "panicked"

(* Drain's comment (drainer.go:90): there are never two wg.Wait()          *)
(* goroutines at once, also after drains that timed out; and the one there *)
(* is belongs to the channel that the next Drain will wait for.            *)
SingleWaiter == \A d \in Dones : ~Closed(d) => prevDone = d /\ draining

(* "It returns when all connections are drained or the context is          *)
(* cancelled" (drainer.go:83): at the moment Drain returns nil, by either  *)
(* of its two ways, no request is inside.                                  *)
DrainNilMeansEmpty ==
  [][\A c \in Callers : (pc[c] # "drained" /\ pc'[c] = "drained") => InFlight = {}]_dvars

(* What holds between any two steps, from which the rest follows.          *)
Counts == /\ wg = Cardinality(InFlight)
          /\ active = Cardinality(Tracked)
(* drainMu is held by the caller that is inside, and only one is. *)
MutexHeld == \A c \in Callers : pc[c] \in Critical <=> drainMu = c
(* An open drainer has no drain to remember, and a channel to close. *)
OpenIsClean == ~draining => prevDone = NoDone /\ drainCh = "open"
(* A drain that has been forgotten is about to be recorded or reset. *)
DrainRecorded ==
  draining /\ prevDone = NoDone
    => \E c \in Callers : pc[c] \in {"drain_spawn", "reset_open"}
(* A wg.Wait() that has returned, or is about to, has seen the end of all. *)
QuietAfterWait ==
  /\ \A d \in Dones : waiter[d] \in {"woken", "returned"} => wg = 0
  /\ prevDone # NoDone /\ Closed(prevDone) => wg = 0
CallerInv(c) ==
  /\ pc[c] \in {"drain_prev", "drain_wait", "reset_keep"} => prevDone # NoDone
  /\ pc[c] = "drain_mark" => PrevDrainDone
  /\ pc[c] = "drain_spawn" => draining /\ prevDone = NoDone
  /\ pc[c] = "reset_open" => prevDone = NoDone /\ (draining => wg = 0)

(* The inductive invariant of the drainer. *)
DrainerInv ==
  /\ DrainerTypeOK
  /\ Counts
  /\ MutexHeld
  /\ OpenIsClean
  /\ DrainRecorded
  /\ SingleWaiter
  /\ NoWaitGroupPanic
  /\ NoDoubleClose
  /\ QuietAfterWait
  /\ \A c \in Callers : CallerInv(c)

(* The refinement mapping to DrainGate.  A gate is drained from the moment *)
(* the done channel of the drain is closed, until Reset clears draining.   *)
GateOf == IF ~draining THEN "open"
          ELSE IF \/ prevDone # NoDone /\ Closed(prevDone)
                  \/ \E c \in Callers : pc[c] = "reset_open"
               THEN "drained" ELSE "shut"

Gate == INSTANCE DrainGate WITH gate <- GateOf, inflight <- InFlight

(* The drainer implements the gate: after a drain has begun no request is  *)
(* admitted until every request from before it has left, no matter how     *)
(* many drains time out, are repeated or are reset in between, and in the  *)
(* end the gate is found empty.                                            *)
ImplementsGate == Gate!Spec
ImplementsFairGate == Gate!FairSpec

(* Every Drain returns, also when others hold drainMu for a whole drain    *)
(* timeout each, and Reset, called non-blocking in its comment             *)
(* (drainer.go:130), gets through although it has to wait for drainMu.     *)
CallsReturn ==
  \A c \in Callers : (pc[c] \notin Ready) ~> (pc[c] \in Ready)
==============================================================================
