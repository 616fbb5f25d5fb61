---------------------------- MODULE DrainerProofs ----------------------------
(***************************************************************************)
(* Theorems about the connection drainer, for any number of requests and   *)
(* of callers.                                                             *)
(***************************************************************************)
EXTENDS Drainer, FiniteSetTheorems, TLAPS

(* The initial state is typed. *)
LEMMA InitTyping == DrainerInit => DrainerTypeOK
<1> SUFFICES ASSUME DrainerInit PROVE DrainerTypeOK
  OBVIOUS
<1>1. active \in Nat /\ wg \in Nat /\ drainCh \in {"open", "closed", "panicked"}
  BY DEF DrainerInit
<1>2. /\ draining \in BOOLEAN
      /\ drainMu \in Callers \cup {NoCaller}
      /\ prevDone \in Dones \cup {NoDone}
  BY DEF DrainerInit
<1>3. waiter \in [Dones -> WaiterStates] /\ req \in [Requests -> RequestStates]
  BY DEF DrainerInit, WaiterStates, RequestStates
<1>4. pc \in [Callers -> Ready \cup Critical \cup {"drain_lock", "reset_lock"}]
  BY DEF DrainerInit, Ready
<1> QED
  BY <1>1, <1>2, <1>3, <1>4 DEF DrainerTypeOK

------------------------------------------------------------------------------
(* The counters *)

(* Sets of requests are finite, and their numbers natural. *)
LEMMA RequestSets ==
  /\ IsFiniteSet(InFlight) /\ IsFiniteSet(Tracked)
  /\ Tracked \subseteq InFlight
<1>1. InFlight \subseteq Requests /\ Tracked \subseteq Requests
  BY DEF InFlight, Tracked
<1>2. IsFiniteSet(InFlight) /\ IsFiniteSet(Tracked)
  BY <1>1, RequestsAssumption, FS_Subset
<1>3. Tracked \subseteq InFlight
  BY DEF InFlight, Tracked
<1> QED
  BY <1>2, <1>3

(* A zero WaitGroup counter means that no request is inside. *)
LEMMA ZeroMeansEmpty == Counts /\ wg = 0 => InFlight = {}
BY RequestSets, FS_EmptySet DEF Counts

(* A request inside keeps the WaitGroup counter positive. *)
LEMMA InFlightMeansPositive ==
  ASSUME Counts, NEW r \in InFlight PROVE wg \in Nat /\ wg > 0
<1>1. Cardinality(InFlight) \in Nat
  BY RequestSets, FS_CardinalityType
<1>2. Cardinality(InFlight) # 0
  BY RequestSets, FS_EmptySet
<1> QED
  BY <1>1, <1>2 DEF Counts

(* A tracked request keeps the WaitGroup above zero. *)
LEMMA TrackedMeansPositive ==
  ASSUME Counts, NEW r \in Tracked PROVE active \in Nat /\ active > 0
<1>1. Cardinality(Tracked) \in Nat
  BY RequestSets, FS_CardinalityType
<1>2. Cardinality(Tracked) # 0
  BY RequestSets, FS_EmptySet
<1> QED
  BY <1>1, <1>2 DEF Counts

(* Every step keeps the types. *)
LEMMA StepTyping ==
  ASSUME DrainerTypeOK, Counts, [DrainerNext]_dvars PROVE DrainerTypeOK'
<1> USE DEF DrainerTypeOK, WaiterStates, RequestStates, Ready, Critical, counters
<1>1. ASSUME NEW r \in Requests, RequestStep(r) PROVE DrainerTypeOK'
  <2>1. CASE ReleaseActive(r)
    <3>1. active > 0
      BY <2>1, TrackedMeansPositive DEF ReleaseActive, Tracked
    <3> QED
      BY <2>1, <3>1 DEF ReleaseActive
  <2>2. CASE ReleaseDone(r)
    <3>1. wg > 0
      BY <2>2, InFlightMeansPositive DEF ReleaseDone, InFlight
    <3> QED
      BY <2>2, <3>1 DEF ReleaseDone
  <2>3. CASE Track(r) \/ Reject(r) \/ Retry(r)
    BY <2>3 DEF Track, Enter, Reject, Retry
  <2> QED
    BY <1>1, <2>1, <2>2, <2>3 DEF RequestStep
<1>2. ASSUME NEW d \in Dones, WaiterStep(d) PROVE DrainerTypeOK'
  BY <1>2 DEF WaiterStep, WaitEnter, WaitWake, CloseDone
<1>3. ASSUME NEW c \in Callers, CallDrain(c) \/ CallReset(c) PROVE DrainerTypeOK'
  BY <1>3 DEF CallDrain, CallReset
<1>4. ASSUME NEW c \in Callers, DrainSteps(c) PROVE DrainerTypeOK'
  BY <1>4 DEF DrainSteps, DrainLock, DrainPrevDone, DrainPrevExpired, DrainAlready,
              DrainMark, DrainSpawn, DrainDone, DrainTimeout, Return
<1>5. ASSUME NEW c \in Callers, ResetSteps(c) PROVE DrainerTypeOK'
  BY <1>5 DEF ResetSteps, ResetCheck, ResetApply, PrevDrainDone, Return
<1>6. CASE UNCHANGED dvars
  BY <1>6 DEF dvars
<1>7. QED
  BY <1>1, <1>2, <1>3, <1>4, <1>5, <1>6 DEF DrainerNext, CallerStep

(* Every request step keeps the counters equal to what they count. *)
LEMMA RequestKeepsCounts ==
  ASSUME DrainerTypeOK, Counts, NEW r \in Requests, RequestStep(r) PROVE Counts'
<1> USE DEF DrainerTypeOK
<1>1. CASE Track(r)
  <2>1. InFlight' = InFlight \cup {r} /\ Tracked' = Tracked \cup {r}
    BY <1>1 DEF Track, Enter, InFlight, Tracked
  <2>2. r \notin InFlight /\ r \notin Tracked
    BY <1>1 DEF Track, Enter, InFlight, Tracked
  <2>3. /\ Cardinality(InFlight') = Cardinality(InFlight) + 1
        /\ Cardinality(Tracked') = Cardinality(Tracked) + 1
    BY <2>1, <2>2, RequestSets, FS_AddElement
  <2> QED
    BY <1>1, <2>3 DEF Track, Enter, Counts
<1>2. CASE ReleaseActive(r)
  <2>1. InFlight' = InFlight /\ Tracked' = Tracked \ {r} /\ r \in Tracked
    BY <1>2 DEF ReleaseActive, InFlight, Tracked
  <2>2. Cardinality(Tracked') = Cardinality(Tracked) - 1
    BY <2>1, RequestSets, FS_RemoveElement
  <2> QED
    BY <1>2, <2>1, <2>2 DEF ReleaseActive, Counts
<1>3. CASE ReleaseDone(r)
  <2>1. InFlight' = InFlight \ {r} /\ Tracked' = Tracked /\ r \in InFlight
    BY <1>3 DEF ReleaseDone, InFlight, Tracked
  <2>2. Cardinality(InFlight') = Cardinality(InFlight) - 1
    BY <2>1, RequestSets, FS_RemoveElement
  <2> QED
    BY <1>3, <2>1, <2>2 DEF ReleaseDone, Counts
<1>4. CASE Reject(r) \/ Retry(r)
  <2>1. InFlight' = InFlight /\ Tracked' = Tracked
    BY <1>4 DEF Reject, Retry, InFlight, Tracked
  <2> QED
    BY <1>4, <2>1 DEF Reject, Retry, Counts, counters
<1> QED
  BY <1>1, <1>2, <1>3, <1>4 DEF RequestStep

(* Nothing else touches them. *)
LEMMA OthersKeepCounts ==
  ASSUME Counts, UNCHANGED <<counters, req>> PROVE Counts'
BY DEF Counts, counters, InFlight, Tracked

------------------------------------------------------------------------------
(* The inductive invariant, one lemma per actor *)

(* The initial state has the invariant. *)
LEMMA InitInv == DrainerInit => DrainerInv
<1> SUFFICES ASSUME DrainerInit PROVE DrainerInv
  OBVIOUS
<1>1. DrainerTypeOK
  BY InitTyping
<1>2. Counts
  <2>1. InFlight = {} /\ Tracked = {}
    BY DEF DrainerInit, InFlight, Tracked
  <2> QED
    BY <2>1, FS_EmptySet DEF DrainerInit, Counts
<1>3. MutexHeld
  BY NoCallerAssumption DEF DrainerInit, MutexHeld, Critical
<1>4. OpenIsClean /\ DrainRecorded /\ SingleWaiter /\ NoWaitGroupPanic /\ NoDoubleClose
  BY DEF DrainerInit, OpenIsClean, DrainRecorded, SingleWaiter, NoWaitGroupPanic,
         NoDoubleClose, Closed
<1>5. QuietAfterWait /\ \A c \in Callers : CallerInv(c)
  BY DEF DrainerInit, QuietAfterWait, CallerInv
<1> QED
  BY <1>1, <1>2, <1>3, <1>4, <1>5 DEF DrainerInv

(* A request can come in only while no drain is remembered, and one that   *)
(* leaves only brings the counter closer to zero.                          *)
LEMMA RequestKeepsInv ==
  ASSUME DrainerInv, DrainerTypeOK', NEW r \in Requests, RequestStep(r)
  PROVE  DrainerInv'
<1> USE DEF DrainerInv
<1>1. Counts'
  BY RequestKeepsCounts
<1>2. UNCHANGED <<draining, drainCh, drainMu, prevDone, pc>>
  BY DEF RequestStep, Track, Enter, Reject, Retry, ReleaseActive, ReleaseDone
<1>3. MutexHeld' /\ OpenIsClean' /\ DrainRecorded' /\ NoDoubleClose'
  BY <1>2 DEF MutexHeld, OpenIsClean, DrainRecorded, NoDoubleClose
<1>4. CASE Track(r)
  <2>1. ~draining /\ UNCHANGED waiter
    BY <1>4 DEF Track, Enter
  <2>2. prevDone = NoDone /\ \A d \in Dones : Closed(d)
    BY <2>1 DEF OpenIsClean, SingleWaiter
  <2>3. SingleWaiter' /\ NoWaitGroupPanic' /\ QuietAfterWait'
    BY <1>2, <2>1, <2>2 DEF SingleWaiter, NoWaitGroupPanic, QuietAfterWait, Closed
  <2>4. \A c \in Callers : CallerInv(c)'
    BY <1>2, <2>1, <2>2 DEF CallerInv, PrevDrainDone, Closed
  <2> QED
    BY <1>1, <1>3, <2>3, <2>4
<1>5. CASE ReleaseDone(r)
  <2>1. wg \in Nat /\ wg > 0
    <3>1. r \in InFlight
      BY <1>5 DEF ReleaseDone, InFlight
    <3> QED
      BY <3>1, InFlightMeansPositive
  <2>2. \A d \in Dones : \/ waiter'[d] = waiter[d]
                        \/ (waiter'[d] = "woken" /\ wg' = 0 /\ waiter[d] = "parked")
    BY <1>5 DEF ReleaseDone
  <2>3. \A d \in Dones : Closed(d)' <=> Closed(d)
    BY <2>2 DEF Closed
  <2>4. SingleWaiter' /\ NoWaitGroupPanic'
    BY <1>2, <2>2, <2>3 DEF SingleWaiter, NoWaitGroupPanic
  <2>5. QuietAfterWait'
    BY <1>2, <2>1, <2>2, <2>3 DEF QuietAfterWait, DrainerTypeOK
  <2>6. \A c \in Callers : CallerInv(c)'
    BY <1>2, <2>1, <2>3 DEF CallerInv, PrevDrainDone, DrainerTypeOK
  <2> QED
    BY <1>1, <1>3, <2>4, <2>5, <2>6
<1>6. CASE Reject(r) \/ Retry(r) \/ ReleaseActive(r)
  <2>1. UNCHANGED <<wg, waiter>>
    BY <1>6 DEF Reject, Retry, ReleaseActive, counters
  <2>2. SingleWaiter' /\ NoWaitGroupPanic' /\ QuietAfterWait'
    BY <1>2, <2>1 DEF SingleWaiter, NoWaitGroupPanic, QuietAfterWait, Closed
  <2>3. \A c \in Callers : CallerInv(c)'
    BY <1>2, <2>1 DEF CallerInv, PrevDrainDone, Closed
  <2> QED
    BY <1>1, <1>3, <2>2, <2>3
<1> QED
  BY <1>4, <1>5, <1>6 DEF RequestStep

(* The waiting goroutine ends only when the counter has been zero, and     *)
(* draining keeps it there.                                                *)
LEMMA WaiterKeepsInv ==
  ASSUME DrainerInv, DrainerTypeOK', NEW d \in Dones, WaiterStep(d)
  PROVE  DrainerInv'
<1> USE DEF DrainerInv
<1>1. UNCHANGED <<active, wg, draining, drainCh, drainMu, prevDone, req, pc>>
  BY DEF WaiterStep, WaitEnter, WaitWake, CloseDone, counters
<1>2. Counts'
  BY <1>1, OthersKeepCounts DEF counters
<1>3. MutexHeld' /\ OpenIsClean' /\ DrainRecorded' /\ NoDoubleClose'
  BY <1>1 DEF MutexHeld, OpenIsClean, DrainRecorded, NoDoubleClose
<1>4. ~Closed(d) /\ prevDone = d /\ draining
  BY DEF WaiterStep, WaitEnter, WaitWake, CloseDone, SingleWaiter, Closed
<1>5. \A e \in Dones : e # d => waiter'[e] = waiter[e] /\ Closed(e)
  BY <1>4 DEF WaiterStep, WaitEnter, WaitWake, CloseDone, DrainerTypeOK, SingleWaiter
<1>6. \/ waiter'[d] = "parked"
      \/ waiter'[d] \in {"returned", "exited"} /\ wg = 0
  BY <1>4 DEF WaiterStep, WaitEnter, WaitWake, CloseDone, DrainerTypeOK, QuietAfterWait
<1>7. SingleWaiter' /\ NoWaitGroupPanic'
  BY <1>1, <1>4, <1>5, <1>6 DEF SingleWaiter, NoWaitGroupPanic, Closed
<1>8. QuietAfterWait'
  BY <1>1, <1>4, <1>5, <1>6 DEF QuietAfterWait, Closed
<1>9. \A c \in Callers : CallerInv(c)'
  BY <1>1, <1>4, NoDoneAssumption DEF CallerInv, PrevDrainDone
<1> QED
  BY <1>2, <1>3, <1>7, <1>8, <1>9

(* drainMu lets at most one caller act on prevDone, and that caller starts *)
(* a drain only after the one before it has ended.                         *)
LEMMA CallerKeepsMutex ==
  ASSUME DrainerTypeOK, MutexHeld, NEW c \in Callers, CallerStep(c)
  PROVE  /\ MutexHeld'
         /\ \A e \in Callers \ {c} : pc'[e] = pc[e]
         /\ pc[c] \in Critical => \A e \in Callers \ {c} : pc[e] \notin Critical
<1> USE NoCallerAssumption DEF DrainerTypeOK, MutexHeld, Critical, Ready
<1>1. CASE CallDrain(c) \/ CallReset(c)
  BY <1>1 DEF CallDrain, CallReset
<1>2. CASE DrainLock(c) \/ DrainPrevDone(c) \/ DrainMark(c) \/ DrainSpawn(c)
  BY <1>2 DEF DrainLock, DrainPrevDone, DrainMark, DrainSpawn
<1>3. CASE \/ DrainPrevExpired(c) \/ DrainAlready(c)
           \/ DrainDone(c) \/ DrainTimeout(c)
  BY <1>3 DEF DrainPrevExpired, DrainAlready, DrainDone, DrainTimeout, Return
<1>4. CASE ResetCheck(c)
  BY <1>4 DEF ResetCheck
<1>5. CASE ResetApply(c)
  BY <1>5 DEF ResetApply, Return
<1> QED
  BY <1>1, <1>2, <1>3, <1>4, <1>5 DEF CallerStep, DrainSteps, ResetSteps

(* The steps of Drain and Reset preserve the invariant. *)
LEMMA CallerKeepsInv ==
  ASSUME DrainerInv, DrainerTypeOK', NEW c \in Callers, CallerStep(c)
  PROVE  DrainerInv'
<1> USE NoDoneAssumption, NoCallerAssumption DEF DrainerInv
<1>1. UNCHANGED <<active, wg, req>>
  BY DEF CallerStep, CallDrain, CallReset, DrainSteps, ResetSteps, DrainLock,
         DrainPrevDone, DrainPrevExpired, DrainAlready, DrainMark, DrainSpawn,
         DrainDone, DrainTimeout, ResetCheck, ResetApply, counters
<1>2. Counts'
  BY <1>1, OthersKeepCounts DEF counters
<1>3. /\ MutexHeld'
      /\ \A e \in Callers \ {c} : pc'[e] = pc[e]
      /\ pc[c] \in Critical => \A e \in Callers \ {c} : pc[e] \notin Critical
  BY CallerKeepsMutex
(* Whoever is not inside drainMu is not concerned by what c does. *)
<1>4. ASSUME pc'[c] \in Critical \/ pc[c] \in Critical
      PROVE  \A e \in Callers \ {c} : CallerInv(e)'
  <2>1. \A e \in Callers \ {c} : pc'[e] \notin Critical
    <3>1. CASE pc[c] \in Critical
      BY <1>3, <3>1
    <3>2. CASE pc'[c] \in Critical
      BY <1>3, <3>2 DEF MutexHeld
    <3> QED
      BY <1>4, <3>1, <3>2
  <2> QED
    BY <2>1 DEF CallerInv, Critical
<1>5. CASE CallDrain(c) \/ CallReset(c)
  <2>1. UNCHANGED <<draining, drainCh, drainMu, prevDone, waiter>>
    BY <1>5 DEF CallDrain, CallReset
  <2>2. pc[c] \in Ready /\ pc'[c] \in {"drain_lock", "reset_lock"}
    BY <1>5 DEF CallDrain, CallReset, DrainerTypeOK
  <2>3. /\ OpenIsClean' /\ SingleWaiter' /\ NoWaitGroupPanic' /\ NoDoubleClose'
        /\ QuietAfterWait'
    BY <1>1, <2>1 DEF OpenIsClean, SingleWaiter, NoWaitGroupPanic, NoDoubleClose,
                      QuietAfterWait, Closed
  <2>4. DrainRecorded'
    BY <1>3, <2>1, <2>2 DEF DrainRecorded, Ready
  <2>5. \A e \in Callers : CallerInv(e)'
    BY <1>1, <1>3, <2>1, <2>2 DEF CallerInv, PrevDrainDone, Closed
  <2> QED
    BY <1>2, <1>3, <2>3, <2>4, <2>5
<1>6. CASE DrainLock(c) \/ DrainPrevDone(c)
  <2>1. /\ UNCHANGED <<draining, drainCh, prevDone, waiter>>
        /\ pc'[c] \in {"drain_mark", "drain_prev"}
        /\ pc'[c] = "drain_mark" => PrevDrainDone
        /\ pc'[c] = "drain_prev" => prevDone # NoDone
        /\ pc[c] \notin {"drain_spawn", "reset_open"}
    BY <1>6 DEF DrainLock, DrainPrevDone, DrainerTypeOK, PrevDrainDone
  <2>2. /\ OpenIsClean' /\ SingleWaiter' /\ NoWaitGroupPanic' /\ NoDoubleClose'
        /\ QuietAfterWait'
    BY <1>1, <2>1 DEF OpenIsClean, SingleWaiter, NoWaitGroupPanic, NoDoubleClose,
                      QuietAfterWait, Closed
  <2>3. DrainRecorded'
    BY <1>3, <2>1 DEF DrainRecorded
  <2>4. CallerInv(c)'
    BY <1>1, <2>1 DEF CallerInv, PrevDrainDone, Closed
  <2>5. \A e \in Callers : CallerInv(e)'
    BY <1>4, <2>1, <2>4 DEF Critical
  <2> QED
    BY <1>2, <1>3, <2>2, <2>3, <2>5
<1>7. CASE \/ DrainPrevExpired(c) \/ DrainAlready(c)
           \/ DrainDone(c) \/ DrainTimeout(c)
  <2>1. /\ UNCHANGED <<draining, drainCh, prevDone, waiter>>
        /\ pc'[c] \in {"drained", "timedout"}
        /\ pc[c] \in {"drain_prev", "drain_mark", "drain_wait"}
    BY <1>7 DEF DrainPrevExpired, DrainAlready, DrainDone, DrainTimeout, Return,
                DrainerTypeOK
  <2>2. /\ OpenIsClean' /\ SingleWaiter' /\ NoWaitGroupPanic' /\ NoDoubleClose'
        /\ QuietAfterWait'
    BY <1>1, <2>1 DEF OpenIsClean, SingleWaiter, NoWaitGroupPanic, NoDoubleClose,
                      QuietAfterWait, Closed
  <2>3. DrainRecorded'
    BY <1>3, <2>1 DEF DrainRecorded
  <2>4. \A e \in Callers : CallerInv(e)'
    BY <1>4, <2>1 DEF CallerInv, Critical
  <2> QED
    BY <1>2, <1>3, <2>2, <2>3, <2>4
<1>8. CASE DrainMark(c)
  <2>1. /\ ~draining /\ draining' /\ pc'[c] = "drain_spawn" /\ pc[c] = "drain_mark"
        /\ UNCHANGED <<prevDone, waiter>>
        /\ drainCh' = "closed"
    BY <1>8 DEF DrainMark, DrainerTypeOK, OpenIsClean
  <2>2. prevDone' = NoDone
    BY <2>1 DEF OpenIsClean
  <2>3. /\ OpenIsClean' /\ SingleWaiter' /\ NoWaitGroupPanic' /\ NoDoubleClose'
        /\ QuietAfterWait' /\ DrainRecorded'
    BY <1>1, <2>1, <2>2 DEF OpenIsClean, SingleWaiter, NoWaitGroupPanic,
          NoDoubleClose, QuietAfterWait, DrainRecorded, Closed
  <2>4. CallerInv(c)'
    BY <2>1, <2>2 DEF CallerInv
  <2>5. \A e \in Callers : CallerInv(e)'
    BY <1>4, <2>1, <2>4 DEF Critical
  <2> QED
    BY <1>2, <1>3, <2>3, <2>5
<1>9. CASE DrainSpawn(c)
  <2>1. PICK d \in Dones : /\ Closed(d) /\ prevDone' = d
                           /\ waiter' = [waiter EXCEPT ![d] = "spawned"]
    BY <1>9 DEF DrainSpawn
  <2>2. /\ pc[c] = "drain_spawn" /\ pc'[c] = "drain_wait"
        /\ UNCHANGED <<draining, drainCh>>
    BY <1>9 DEF DrainSpawn, DrainerTypeOK
  <2>3. draining /\ prevDone = NoDone
    BY <2>2 DEF CallerInv
  <2>4. \A e \in Dones : Closed(e)
    BY <2>3 DEF SingleWaiter
  <2>5. waiter'[d] = "spawned" /\ \A e \in Dones \ {d} : waiter'[e] = "exited"
    BY <2>1, <2>4 DEF DrainerTypeOK, Closed
  <2>6. /\ OpenIsClean' /\ SingleWaiter' /\ NoWaitGroupPanic' /\ NoDoubleClose'
        /\ QuietAfterWait' /\ DrainRecorded'
    BY <1>1, <2>1, <2>2, <2>3, <2>5 DEF OpenIsClean, SingleWaiter,
          NoWaitGroupPanic, NoDoubleClose, QuietAfterWait, DrainRecorded, Closed
  <2>7. CallerInv(c)'
    BY <2>1, <2>2 DEF CallerInv
  <2>8. \A e \in Callers : CallerInv(e)'
    BY <1>4, <2>2, <2>7 DEF Critical
  <2> QED
    BY <1>2, <1>3, <2>6, <2>8
<1>10. CASE ResetCheck(c)
  <2>1. /\ pc[c] = "reset_lock" /\ UNCHANGED <<draining, drainCh, waiter>>
        /\ \/ PrevDrainDone /\ prevDone' = NoDone /\ pc'[c] = "reset_open"
           \/ ~PrevDrainDone /\ prevDone' = prevDone /\ pc'[c] = "reset_keep"
    BY <1>10 DEF ResetCheck, DrainerTypeOK
  <2>2. PrevDrainDone => \A d \in Dones : Closed(d)
    BY DEF PrevDrainDone, SingleWaiter
  <2>3. draining /\ PrevDrainDone => wg = 0
    <3>1. draining /\ prevDone = NoDone => wg = 0
      <4>1. drainMu = NoCaller
        BY <1>10 DEF ResetCheck
      <4>2. \A e \in Callers : pc[e] \notin {"drain_spawn", "reset_open"}
        BY <4>1 DEF MutexHeld, Critical
      <4> QED
        BY <4>2 DEF DrainRecorded
    <3> QED
      BY <3>1 DEF PrevDrainDone, QuietAfterWait
  <2>4. SingleWaiter' /\ NoWaitGroupPanic' /\ NoDoubleClose' /\ OpenIsClean'
    BY <2>1, <2>2 DEF SingleWaiter, NoWaitGroupPanic, NoDoubleClose, OpenIsClean, Closed
  <2>5. QuietAfterWait' /\ DrainRecorded'
    BY <1>1, <1>3, <2>1 DEF QuietAfterWait, DrainRecorded, Closed
  <2>6. CallerInv(c)'
    BY <1>1, <2>1, <2>3 DEF CallerInv, PrevDrainDone
  <2>7. \A e \in Callers : CallerInv(e)'
    BY <1>4, <2>1, <2>6 DEF Critical
  <2> QED
    BY <1>2, <1>3, <2>4, <2>5, <2>7
<1>11. CASE ResetApply(c)
  <2>1. /\ pc[c] \in {"reset_open", "reset_keep"} /\ pc'[c] = "idle"
        /\ UNCHANGED <<prevDone, waiter>> /\ drainCh' = "open"
        /\ draining' <=> draining /\ pc[c] = "reset_keep"
    BY <1>11 DEF ResetApply, Return, DrainerTypeOK
  <2>2. pc[c] = "reset_open" => prevDone = NoDone
    BY DEF CallerInv
  <2>3. pc[c] = "reset_keep" => prevDone # NoDone /\ draining
    BY DEF CallerInv, OpenIsClean
  <2>4. OpenIsClean' /\ SingleWaiter' /\ NoWaitGroupPanic' /\ NoDoubleClose'
    BY <2>1, <2>2, <2>3 DEF OpenIsClean, SingleWaiter, NoWaitGroupPanic,
                            NoDoubleClose, Closed
  <2>5. QuietAfterWait' /\ DrainRecorded'
    BY <1>1, <2>1, <2>2, <2>3 DEF QuietAfterWait, DrainRecorded, Closed
  <2>6. \A e \in Callers : CallerInv(e)'
    BY <1>4, <2>1 DEF CallerInv, Critical
  <2> QED
    BY <1>2, <1>3, <2>4, <2>5, <2>6
<1> QED
  BY <1>5, <1>6, <1>7, <1>8, <1>9, <1>10, <1>11
     DEF CallerStep, DrainSteps, ResetSteps

------------------------------------------------------------------------------
(* The theorems *)

(* Every step preserves the invariant. *)
LEMMA StepInv ==
  ASSUME DrainerInv, [DrainerNext]_dvars PROVE DrainerInv'
<1>1. DrainerTypeOK'
  BY StepTyping DEF DrainerInv
<1>2. ASSUME NEW r \in Requests, RequestStep(r) PROVE DrainerInv'
  BY <1>1, <1>2, RequestKeepsInv
<1>3. ASSUME NEW d \in Dones, WaiterStep(d) PROVE DrainerInv'
  BY <1>1, <1>3, WaiterKeepsInv
<1>4. ASSUME NEW c \in Callers, CallerStep(c) PROVE DrainerInv'
  BY <1>1, <1>4, CallerKeepsInv
<1>5. CASE UNCHANGED dvars
  BY <1>5 DEF dvars, DrainerInv, DrainerTypeOK, Counts, MutexHeld, OpenIsClean,
     DrainRecorded, SingleWaiter, NoWaitGroupPanic, NoDoubleClose, QuietAfterWait,
     CallerInv, PrevDrainDone, Closed, InFlight, Tracked
<1> QED
  BY <1>2, <1>3, <1>4, <1>5 DEF DrainerNext

(* The inductive invariant holds in every behaviour of the drainer. *)
THEOREM DrainerInvariant == DrainerSpec => []DrainerInv
BY InitInv, StepInv, PTL DEF DrainerSpec

(* The fields keep their types and a caller is always at a statement of    *)
(* Drain or Reset, or between calls; in particular the counters of the     *)
(* requests never become negative, which would be a panic of the WaitGroup.*)
THEOREM DrainerTyping == DrainerSpec => []DrainerTypeOK
<1>1. DrainerInv => DrainerTypeOK
  BY DEF DrainerInv
<1> QED
  BY <1>1, DrainerInvariant, PTL

(* wg.Wait() never panics, and there is at most one (drainer.go:90, 129). *)
THEOREM DrainerNoWaitGroupPanic == DrainerSpec => [](NoWaitGroupPanic /\ SingleWaiter)
<1>1. DrainerInv => NoWaitGroupPanic /\ SingleWaiter
  BY DEF DrainerInv
<1> QED
  BY <1>1, DrainerInvariant, PTL

(* close(d.drainCh) never panics (drainer.go:108). *)
THEOREM DrainerNoDoubleClose == DrainerSpec => []NoDoubleClose
<1>1. DrainerInv => NoDoubleClose
  BY DEF DrainerInv
<1> QED
  BY <1>1, DrainerInvariant, PTL

(* Drain returns nil only with no request inside (drainer.go:83). *)
THEOREM DrainerNilMeansEmpty == DrainerSpec => DrainNilMeansEmpty
<1>1. ASSUME DrainerInv, [DrainerNext]_dvars
      PROVE  [\A c \in Callers :
                 (pc[c] # "drained" /\ pc'[c] = "drained") => InFlight = {}]_dvars
  <2>1. SUFFICES ASSUME NEW c \in Callers, pc[c] # "drained", pc'[c] = "drained"
                 PROVE  InFlight = {}
    OBVIOUS
  <2>2. DrainAlready(c) \/ DrainDone(c)
    <3>1. DrainerNext
      BY <1>1, <2>1 DEF dvars
    <3>2. ASSUME NEW r \in Requests, RequestStep(r) PROVE FALSE
      BY <2>1, <3>2 DEF RequestStep, Track, Enter, Reject, Retry, ReleaseActive, ReleaseDone
    <3>3. ASSUME NEW d \in Dones, WaiterStep(d) PROVE FALSE
      BY <2>1, <3>3 DEF WaiterStep, WaitEnter, WaitWake, CloseDone
    <3>4. ASSUME NEW e \in Callers, CallerStep(e) PROVE DrainAlready(c) \/ DrainDone(c)
      <4>1. e = c
        BY <1>1, <2>1, <3>4, CallerKeepsMutex DEF DrainerInv
      <4> QED
        BY <1>1, <2>1, <3>4, <4>1 DEF CallerStep, CallDrain, CallReset, DrainSteps,
           ResetSteps, DrainLock, DrainPrevDone, DrainPrevExpired, DrainMark,
           DrainSpawn, DrainTimeout, ResetCheck, ResetApply, Return,
           DrainerInv, DrainerTypeOK
    <3> QED
      BY <3>1, <3>2, <3>3, <3>4 DEF DrainerNext
  <2>3. prevDone # NoDone /\ Closed(prevDone)
    <3>1. CASE DrainDone(c)
      BY <1>1, <3>1 DEF DrainDone, DrainerInv, CallerInv
    <3>2. CASE DrainAlready(c)
      <4>1. draining /\ pc[c] = "drain_mark" /\ PrevDrainDone
        BY <1>1, <3>2 DEF DrainAlready, DrainerInv, CallerInv
      <4>2. \A e \in Callers : pc[e] \notin {"drain_spawn", "reset_open"}
        BY <1>1, <4>1 DEF DrainerInv, MutexHeld, Critical
      <4> QED
        BY <1>1, <4>1, <4>2 DEF DrainerInv, DrainRecorded, PrevDrainDone
    <3> QED
      BY <2>2, <3>1, <3>2
  <2>4. wg = 0
    BY <1>1, <2>3 DEF DrainerInv, QuietAfterWait
  <2> QED
    BY <1>1, <2>4, ZeroMeansEmpty DEF DrainerInv
<1> QED
  BY <1>1, DrainerInvariant, PTL DEF DrainerSpec, DrainNilMeansEmpty

------------------------------------------------------------------------------
(* The drainer implements DrainGate *)

(* A done channel is remembered, or the drain is being forgotten. *)
Recorded == \/ prevDone # NoDone /\ Closed(prevDone)
            \/ \E c \in Callers : pc[c] = "reset_open"

(* The abstract gate is drained only when it is empty. *)
LEMMA DrainedIsEmpty == DrainerInv /\ draining /\ Recorded => InFlight = {}
<1> SUFFICES ASSUME DrainerInv, draining, Recorded PROVE InFlight = {}
  OBVIOUS
<1>1. wg = 0
  BY DEF Recorded, DrainerInv, QuietAfterWait, CallerInv
<1> QED
  BY <1>1, ZeroMeansEmpty DEF DrainerInv

(* The initial state is one of the gate. *)
LEMMA InitGate == DrainerInit => Gate!Init
<1> SUFFICES ASSUME DrainerInit PROVE Gate!Init
  OBVIOUS
<1>1. GateOf = "open"
  BY DEF DrainerInit, GateOf
<1>2. InFlight = {}
  BY DEF DrainerInit, InFlight
<1> QED
  BY <1>1, <1>2 DEF Gate!Init

(* The requests' steps are steps of the gate. *)
LEMMA RequestMapsToGate ==
  ASSUME DrainerInv, NEW r \in Requests, RequestStep(r)
  PROVE  [Gate!Next]_(Gate!gvars)
<1> USE DEF DrainerInv
<1>1. UNCHANGED <<draining, prevDone, pc>>
  BY DEF RequestStep, Track, Enter, Reject, Retry, ReleaseActive, ReleaseDone
<1>2. \A d \in Dones : Closed(d)' <=> Closed(d)
  BY DEF RequestStep, Track, Enter, Reject, Retry, ReleaseActive, ReleaseDone, Closed
<1>3. GateOf' = GateOf
  BY <1>1, <1>2 DEF GateOf, DrainerTypeOK
<1>4. CASE Track(r)
  <2>1. GateOf = "open"
    BY <1>4 DEF Track, Enter, GateOf
  <2>2. r \notin InFlight /\ InFlight' = InFlight \cup {r}
    BY <1>4 DEF Track, Enter, InFlight, DrainerTypeOK
  <2> QED
    BY <1>3, <2>1, <2>2 DEF Gate!Next, Gate!Admit
<1>5. CASE ReleaseDone(r)
  <2>1. r \in InFlight /\ InFlight' = InFlight \ {r}
    BY <1>5 DEF ReleaseDone, InFlight, DrainerTypeOK
  <2> QED
    BY <1>3, <2>1 DEF Gate!Next, Gate!Leave
<1>6. CASE Reject(r) \/ Retry(r) \/ ReleaseActive(r)
  <2>1. InFlight' = InFlight
    BY <1>6 DEF Reject, Retry, ReleaseActive, InFlight, DrainerTypeOK
  <2> QED
    BY <1>3, <2>1 DEF Gate!gvars
<1> QED
  BY <1>4, <1>5, <1>6 DEF RequestStep

(* Only a waiting goroutine that ends can be seen by the gate. *)
LEMMA WaiterMapsToGate ==
  ASSUME DrainerInv, NEW d \in Dones, WaiterStep(d)
  PROVE  [Gate!Next]_(Gate!gvars)
<1> USE DEF DrainerInv
<1>1. UNCHANGED <<draining, prevDone, req, pc>>
  BY DEF WaiterStep, WaitEnter, WaitWake, CloseDone
<1>2. InFlight' = InFlight
  BY <1>1 DEF InFlight
<1>3. ~Closed(d) /\ draining /\ prevDone = d
  BY DEF WaiterStep, WaitEnter, WaitWake, CloseDone, SingleWaiter, Closed
<1>4. CASE GateOf' = GateOf
  BY <1>2, <1>4 DEF Gate!gvars
<1>5. CASE GateOf' # GateOf
  <2>1. GateOf \in {"shut", "drained"} /\ GateOf' \in {"shut", "drained"}
    BY <1>1, <1>3 DEF GateOf
  <2>2. ~Recorded
    <3>1. Recorded => \E c \in Callers : pc[c] = "reset_open"
      BY <1>3 DEF Recorded
    <3>2. \A c \in Callers : pc[c] = "reset_open" => prevDone = NoDone
      BY DEF CallerInv
    <3> QED
      BY <1>3, <3>1, <3>2, NoDoneAssumption
  <2>3. GateOf = "shut" /\ GateOf' = "drained"
    BY <1>3, <1>5, <2>1, <2>2 DEF GateOf, Recorded
  <2>4. Closed(d)'
    BY <1>1, <1>3, <2>2, <2>3, NoDoneAssumption DEF GateOf, Recorded
  <2>5. waiter[d] = "returned"
    BY <1>3, <2>4 DEF WaiterStep, WaitEnter, WaitWake, CloseDone, Closed, DrainerTypeOK
  <2>6. InFlight' = {}
    BY <1>2, <2>5, ZeroMeansEmpty DEF QuietAfterWait
  <2> QED
    BY <1>2, <2>3, <2>6 DEF Gate!Next, Gate!Quiesce
<1> QED
  BY <1>4, <1>5

(* A drain that starts shuts the gate; a Reset that finds it over reopens  *)
(* it; no other call shows.                                                *)
LEMMA CallerMapsToGate ==
  ASSUME DrainerInv, NEW c \in Callers, CallerStep(c)
  PROVE  [Gate!Next]_(Gate!gvars)
<1> USE NoDoneAssumption, NoCallerAssumption DEF DrainerInv
<1>1. InFlight' = InFlight
  BY DEF CallerStep, CallDrain, CallReset, DrainSteps, ResetSteps, DrainLock,
         DrainPrevDone, DrainPrevExpired, DrainAlready, DrainMark, DrainSpawn,
         DrainDone, DrainTimeout, ResetCheck, ResetApply, InFlight
<1>2. \A e \in Callers \ {c} : pc'[e] = pc[e]
  BY CallerKeepsMutex
<1>3. SUFFICES \/ GateOf' = GateOf
               \/ GateOf = "open" /\ GateOf' = "shut"
               \/ GateOf = "drained" /\ GateOf' = "open"
  BY <1>1 DEF Gate!Next, Gate!Shut, Gate!Reopen, Gate!gvars
<1>4. CASE \/ CallDrain(c) \/ CallReset(c) \/ DrainLock(c) \/ DrainPrevDone(c)
           \/ DrainPrevExpired(c) \/ DrainAlready(c) \/ DrainDone(c) \/ DrainTimeout(c)
  <2>1. /\ UNCHANGED <<draining, prevDone, waiter>>
        /\ pc[c] # "reset_open" /\ pc'[c] # "reset_open"
    BY <1>4 DEF CallDrain, CallReset, DrainLock, DrainPrevDone, DrainPrevExpired,
       DrainAlready, DrainDone, DrainTimeout, Return, DrainerTypeOK, Ready
  <2>2. Recorded' <=> Recorded
    BY <1>2, <2>1 DEF Recorded, Closed
  <2> QED
    BY <2>1, <2>2 DEF GateOf, Recorded
<1>5. CASE DrainMark(c)
  <2>1. /\ ~draining /\ draining' /\ prevDone' = prevDone
        /\ pc[c] = "drain_mark" /\ pc'[c] = "drain_spawn"
    BY <1>5 DEF DrainMark, DrainerTypeOK
  <2>2. \A e \in Callers : pc'[e] # "reset_open"
    BY <1>2, <2>1, CallerKeepsMutex DEF Critical
  <2>3. prevDone' = NoDone
    BY <2>1 DEF OpenIsClean
  <2> QED
    BY <2>1, <2>2, <2>3 DEF GateOf
<1>6. CASE DrainSpawn(c)
  <2>1. PICK d \in Dones : prevDone' = d /\ waiter' = [waiter EXCEPT ![d] = "spawned"]
    BY <1>6 DEF DrainSpawn
  <2>2. pc[c] = "drain_spawn" /\ pc'[c] = "drain_wait" /\ draining' = draining
    BY <1>6 DEF DrainSpawn, DrainerTypeOK
  <2>3. draining /\ prevDone = NoDone
    BY <2>2 DEF CallerInv
  <2>4. \A e \in Callers : pc[e] # "reset_open" /\ pc'[e] # "reset_open"
    BY <1>2, <2>2, CallerKeepsMutex DEF Critical
  <2>5. ~Closed(d)'
    BY <2>1 DEF Closed, DrainerTypeOK
  <2> QED
    BY <2>1, <2>2, <2>3, <2>4, <2>5 DEF GateOf
<1>7. CASE ResetCheck(c)
  <2>1. /\ pc[c] = "reset_lock" /\ UNCHANGED <<draining, waiter>>
        /\ \/ PrevDrainDone /\ prevDone' = NoDone /\ pc'[c] = "reset_open"
           \/ ~PrevDrainDone /\ prevDone' = prevDone /\ pc'[c] = "reset_keep"
    BY <1>7 DEF ResetCheck, DrainerTypeOK
  <2>2. \A e \in Callers : pc[e] \notin {"drain_spawn", "reset_open"}
    BY <1>7 DEF ResetCheck, MutexHeld, Critical
  <2>3. draining => prevDone # NoDone
    BY <2>2 DEF DrainRecorded
  <2>4. CASE PrevDrainDone
    BY <2>1, <2>3, <2>4 DEF GateOf, PrevDrainDone
  <2>5. CASE ~PrevDrainDone
    BY <1>2, <2>1, <2>2, <2>5 DEF GateOf, PrevDrainDone, Closed
  <2> QED
    BY <2>4, <2>5
<1>8. CASE ResetApply(c)
  <2>1. /\ pc[c] \in {"reset_open", "reset_keep"} /\ pc'[c] = "idle"
        /\ UNCHANGED <<prevDone, waiter>>
        /\ draining' <=> draining /\ pc[c] = "reset_keep"
    BY <1>8 DEF ResetApply, Return, DrainerTypeOK
  <2>2. CASE pc[c] = "reset_open"
    BY <2>1, <2>2 DEF GateOf
  <2>3. CASE pc[c] = "reset_keep"
    <3>1. Recorded' <=> Recorded
      BY <1>2, <2>1, <2>3 DEF Recorded, Closed
    <3> QED
      BY <2>1, <2>3, <3>1 DEF GateOf, Recorded
  <2> QED
    BY <2>1, <2>2, <2>3
<1> QED
  BY <1>4, <1>5, <1>6, <1>7, <1>8 DEF CallerStep, DrainSteps, ResetSteps

(* Every behaviour of the drainer is one of the gate: nobody is admitted   *)
(* between the start of a drain and the moment the drainer is empty.       *)
THEOREM DrainerImplementsGate == DrainerSpec => ImplementsGate
<1>1. ASSUME DrainerInv, [DrainerNext]_dvars PROVE [Gate!Next]_(Gate!gvars)
  <2>1. CASE UNCHANGED dvars
    BY <2>1 DEF dvars, Gate!gvars, GateOf, InFlight, Closed
  <2> QED
    BY <1>1, <2>1, RequestMapsToGate, WaiterMapsToGate, CallerMapsToGate DEF DrainerNext
<1> QED
  BY <1>1, InitGate, DrainerInvariant, PTL DEF DrainerSpec, ImplementsGate, Gate!Spec
==============================================================================
