------------------------------ MODULE Collector ------------------------------
(***************************************************************************)
(* The metrics collector, internal/metrics/collector.go, with its store:   *)
(* the callbacks of requests (internal/app/app.go:96) run it in as many    *)
(* goroutines as there are requests, and Snapshot reads it meanwhile.  A   *)
(* counter is atomic, the counters together are not: each is a step.  The  *)
(* counters of Prometheus, and what else nothing here reads, are left out; *)
(* a snapshot's percentiles are those of the store at their own moment.    *)
(***************************************************************************)
EXTENDS MetricsStore

CONSTANTS Recorders,    \* goroutines that record
          MaxRequests   \* bound on the requests recorded, for TLC

ASSUME CollectorAssumption == IsFiniteSet(Recorders) /\ MaxRequests \in Nat

Services == {"blue", "green"}

VARIABLES totalRequests, totalErrors,
          requestsOf,   \* blueRequests, greenRequests
          lastError,    \* an error is the number it was counted with, 0 is none
          rpc,          \* per recorder, where it is
          error,        \* per recorder, the error it records
          read,         \* how many fields Snapshot has read
          snap,         \* its fields
          failed        \* ghost: how many of totalRequests had failed

counterVars == <<totalRequests, totalErrors, requestsOf, lastError>>
snapVars == <<read, snap>>
cvars == <<storeVars, counterVars, rpc, error, failed, snapVars>>

(* The fields in the order in which Snapshot reads them. *)
\* Mutant: the errors are read together, before the requests.
ErrorsFirst == <<"totalErrors", "lastError", "totalRequests", "blue", "green">>
Order == <<"lastError", "totalRequests", "totalErrors", "blue", "green">>

NoSnap == [lastError |-> 0, totalRequests |-> 0, totalErrors |-> 0, blue |-> 0, green |-> 0,
           failed |-> 0, untargeted |-> 0]

CollectorInit ==
  /\ StoreInit
  /\ totalRequests = 0 /\ totalErrors = 0 /\ lastError = 0
  /\ requestsOf = [s \in Services |-> 0]
  /\ rpc = [r \in Recorders |-> "idle"]
  /\ error = [r \in Recorders |-> 0] /\ failed = 0
  /\ read = 0 /\ snap = NoSnap

At(states) == Cardinality({r \in Recorders : rpc[r] \in states})
Goes(r, from, to) == rpc[r] = from /\ rpc' = [rpc EXCEPT ![r] = to]
MoreRequests == totalRequests + At({"failed", "shown", "answered"}) < MaxRequests

------------------------------------------------------------------------------
(* RecordError, which the proxy's error handler calls ...                  *)
CountError(r) ==
  /\ MoreRequests /\ Goes(r, "idle", "failed")
  /\ totalErrors' = totalErrors + 1
  /\ error' = [error EXCEPT ![r] = totalErrors + 1]
  /\ UNCHANGED <<storeVars, totalRequests, requestsOf, lastError, failed, snapVars>>

ShowError(r) ==
  /\ Goes(r, "failed", "shown")
  /\ lastError' = error[r] /\ error' = [error EXCEPT ![r] = 0]
  /\ UNCHANGED <<storeVars, totalRequests, totalErrors, requestsOf, failed, snapVars>>

StoreError(r) ==
  /\ Goes(r, "shown", "answered") /\ RecordError
  /\ UNCHANGED <<counterVars, error, failed, snapVars>>

(* ... before ServeHTTP records the request, answered by the backend or    *)
(* with the handler's 502.  A response that breaks off is not recorded.    *)
CountRequest(r) ==
  /\ \/ MoreRequests /\ Goes(r, "idle", "counted") /\ UNCHANGED failed
     \/ Goes(r, "answered", "counted") /\ failed' = failed + 1
  /\ totalRequests' = totalRequests + 1
  /\ UNCHANGED <<storeVars, totalErrors, requestsOf, lastError, error, snapVars>>

\* Mutant: an increment that is not atomic, of which one is lost.
CountTargetRacy(r) ==
  /\ Goes(r, "counted", "targeted")
  /\ \E s \in Services :
       requestsOf' = [requestsOf EXCEPT ![s] = IF At({"counted"}) > 1 THEN @ ELSE @ + 1]
  /\ UNCHANGED <<storeVars, totalRequests, totalErrors, lastError, error, failed, snapVars>>

CountTarget(r) ==
  /\ Goes(r, "counted", "targeted")
  /\ \E s \in Services : requestsOf' = [requestsOf EXCEPT ![s] = @ + 1]
  /\ UNCHANGED <<storeVars, totalRequests, totalErrors, lastError, error, failed, snapVars>>

StoreRequest(r) ==
  /\ Goes(r, "targeted", "idle")
  /\ \E latency \in Latencies : RecordRequest(latency)
  /\ UNCHANGED <<counterVars, error, failed, snapVars>>

Recording(r) == \/ CountError(r) \/ ShowError(r) \/ StoreError(r)
                \/ CountRequest(r) \/ CountTarget(r) \/ StoreRequest(r)

------------------------------------------------------------------------------
(* Snapshot, of which one at a time is enough: it changes nothing.         *)
Value(field) == CASE field = "lastError" -> lastError
                  [] field = "totalRequests" -> totalRequests
                  [] field = "totalErrors" -> totalErrors
                  [] OTHER -> requestsOf[field]

ReadField ==
  /\ read < Len(Order) /\ read' = read + 1
  /\ LET field == Order[read + 1]
         seen == [snap EXCEPT ![field] = Value(field)]
     IN  snap' = IF field = "totalRequests"
                 THEN [seen EXCEPT !.failed = failed, !.untargeted = At({"counted"})]
                 ELSE seen
  /\ UNCHANGED <<storeVars, counterVars, rpc, error, failed>>

SnapshotReturns ==
  /\ read = Len(Order) /\ read' = 0 /\ snap' = NoSnap
  /\ UNCHANGED <<storeVars, counterVars, rpc, error, failed>>

Storing == /\ Reset \/ TimePasses \/ ClockSetBack
           /\ UNCHANGED <<counterVars, rpc, error, failed, snapVars>>

CollectorNext == \/ \E r \in Recorders : Recording(r)
                 \/ ReadField \/ SnapshotReturns \/ Storing
CollectorSpec == CollectorInit /\ [][CollectorNext]_cvars

------------------------------------------------------------------------------
(* Properties *)

(* Type invariant of the counters, of what records them and reads them. *)
CountersTypeOK ==
  /\ totalRequests \in Nat /\ failed \in Nat
  /\ totalErrors \in Nat /\ lastError \in 0..totalErrors
  /\ requestsOf \in [Services -> Nat]
  /\ rpc \in [Recorders -> {"idle", "failed", "shown", "answered", "counted", "targeted"}]
  /\ error \in [Recorders -> 0..totalErrors]
  /\ read \in 0..Len(Order) /\ snap \in [DOMAIN NoSnap -> Nat]

(* The three places in which a request is counted -- the total, its        *)
(* backend's counter, a bucket of the history -- differ only by what is    *)
(* being recorded just now, and so do the two of an error: nothing is lost *)
(* or counted twice, by whatever goroutines and at whatever times.         *)
CountsAgree ==
  LET stored == FoldFunction(Add, Empty, truth)
  IN  /\ totalRequests = requestsOf["blue"] + requestsOf["green"] + At({"counted"})
      /\ totalRequests = stored.requests + At({"counted", "targeted"})
      /\ totalErrors = stored.errors + At({"failed", "shown"})
      /\ totalErrors = failed + At({"failed", "shown", "answered"})

(* What a snapshot shows hangs together although it is no moment's state   *)
(* (collector.go:186 calls it "point-in-time"): the error it names is      *)
(* among those it counts, the errors of the failed requests it counts are  *)
(* too, and no request of its total is missing in the backends' counters   *)
(* but those that were between the two.                                    *)
SnapshotHangsTogether ==
  read = Len(Order) =>
    /\ snap.lastError <= snap.totalErrors
    /\ snap.failed <= snap.totalErrors
    /\ snap.totalRequests <= snap.blue + snap.green + snap.untargeted

(* The inductive invariant: between the fields it has read, and those that *)
(* it has not, a snapshot is bounded by counters that only grow.           *)
Failing == {"failed", "shown", "answered"}
RequestsSplit == totalRequests = requestsOf["blue"] + requestsOf["green"] + At({"counted"})
ErrorsSplit == totalErrors = failed + At(Failing)
ErrorsRead ==
  /\ read \in {1, 2} => snap.lastError <= totalErrors
  /\ read = 2 => snap.failed <= failed
  /\ read >= 3 => snap.lastError <= snap.totalErrors /\ snap.failed <= snap.totalErrors
RequestsRead ==
  /\ read \in {2, 3} =>
       snap.totalRequests <= requestsOf["blue"] + requestsOf["green"] + snap.untargeted
  /\ read = 4 => snap.totalRequests <= snap.blue + requestsOf["green"] + snap.untargeted
  /\ read = 5 => snap.totalRequests <= snap.blue + snap.green + snap.untargeted
CollectorInv ==
  CountersTypeOK /\ RequestsSplit /\ ErrorsSplit /\ ErrorsRead /\ RequestsRead

(* Type correctness of the collector and its store, as their inductive     *)
(* invariants give it.                                                     *)
CollectorTypeOK == StoreTypeOK /\ StoreInv /\ CollectorInv
==============================================================================
