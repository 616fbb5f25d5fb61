-------------------------- MODULE LifecycleProofs --------------------------
(***************************************************************************)
(* Proofs about Lifecycle, for any set of requests and of webhooks: what   *)
(* the program leaves behind when it exits.                                *)
(***************************************************************************)
EXTENDS Lifecycle, TLAPS

------------------------------------------------------------------------------
(* Nothing is started in the initial state. *)
LEMMA InitHolds == LifecycleInit => LifecycleInv
<1> SUFFICES ASSUME LifecycleInit  PROVE LifecycleInv
  OBVIOUS
<1>1. sigCh \in Seq({"hup", "term"}) /\ Len(sigCh) <= SignalCap
  BY LifecycleAssumption DEF LifecycleInit
<1>2. cancelled \in BOOLEAN /\ broker \in BOOLEAN /\ gaveUp \in BOOLEAN
  BY DEF LifecycleInit
<1>3. fetch \in [Fetchers -> {"off", "waiting", "fetching", "blue", "green"}]
  BY DEF LifecycleInit
<1>4. /\ main \in {"start", "starting admin", "starting proxy"}
      /\ main \notin Drained /\ main \notin Unwatched
  BY DEF LifecycleInit, Drained, Unwatched
<1> QED
  BY <1>1, <1>2, <1>3, <1>4
     DEF LifecycleInit, LifecycleInv, LifecycleTypeOK, ServedOut, PolledOut, Over

(* The steps of main up to its loop, and of the loop. *)
LEMMA StartingSteps ==
  ASSUME LifecycleInv,
         \/ StartApplication \/ StartAdmin \/ StartFails \/ StartProxyServer
         \/ ReceiveSignal \/ Reloaded \/ ReceiveServerEnd
  PROVE  LifecycleInv'
<1> USE DEF LifecycleInv, LifecycleTypeOK, ServedOut, PolledOut, Drained, Unwatched,
            Goes, serveVars, requestVars, Awaited, Over, partVars, Notified, Stopping, Down
<1>1. CASE StartApplication
  BY <1>1, LifecycleAssumption DEF StartApplication, Fetchers
<1>2. CASE StartAdmin \/ StartFails
  BY <1>2 DEF StartAdmin, StartFails
<1>3. CASE StartProxyServer
  BY <1>3 DEF StartProxyServer
<1>4. CASE ReceiveSignal
  BY <1>4, LifecycleAssumption DEF ReceiveSignal
<1>5. CASE Reloaded \/ ReceiveServerEnd
  BY <1>5 DEF Reloaded, ReceiveServerEnd
<1> QED BY <1>1, <1>2, <1>3, <1>4, <1>5

(* The steps of Stop.  ShutdownReturns and StopWatcher establish what the  *)
(* later ones keep.                                                        *)
LEMMA StoppingSteps ==
  ASSUME LifecycleInv,
         \/ Cancel \/ Shutdown \/ ShutdownReturns \/ ShutdownTimesOut
         \/ StopWatcher \/ StopUpdates \/ StopHealth \/ StopAdmin
  PROVE  LifecycleInv'
<1> USE DEF LifecycleInv, LifecycleTypeOK, ServedOut, PolledOut, Drained, Unwatched,
            Goes, serveVars, requestVars, Awaited, Over, partVars, Notified, Stopping, Down
<1>1. CASE Cancel \/ Shutdown
  BY <1>1 DEF Cancel, Shutdown
<1>2. CASE ShutdownReturns \/ ShutdownTimesOut
  BY <1>2 DEF ShutdownReturns, ShutdownTimesOut
<1>3. CASE StopWatcher
  BY <1>3 DEF StopWatcher
<1>4. CASE StopUpdates \/ StopHealth \/ StopAdmin
  BY <1>4 DEF StopUpdates, StopHealth, StopAdmin
<1> QED BY <1>1, <1>2, <1>3, <1>4

(* A signal finds room in sigCh or is lost. *)
LEMMA SignalStep ==
  ASSUME LifecycleInv, NEW s \in {"hup", "term"}, Signal(s)
  PROVE  LifecycleInv'
<1>1. sigCh \in Seq({"hup", "term"}) /\ Len(sigCh) <= SignalCap
  BY DEF LifecycleInv, LifecycleTypeOK
<1>2. Append(sigCh, s) \in Seq({"hup", "term"}) /\ Len(Append(sigCh, s)) = Len(sigCh) + 1
  BY <1>1
<1>3. Len(sigCh) \in Nat /\ SignalCap \in Nat
  BY <1>1, LifecycleAssumption
<1>4. sigCh' = IF Len(sigCh) < SignalCap THEN Append(sigCh, s) ELSE sigCh
  BY DEF Signal
<1>5. sigCh' \in Seq({"hup", "term"}) /\ Len(sigCh') <= SignalCap
  BY <1>1, <1>2, <1>3, <1>4
<1>6. /\ UNCHANGED <<main, cancelled, proxyServer, server, inside, hijacked>>
      /\ UNCHANGED <<fetch, health, broker, gaveUp>>
  BY DEF Signal, serveVars, requestVars, partVars
<1>7. LifecycleTypeOK'
  BY <1>5, <1>6 DEF LifecycleInv, LifecycleTypeOK
<1>8. ServedOut' /\ PolledOut'
  BY <1>6 DEF LifecycleInv, ServedOut, PolledOut, Awaited
<1> QED
  BY <1>7, <1>8 DEF LifecycleInv

(* A request comes only while the field holds a server, hence before       *)
(* Shutdown has returned.                                                  *)
LEMMA ArriveStep ==
  ASSUME LifecycleInv, NEW r \in Requests, Arrive(r)
  PROVE  LifecycleInv'
<1>1. main \notin Drained
  BY DEF LifecycleInv, ServedOut, Arrive
<1>2. hijacked' \subseteq inside' /\ inside' \subseteq Requests
  BY DEF LifecycleInv, LifecycleTypeOK, Arrive
<1>3. /\ UNCHANGED <<main, sigCh, cancelled, proxyServer, server>>
      /\ UNCHANGED <<fetch, health, broker, gaveUp>>
  BY DEF Arrive, partVars
<1>4. LifecycleTypeOK'
  BY <1>2, <1>3 DEF LifecycleInv, LifecycleTypeOK
<1>5. ServedOut' /\ PolledOut'
  BY <1>1, <1>3 DEF LifecycleInv, ServedOut, PolledOut
<1> QED
  BY <1>4, <1>5 DEF LifecycleInv

(* The end of a request, or a connection given away, leaves nothing more   *)
(* for Shutdown to wait for.                                               *)
LEMMA RequestStep ==
  ASSUME LifecycleInv, NEW r \in Requests, Hijack(r) \/ Finish(r)
  PROVE  LifecycleInv'
<1>1. /\ hijacked' \subseteq inside' /\ inside' \subseteq Requests
      /\ Awaited = {} => Awaited' = {}
  BY DEF LifecycleInv, LifecycleTypeOK, Hijack, Finish, Awaited
<1>2. /\ UNCHANGED <<main, sigCh, cancelled, proxyServer, server>>
      /\ UNCHANGED <<fetch, health, broker, gaveUp>>
  BY DEF Hijack, Finish, partVars
<1>3. LifecycleTypeOK'
  BY <1>1, <1>2 DEF LifecycleInv, LifecycleTypeOK
<1>4. ServedOut' /\ PolledOut'
  BY <1>1, <1>2 DEF LifecycleInv, ServedOut, PolledOut
<1> QED
  BY <1>3, <1>4 DEF LifecycleInv

(* The steps of the serving goroutine, of requests and of signals. *)
LEMMA ServingSteps ==
  ASSUME LifecycleInv,
         \/ Serving
         \/ \E r \in Requests : Arrive(r) \/ Hijack(r) \/ Finish(r)
         \/ \E s \in {"hup", "term"} : Signal(s)
  PROVE  LifecycleInv'
<1> USE DEF LifecycleInv, LifecycleTypeOK, ServedOut, PolledOut, Drained, Unwatched,
            serveVars, requestVars, Awaited, Over, partVars, Notified, Stopping, Down
<1>1. CASE Serve \/ ServeFails
  BY <1>1 DEF Serve, ServeFails
<1>2. CASE ServeEnds
  BY <1>2 DEF ServeEnds
<1>3. CASE ServeCrashes
  BY <1>3 DEF ServeCrashes
<1>4. ASSUME NEW r \in Requests, Arrive(r)  PROVE LifecycleInv'
  BY <1>4, ArriveStep
<1>5. ASSUME NEW r \in Requests, Hijack(r) \/ Finish(r)  PROVE LifecycleInv'
  BY <1>5, RequestStep
<1>6. ASSUME NEW s \in {"hup", "term"}, Signal(s)  PROVE LifecycleInv'
  BY <1>6, SignalStep
<1> HIDE DEF LifecycleInv
<1> QED BY <1>1, <1>2, <1>3, <1>4, <1>5, <1>6 DEF Serving

(* A goroutine that fetches takes one step; the poller takes none once it  *)
(* is off, and a webhook is not the poller.                                *)
LEMMA FetchingStep ==
  ASSUME LifecycleInv,
         NEW f \in Fetchers, NEW s, NEW t \in {"off", "waiting", "fetching", "blue", "green"},
         Fetching(f, s, t), f = Poller => s # "off"
  PROVE  LifecycleInv'
<1>1. /\ UNCHANGED <<main, sigCh, cancelled, proxyServer, server, inside, hijacked>>
      /\ UNCHANGED <<health, broker, gaveUp>>
  BY DEF Fetching, serveVars, requestVars
<1>2. fetch' = [fetch EXCEPT ![f] = t] /\ fetch[f] = s
  BY DEF Fetching
<1>3. fetch' \in [Fetchers -> {"off", "waiting", "fetching", "blue", "green"}]
  BY <1>2 DEF LifecycleInv, LifecycleTypeOK
<1>4. LifecycleTypeOK'
  BY <1>1, <1>3 DEF LifecycleInv, LifecycleTypeOK
<1>5. ServedOut'
  BY <1>1 DEF LifecycleInv, ServedOut, Awaited
<1>6. PolledOut'
  <2>1. Poller \in Fetchers
    BY DEF Fetchers
  <2>2. fetch[Poller] = "off" => fetch'[Poller] = "off"
    BY <1>2, <2>1 DEF LifecycleInv, LifecycleTypeOK
  <2> QED BY <1>1, <2>2 DEF LifecycleInv, PolledOut
<1> QED BY <1>4, <1>5, <1>6 DEF LifecycleInv

(* The steps of fetches are such steps. *)
LEMMA FetchingSteps ==
  ASSUME LifecycleInv,
         \/ PollTick \/ PollEnds
         \/ \E h \in Webhooks : Accept(h) \/ Refuse(h) \/ RefreshGit(h)
         \/ \E f \in Fetchers : FetchReturns(f) \/ FetchFindsMove(f) \/ SwitchEnds(f)
  PROVE  LifecycleInv'
<1>1. CASE PollTick \/ PollEnds
  BY <1>1, FetchingStep DEF PollTick, PollEnds, Fetchers
<1>2. ASSUME NEW h \in Webhooks, Accept(h) \/ Refuse(h) \/ RefreshGit(h)
      PROVE  LifecycleInv'
  <2>1. h \in Fetchers /\ h # Poller
    BY LifecycleAssumption DEF Fetchers
  <2> QED BY <1>2, <2>1, FetchingStep DEF Accept, Refuse, RefreshGit
<1>3. ASSUME NEW f \in Fetchers, FetchReturns(f) \/ FetchFindsMove(f) \/ SwitchEnds(f)
      PROVE  LifecycleInv'
  <2>1. After(f) \in {"off", "waiting"}
    BY DEF After
  <2> QED BY <1>3, <2>1, FetchingStep DEF FetchReturns, FetchFindsMove, SwitchEnds
<1> QED BY <1>1, <1>2, <1>3

(* The health loops and the broker touch nothing the invariant relates. *)
LEMMA LoopSteps ==
  ASSUME LifecycleInv, HealthTick \/ CheckEnds \/ HealthEnds \/ BrokerEnds
  PROVE  LifecycleInv'
BY DEF LifecycleInv, LifecycleTypeOK, ServedOut, PolledOut, Drained, Unwatched, HealthTick,
       CheckEnds, HealthEnds, BrokerEnds, Checking, serveVars, requestVars, Awaited

(* The invariant is inductive. *)
LEMMA NextHolds == LifecycleInv /\ [LifecycleNext]_lvars => LifecycleInv'
<1> SUFFICES ASSUME LifecycleInv, [LifecycleNext]_lvars  PROVE LifecycleInv'
  OBVIOUS
<1>1. CASE Main
  BY <1>1, StartingSteps, StoppingSteps DEF Main
<1>2. CASE Serving \/ World
  BY <1>2, ServingSteps, FetchingSteps DEF World
<1>3. CASE Polling
  BY <1>3, FetchingSteps, LoopSteps DEF Polling
<1>4. ASSUME NEW f \in Fetchers, FetchReturns(f) \/ FetchFindsMove(f) \/ SwitchEnds(f)
      PROVE  LifecycleInv'
  BY <1>4, FetchingSteps
<1>5. CASE UNCHANGED lvars
  <2>1. /\ UNCHANGED <<main, sigCh, cancelled, proxyServer, server, inside, hijacked>>
        /\ UNCHANGED <<fetch, health, broker, gaveUp>>
    BY <1>5 DEF lvars, serveVars, requestVars, partVars
  <2>2. LifecycleTypeOK'
    BY <2>1 DEF LifecycleInv, LifecycleTypeOK
  <2>3. ServedOut' /\ PolledOut'
    BY <2>1 DEF LifecycleInv, ServedOut, PolledOut, Awaited
  <2> QED BY <2>2, <2>3 DEF LifecycleInv
<1> QED BY <1>1, <1>2, <1>3, <1>4, <1>5 DEF LifecycleNext

------------------------------------------------------------------------------
(* The inductive invariant of the program's start and stop. *)
THEOREM LifecycleInvariant == LifecycleSpec => []LifecycleInv
BY InitHolds, NextHolds, PTL DEF LifecycleSpec

(* The state of the program keeps its types, and sigCh its capacity. *)
THEOREM LifecycleTyping == LifecycleSpec => []LifecycleTypeOK
<1>1. LifecycleInv => LifecycleTypeOK
  BY DEF LifecycleInv
<1> QED BY <1>1, LifecycleInvariant, PTL

(* The exit cuts off no request but WebSockets' (proxy.go:242), unless one *)
(* outlasted Shutdown's timeout (app.go:178-183), however many there are,  *)
(* whenever they came, and whenever the server started, failed or ended.   *)
THEOREM LifecycleGracefulStop == LifecycleSpec => []GracefulStop
<1>1. LifecycleInv => GracefulStop
  BY DEF LifecycleInv, ServedOut, Awaited, GracefulStop, Drained
<1> QED BY <1>1, LifecycleInvariant, PTL

(* The exit cuts off no switch of the polling loop (gitwatcher.go:93),     *)
(* whatever webhooks do.                                                   *)
THEOREM LifecycleNoSwitchIsCut == LifecycleSpec => []NoSwitchIsCut
<1>1. LifecycleInv => NoSwitchIsCut
  BY DEF LifecycleInv, PolledOut, NoSwitchIsCut, Unwatched
<1> QED BY <1>1, LifecycleInvariant, PTL
==============================================================================
