----------------------------- MODULE Lifecycle -----------------------------
(***************************************************************************)
(* The program from its start to its exit: main (cmd/bluegreen/main.go),   *)
(* Start and Stop of the application (internal/app/app.go), the goroutine  *)
(* that serves proxied requests, and the goroutines that Stop ends or      *)
(* waits for.  Each of those goes on while Stop is under way, so that main *)
(* has one step per statement of Stop that can wait or that others see.    *)
(* What the parts do inside is in their own modules: here a request is     *)
(* inside or not, a fetch of the watcher may find a moved tag and make a   *)
(* switch, a switch ends (SwitchReturns of Proxy).  A repository is        *)
(* configured, and webhooks are the requests of the admin server.          *)
(***************************************************************************)
EXTENDS Naturals, Sequences, SequencesExt

CONSTANTS Requests,     \* proxied requests
          Webhooks,     \* handlers of the admin server
          Poller,       \* the goroutine of pollLoop
          SignalCap     \* the capacity of sigCh

ASSUME LifecycleAssumption == Poller \notin Webhooks /\ SignalCap \in Nat \ {0}

VARIABLES main,         \* the statement main is at
          sigCh,        \* signals that wait to be received
          cancelled,    \* a.ctx is
          proxyServer,  \* the field: nil, an open server, one that is shutting down
          server,       \* the goroutine of StartProxyServerWithListener
          inside,       \* the requests being served
          hijacked,     \* of these, the ones whose connection the server has given away
          fetch,        \* per goroutine that fetches: where it is
          health,       \* the loops of the health checker
          broker,       \* the goroutine of the SSE broker runs
          gaveUp        \* ghost: Shutdown returned at its timeout

requestVars == <<inside, hijacked>>
serveVars == <<proxyServer, server, requestVars>>
partVars == <<fetch, health, broker>>
lvars == <<main, sigCh, cancelled, serveVars, partVars, gaveUp>>

Fetchers == Webhooks \union {Poller}
Stopping == {"cancel", "shutdown", "drain", "watcher", "ui", "health", "admin"}
Down == {"exited", "failed", "crashed"}
Notified == {"running", "reloading"} \union Stopping
Over == {"ended", "failed", "unserved"}

Goes(s, t) == main = s /\ main' = t

LifecycleInit ==
  /\ main = "start" /\ sigCh = <<>> /\ cancelled = FALSE
  /\ proxyServer = "nil" /\ server = "none" /\ inside = {} /\ hijacked = {}
  /\ fetch = [f \in Fetchers |-> "off"] /\ health = "off" /\ broker = FALSE
  /\ gaveUp = FALSE

------------------------------------------------------------------------------
(* main, up to its loop.  A failure is os.Exit: no deferred Stop runs.     *)
StartApplication ==
  /\ Goes("start", "starting admin")
  /\ health' = "checking" /\ broker' = TRUE
  /\ fetch' = [fetch EXCEPT ![Poller] = "fetching"]
  /\ UNCHANGED <<sigCh, cancelled, serveVars, gaveUp>>

StartAdmin ==
  /\ Goes("starting admin", "starting proxy")
  /\ UNCHANGED <<sigCh, cancelled, serveVars, partVars, gaveUp>>

StartFails ==
  /\ main \in {"starting admin", "starting proxy"} /\ main' = "failed"
  /\ UNCHANGED <<sigCh, cancelled, serveVars, partVars, gaveUp>>

StartProxyServer ==
  /\ Goes("starting proxy", "running")
  /\ proxyServer' = "open" /\ server' = "spawned"
  /\ UNCHANGED <<sigCh, cancelled, requestVars, partVars, gaveUp>>

(* signal.Notify does not wait for room: a signal that finds none is lost. *)
(* One that comes before main calls Notify kills the process (not here).   *)
Signal(s) ==
  /\ main \in Notified
  /\ sigCh' = IF Len(sigCh) < SignalCap THEN Append(sigCh, s) ELSE sigCh
  /\ UNCHANGED <<main, cancelled, serveVars, partVars, gaveUp>>

(* The loop of main: SIGHUP reloads the configuration, which is no state   *)
(* of this module; SIGTERM, or the end of the proxy's server, stops.       *)
ReceiveSignal ==
  /\ main = "running" /\ sigCh # <<>>
  /\ main' = IF Head(sigCh) = "hup" THEN "reloading" ELSE "cancel"
  /\ sigCh' = Tail(sigCh)
  /\ UNCHANGED <<cancelled, serveVars, partVars, gaveUp>>

Reloaded ==
  /\ Goes("reloading", "running")
  /\ UNCHANGED <<sigCh, cancelled, serveVars, partVars, gaveUp>>

ReceiveServerEnd ==
  /\ Goes("running", "cancel") /\ server \in Over
  /\ UNCHANGED <<sigCh, cancelled, serveVars, partVars, gaveUp>>

------------------------------------------------------------------------------
(* Application.Stop, deferred by main.  The process ends after it.         *)
Cancel ==
  /\ Goes("cancel", "shutdown") /\ cancelled' = TRUE
  /\ UNCHANGED <<sigCh, serveVars, partVars, gaveUp>>

Shutdown ==
  /\ Goes("shutdown", "drain") /\ proxyServer' = "shut"
  /\ UNCHANGED <<sigCh, cancelled, server, requestVars, partVars, gaveUp>>

(* Mutant: Close where the code has Shutdown. *)
CloseServer ==
  /\ Goes("drain", "watcher") /\ proxyServer' = "nil"
  /\ UNCHANGED <<sigCh, cancelled, server, requestVars, partVars, gaveUp>>

(* http.Server.Shutdown waits for the requests it knows of.  A hijacked    *)
(* connection is none of its own any more: it neither waits for it nor     *)
(* closes it.                                                              *)
Awaited == inside \ hijacked

ShutdownReturns ==
  /\ Goes("drain", "watcher") /\ Awaited = {} /\ proxyServer' = "nil"
  /\ UNCHANGED <<sigCh, cancelled, server, requestVars, partVars, gaveUp>>

(* Mutant: a Shutdown without a timeout. *)
NoTimeout == FALSE /\ UNCHANGED lvars

ShutdownTimesOut ==
  /\ Goes("drain", "watcher") /\ Awaited # {} /\ proxyServer' = "nil" /\ gaveUp' = TRUE
  /\ UNCHANGED <<sigCh, cancelled, server, requestVars, partVars>>

(* Mutant: the watcher's Stop waits for a fetch under way, not for the loop. *)
WaitForFetch ==
  /\ Goes("watcher", "ui") /\ fetch[Poller] \in {"off", "waiting"}
  /\ UNCHANGED <<sigCh, cancelled, serveVars, partVars, gaveUp>>

(* Mutant: the watcher's Stop cancels and does not wait. *)
LeaveWatcher ==
  /\ Goes("watcher", "ui")
  /\ UNCHANGED <<sigCh, cancelled, serveVars, partVars, gaveUp>>

StopWatcher ==
  /\ Goes("watcher", "ui") /\ fetch[Poller] = "off"
  /\ UNCHANGED <<sigCh, cancelled, serveVars, partVars, gaveUp>>

StopUpdates ==
  /\ Goes("ui", "health") /\ ~broker
  /\ UNCHANGED <<sigCh, cancelled, serveVars, partVars, gaveUp>>

StopHealth ==
  /\ Goes("health", "admin") /\ health = "off"
  /\ UNCHANGED <<sigCh, cancelled, serveVars, partVars, gaveUp>>

(* The admin server's listener is closed; its handlers are not waited for. *)
StopAdmin ==
  /\ Goes("admin", "exited")
  /\ UNCHANGED <<sigCh, cancelled, serveVars, partVars, gaveUp>>

------------------------------------------------------------------------------
(* The goroutine that serves.  It reads a.proxyServer when it first runs:  *)
(* a server that is shutting down ends Serve at once, and nil ends the     *)
(* process.  Serve may also fail, at first (unserved) or later.            *)
Serve ==
  /\ main \notin Down /\ server = "spawned" /\ proxyServer = "open"
  /\ server' = "serving"
  /\ UNCHANGED <<main, sigCh, cancelled, proxyServer, requestVars, partVars, gaveUp>>

ServeFails ==
  /\ main \notin Down /\ server \in {"spawned", "serving"} /\ proxyServer = "open"
  /\ server' = IF server = "serving" THEN "failed" ELSE "unserved"
  /\ UNCHANGED <<main, sigCh, cancelled, proxyServer, requestVars, partVars, gaveUp>>

ServeEnds ==
  /\ main \notin Down
  /\ \/ proxyServer = "shut" /\ server = "spawned" /\ server' = "unserved"
     \/ proxyServer \in {"shut", "nil"} /\ server = "serving" /\ server' = "ended"
  /\ UNCHANGED <<main, sigCh, cancelled, proxyServer, requestVars, partVars, gaveUp>>

ServeCrashes ==
  /\ main \notin Down /\ server = "spawned" /\ proxyServer = "nil"
  /\ main' = "crashed"
  /\ UNCHANGED <<sigCh, cancelled, serveVars, partVars, gaveUp>>

(* A request comes on a connection that was accepted while Serve ran: it   *)
(* may come when Serve has failed, or ended because Shutdown began, but    *)
(* not when Shutdown has closed the idle connections and returned.  It is  *)
(* served to its end, which may never come.                                *)
Arrive(r) ==
  /\ main \notin Down /\ server \in {"serving", "failed", "ended"} /\ proxyServer # "nil"
  /\ r \notin inside /\ inside' = inside \union {r}
  /\ UNCHANGED <<main, sigCh, cancelled, proxyServer, server, hijacked, partVars, gaveUp>>

(* The backend agrees to a WebSocket: the reverse proxy takes the client's *)
(* connection from the server, and ServeHTTP copies until an end closes.   *)
Hijack(r) ==
  /\ main \notin Down /\ r \in Awaited /\ hijacked' = hijacked \union {r}
  /\ UNCHANGED <<main, sigCh, cancelled, proxyServer, server, inside, partVars, gaveUp>>

Finish(r) ==
  /\ main \notin Down /\ r \in inside
  /\ inside' = inside \ {r} /\ hijacked' = hijacked \ {r}
  /\ UNCHANGED <<main, sigCh, cancelled, proxyServer, server, partVars, gaveUp>>

------------------------------------------------------------------------------
(* pollLoop: its select may take a tick although the context is cancelled. *)
Fetching(f, s, t) ==
  /\ main \notin Down /\ fetch[f] = s /\ fetch' = [fetch EXCEPT ![f] = t]
  /\ UNCHANGED <<main, sigCh, cancelled, serveVars, health, broker, gaveUp>>

PollTick == Fetching(Poller, "waiting", "fetching")
PollEnds == cancelled /\ Fetching(Poller, "waiting", "off")

(* The webhook's handler: a connection accepted while main has not closed  *)
(* the listener, a signature verified or not, and RefreshGit.              *)
Accept(h) == main \notin {"start", "starting admin"} /\ Fetching(h, "off", "waiting")
Refuse(h) == Fetching(h, "waiting", "off")
RefreshGit(h) == Fetching(h, "waiting", "fetching")

(* fetchAndCheck: the listing fails or shows what is known; or it shows    *)
(* that blue moved, green, or both, and each move makes a switch.          *)
After(f) == IF f = Poller THEN "waiting" ELSE "off"
FetchReturns(f) == Fetching(f, "fetching", After(f))
FetchFindsMove(f) == \E target \in {"blue", "green"} : Fetching(f, "fetching", target)

(* HandleTagChange: its context is not a.ctx, so that the switch goes on.  *)
SwitchEnds(f) == \/ \E target \in {"blue", "green"} : Fetching(f, target, After(f))
                 \/ Fetching(f, "blue", "green")

(* The health loops, of which one stands for both, and the broker.         *)
Checking(s, t) ==
  /\ main \notin Down /\ health = s /\ health' = t
  /\ UNCHANGED <<main, sigCh, cancelled, serveVars, fetch, broker, gaveUp>>

HealthTick == Checking("waiting", "checking")
CheckEnds == Checking("checking", "waiting")
HealthEnds == cancelled /\ Checking("waiting", "off")

BrokerEnds ==
  /\ main = "ui" /\ broker /\ broker' = FALSE
  /\ UNCHANGED <<main, sigCh, cancelled, serveVars, fetch, health, gaveUp>>

------------------------------------------------------------------------------
Main == \/ StartApplication \/ StartAdmin \/ StartFails \/ StartProxyServer
        \/ ReceiveSignal \/ Reloaded \/ ReceiveServerEnd
        \/ Cancel \/ Shutdown \/ ShutdownReturns \/ ShutdownTimesOut
        \/ StopWatcher \/ StopUpdates \/ StopHealth \/ StopAdmin
Serving == Serve \/ ServeFails \/ ServeEnds \/ ServeCrashes
Polling == \/ PollTick \/ PollEnds \/ HealthTick \/ CheckEnds \/ HealthEnds
           \/ BrokerEnds
World == \/ \E s \in {"hup", "term"} : Signal(s)
         \/ \E r \in Requests : Arrive(r) \/ Hijack(r) \/ Finish(r)
         \/ \E h \in Webhooks : Accept(h) \/ Refuse(h) \/ RefreshGit(h)

LifecycleNext ==
  \/ Main \/ Serving \/ Polling \/ World
  \/ \E f \in Fetchers : FetchReturns(f) \/ FetchFindsMove(f) \/ SwitchEnds(f)

(* main goes on when it can, but for its failures.  A select whose case    *)
(* stays ready takes it in the end.  A check ends, at the client's timeout *)
(* if not before; a listing ends when its context is cancelled; a switch   *)
(* ends.  Requests, webhooks and signals need not come nor end.            *)
LifecycleSpec ==
  /\ LifecycleInit /\ [][LifecycleNext]_lvars
  /\ WF_lvars(Main) /\ SF_lvars(ReceiveServerEnd) /\ SF_lvars(ReceiveSignal)
  /\ WF_lvars(Serving)
  /\ SF_lvars(PollEnds) /\ WF_lvars(cancelled /\ FetchReturns(Poller))
  /\ WF_lvars(SwitchEnds(Poller))
  /\ SF_lvars(HealthEnds) /\ WF_lvars(CheckEnds) /\ WF_lvars(BrokerEnds)

------------------------------------------------------------------------------
(* Type correctness; no more signals wait than sigCh holds. *)
LifecycleTypeOK ==
  /\ main \in {"start", "starting admin", "starting proxy"} \union Notified \union Down
  /\ sigCh \in Seq({"hup", "term"}) /\ Len(sigCh) <= SignalCap
  /\ proxyServer \in {"nil", "open", "shut"}
  /\ server \in {"none", "spawned", "serving"} \union Over
  /\ hijacked \subseteq inside /\ inside \subseteq Requests
  /\ fetch \in [Fetchers -> {"off", "waiting", "fetching", "blue", "green"}]
  /\ health \in {"off", "waiting", "checking"}
  /\ cancelled \in BOOLEAN /\ broker \in BOOLEAN /\ gaveUp \in BOOLEAN

(* app.go:168, "gracefully", as far as it goes: when the program has       *)
(* stopped, a request was cut off only if it had kept Shutdown waiting for *)
(* its whole timeout, or was a WebSocket's (proxy.go:242) -- no other slips*)
(* in while main stops, none is forgotten when the server's goroutine      *)
(* starts late or has failed.                                              *)
GracefulStop == main = "exited" /\ ~gaveUp => inside \subseteq hijacked

(* The program does not exit amid a switch that its polling loop makes,    *)
(* between the drain and the store of the target, although the switch does *)
(* not know that the program stops (switcher.go:257, gitwatcher.go:93).    *)
NoSwitchIsCut == main = "exited" => fetch[Poller] \notin {"blue", "green"}

(* A SIGTERM that waits in sigCh, or a proxy server that fails, ends the   *)
(* process, although requests may never end, the remote may never answer   *)
(* and webhooks come at any time: Stop waits for nothing that may not end. *)
StopReturns ==
  main \in Stopping \/ server \in Over \/ Contains(sigCh, "term") ~> main \in Down

(* Once Shutdown has returned, the server admits nothing, and serves only  *)
(* hijacked connections if it did not give up; once the watcher's Stop     *)
(* has, its loop is gone: what a wait of Stop was for holds from there to  *)
(* the exit.                                                               *)
Drained == {"watcher", "ui", "health", "admin", "exited"}
Unwatched == {"ui", "health", "admin", "exited"}
ServedOut == main \in Drained => proxyServer = "nil" /\ (~gaveUp => Awaited = {})
PolledOut == main \in Unwatched => fetch[Poller] = "off"

(* The inductive invariant of the program's stop. *)
LifecycleInv == LifecycleTypeOK /\ ServedOut /\ PolledOut
==============================================================================
