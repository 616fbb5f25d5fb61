# Verification of the blue-green load balancer

The program stands in front of two backends, blue and green, and sends every
request to one of them. It moves traffic when a git tag moves: it drains the
requests inside, changes the active backend, and lets requests in again. This
directory has TLA+ modules of the parts that decide whether that works, TLC
configurations that check them on small instances, and proofs that TLAPS checks
for every instance. Paths below are relative to the repository's root (`src/`
in `PROJECT.json`); `drainer.go` is `internal/proxy/drainer.go`, and so on.

Run, in this directory: `tlc -config Drainer.cfg MCDrainer.tla` (and so for each
row of the table of runs), and `tlapm` on each of `DrainerProofs.tla`,
`ProxyProofs.tla`, `LifecycleProofs.tla`, `HealthProofs.tla`, `GitProofs.tla`,
`DeploymentProofs.tla`, `CollectorProofs.tla`, `SSEBrokerProofs.tla`.

## The system

| Part (code) | State | Operations | Model |
|---|---|---|---|
| Connection drainer (`internal/proxy/drainer.go`) | `activeConnections`, `wg`, `draining`, `drainCh`, the two mutexes, `prevDone` | `Track`, `TrackRequest` and the release, `Drain`, `Reset` | `DrainGate`, `Drainer` |
| Reverse proxy (`internal/proxy/proxy.go`) | `activeTarget`, the drainer | `ServeHTTP`, `Switch` | `Proxy` |
| Switch orchestrator (`internal/switcher/switcher.go`) | `history`, `switchCount` under `s.mu` | `Switch`, `HandleTagChange` | `Switcher` |
| Git watcher (`internal/switcher/gitwatcher.go`) | `lastBlue`, `lastGreen`, `status` under `w.mu` | `pollLoop`, `FetchNow`, both through `fetchAndCheck`; `Start`, `Stop` | `GitWatcher` |
| Health checker (`internal/health/checker.go`) | per backend a loop, a ticker, a status | `Start`, `Stop`, the check, `IsHealthy`, `CheckNow` | `Health` |
| SSE broker (`internal/ui/sse.go`) | `clients`, the channels `register`, `unregister`, `broadcast` and one per client | `Start`, `Stop`, `run`, `ServeHTTP`, `SendEvent` | `SSEBroker` |
| Metrics store (`internal/metrics/store.go`) | a ring of buckets, the latest latencies | `RecordRequest`, `RecordError`, `GetHistory`, `GetLatencyPercentiles`, `Reset` | `MetricsStore` |
| Metrics collector (`internal/metrics/collector.go`) | atomic counters, the last error | `RecordRequest`, `RecordError`, `Snapshot` | `Collector` |
| Configuration (`internal/config/config.go`) | the durations, in memory | `Load` with defaults and validation, `Application.Reload` | `Config`, composed in `Health` |
| Application and main program (`internal/app/app.go`, `cmd/bluegreen/main.go`) | the parts, their contexts, `proxyServer`, `sigCh` | `Start`, `Stop`, `Reload`, the signal loop, the goroutine that serves | `Lifecycle`; the wiring of callbacks in `Deployment` and `Collector`, `Reload` in `Config` and `Health` |
| Admin server and webhook (`internal/admin/server.go`, `webhook.go`) | the listener | `Start`, `Stop`, the refresh webhook | `Lifecycle`, `FetchNow` in `GitWatcher` |
| Admin API, UI handlers, logging, `bgctl` | none of their own | translation of requests, parsing, output | none |

How they work together. The watcher's polling loop lists the remote's tags; so
does every webhook or API call, in its own goroutine. A fetch that finds
`deploy/blue` or `deploy/green` at another commit than the one remembered calls
its listener, which is the orchestrator's `HandleTagChange`: the goroutine that
fetches runs the whole switch before it looks at the next tag, blue before green. The orchestrator
asks the health checker whether the target is healthy, then calls the proxy's
`Switch`, which drains the drainer that `ServeHTTP` tracks requests with. Drains
are limited in time, requests are not. The collector records every request and
every error, in the goroutine of the request, and keeps a history in its store;
it and the broker decide nothing. The checker's loops run on intervals from the
configuration, which a SIGHUP loads again.

Which behaviours are hard, and what makes each part correct:

- **Drainer.** A `sync.WaitGroup` is used again after drains that timed out, while
  the goroutine of the old drain may still wait on it: misuse is a panic. `Drain`
  and `Reset` hold `drainMu` for as long as a drain lasts. Correct: no panic, `nil`
  from `Drain` means that no request is inside, no request enters between a drain's
  begin and the departure of those from before it, every call returns.
- **Proxy.** Requests read the active target after they are tracked; a switch goes
  on when its drain times out. Correct: while requests are admitted, none is inside
  on its way to the old backend.
- **Orchestrator.** `s.mu` is released during the switch, so that two calls
  overlap. Correct: the history tells what happened.
- **Watcher.** `w.mu` is released between the listing and the comparison, and while
  the listener runs. Listings fail, or are applied late. Correct: no move of a
  tag is lost, none is told of twice, the status converges to the remote, and the
  answer to a refresh comes when all that it found has been acted on.
- **Health and configuration.** Checks hang, ticks are dropped, answers are stale;
  a Reload changes fields under the loop, but neither its ticker nor its client.
  Correct: how long a dead backend can count as healthy is bounded, and the
  configuration that runs is one that validation would pass.
- **Broker.** Clients come and go at every statement of the broker's goroutine;
  buffers fill; a client stops reading and blocks its handler; the broker stops.
  Correct: no send on a closed channel, events in order, the streams of clients that read
  end with the broker, nobody holds up anybody else.
- **Lifecycle.** `Stop` is a sequence of waits, each for goroutines that go on
  meanwhile: requests, the polling loop amid a switch, checks, the broker. Correct: it
  returns whatever hangs, and cuts off only what outlasts its timeout.
- **Store.** Idle time of any length between two records; a wall clock that is set
  back; windows and resolutions that do not divide each other; percentiles of few
  latencies. Correct: the history is what happened.
- **Collector.** A request is counted in three places and an error in two, by as many
  goroutines as there are requests; a snapshot reads counter by counter. Correct: no
  count is lost, and what a snapshot shows hangs together.

`PROJECT.json` lists these as hazards, each at its line, with the properties that
would show it going wrong.

## The modules

`DrainGate` is the abstract specification of the drainer: a gate that is open, shut
or drained, and the set of requests inside. A shut gate reopens only after it has
been seen empty. It knows no mutex, WaitGroup, channel or timeout.

`Drainer` translates `drainer.go`. A section under `mu` is one step, and so is
each statement outside; `drainMu` is held over several steps, so its holder is a
variable and every caller of `Drain` and `Reset` has a program counter. The
statement `wg.Wait()` of a drain's goroutine is three steps (it finds the counter
positive and parks, it is woken, it returns), for the panic of a reused WaitGroup
lies between them. A `done` channel is closed exactly when its goroutine has
exited, so that the state of the goroutine (`waiter`) stands for both. Timeouts may
happen at any moment. `ImplementsGate` is `DrainGate` under the mapping `GateOf`:
the gate is drained from the moment the goroutine of the remembered drain has
closed its channel.

`Proxy` EXTENDS `Drainer` and adds `activeTarget`, a route per request and the
parameter of each `Switch`. Its steps are steps of the drainer conjoined with what
`proxy.go` does around them, so that "the proxy uses the drainer as it may be used"
is the statement `ImplementsDrainer`, checked and proved, and not an assumption.

`Switcher` EXTENDS `Proxy`: the check under `s.mu`, the proxy's switch, the record
under `s.mu`, and backends whose health changes at any time.

`GitWatcher` stands alone. Tags are moved on by the environment; a commit is a
number that grows. A fetch is a listing (or its failure) and then the sections
under `w.mu`, which end where the listener is called. `Deployment` EXTENDS `Switcher`
and `GitWatcher` and joins `Notify` with the check of `Switcher`: the fetcher and
the caller of the switch are one goroutine. `ImplementsGitWatcher` states that the
watcher still fulfils its specification, fairness included, when its listener is a
real switch and not an assumption that listeners return.

`SSEBroker` models the broker's goroutine and one goroutine per client at the level
of channel operations. The two unbuffered channels are rendezvous, and whether the
broker waits in its `select` is part of the state (`parked`), because the deferred
unregister of a client succeeds only then. A handler takes an event from its channel and
writes it in two steps, of which the second may never come; `Readers` are the clients
that are assumed to read on.

`MetricsStore` has every method as one step, since all hold `s.mu`. Its time is the
wall clock's, a number that may also be set back (`ClockSetBack`); the ghost `truth`
keeps what was recorded at each time, `latest` the latest time the clock had shown.
`sort.Slice` is `Sorting`, the places in the order of their keys by counting those before
each, since the standard modules' sorting has no definition that a prover can use.
`Collector` EXTENDS it: a recorder is the goroutine of a request, which counts an
error, if there was one, in the three statements of `RecordError` and then the
request in the three of `RecordRequest`; `Snapshot` reads one counter per step, in
the order of the code (`Order`). The ghost `failed` counts the requests of the total
that had failed, for the properties to relate errors with requests.

`Config` is pure: the durations of a file, the defaults, the validation and what
`Reload` takes over. `Health` EXTENDS it and is the loop of one backend with a ticker,
a timeout and discrete time; loops of different backends share nothing but a mutex.
It starts from any configuration that `Load` returns for one of `Files`, and loads
again at any time; the client keeps the timeout it was made with, the ticker the
interval it was started with.

`Lifecycle` stands alone too. `main` is the statement that the main goroutine is at;
each wait of `Application.Stop` is a step of its own, and the goroutines it waits for
take theirs. The parts appear as coarsely as their waits need: a fetch may hang,
fail, or find moved tags; a switch ends (`SwitchReturns`), with a context of its own
(switcher.go:257) and not `a.ctx`; a check ends; a request may never end. `a.cancel()`
comes first, so that a switch that runs while `Stop` waits reads a health that no loop
refreshes any more. A request may come on any connection accepted while `Serve` ran, until
`Shutdown` has returned, and may take its connection from the server, as those of
WebSockets do (`Hijack`): `Shutdown` waits for the others only (`Awaited`). A request that
reaches an idle connection at the moment at which `Shutdown` closes it counts as one that
never came. Capacities, `os.Exit` without the deferred `Stop`, and the field
`a.proxyServer`, which the serving goroutine may find `nil`, are in it.

`MCx` are the modules TLC is run on. `XProofs` holds the theorems about `X` (`GitProofs`
about `GitWatcher`, `DeploymentProofs` also about `Switcher`, `CollectorProofs` also about
`MetricsStore`). Definitions marked "Mutant" are versions of the definition that
follows with a plausible bug in it. No specification uses them; they show, for each
property, that it can fail (`mutants` in `PROJECT.json`).

## The runs

| Run | Module, configuration | Bounds | Shows |
|---|---|---|---|
| `drainer` | `MCDrainer`, `Drainer.cfg` | 2 requests, 2 callers, 2 done channels | `DrainerInv` is invariant, so no double close and one waiting goroutine, `NoWaitGroupPanic`, `DrainNilMeansEmpty`, refinement of the gate with fairness, `CallsReturn` |
| `proxy` | `MCProxy`, `Proxy.cfg` | 2 requests, 2 callers of `Switch` | `ImplementsDrainer`; `SwitchReturns` although requests hang; `CleanedUpByNextSwitch` |
| `proxy_race` | `MCProxy`, `Proxy_race.cfg` | 1 request, 2 callers | counterexample to `DrainedBeforeSwitch` |
| `proxy_stuck` | `MCProxy`, `Proxy_stuck.cfg` | 1 request, 1 caller | counterexample to `ServiceRestored` |
| `switcher` | `MCSwitcher`, `Switcher.cfg` | 2 callers, 3 switches, history of 2 | `ChangesAreCounted` with overlapping calls; `SwitcherInv`, so types, the history within its cap, and the counter behind by the calls that have yet to record |
| `git` | `MCGitWatcher`, `GitWatcher.cfg` | polling and one immediate fetch, tags moved to commit 2 | `NoMoveIsLost`, `StatusFollowsRemote`, `RefreshTellsAll`; `GitInv` is invariant |
| `deployment` | `MCDeployment`, `Deployment.cfg` | the polling loop, 1 request, tags moved to commit 2, at most 3 switches | `OpenMeansCurrent`, `DrainedBeforeSwitch`, `HistoryChains`, `CountsOnlyChanges`, `TellsOnlyNews`, `NewsIsFollowed`, `ImplementsGitWatcher` |
| `deployment_active` | `MCDeployment`, `Deployment_active.cfg` | as above, no request | counterexample to `ActiveTagIsServed` |
| `sse` | `MCSSEBroker`, `SSEBroker.cfg` | 2 clients, one of which may stall, queue of 2, buffers of 2, 3 events | `BrokerInv` (no send on a closed channel, none closed twice), `DeliveredInOrder`, `EventsArrive`, `StopEndsStreams`, `ConnectIsServed` |
| `store` | `MCCollector`, `Collector.cfg` | 2 recorders, 2 requests, one snapshot at a time; ring of 4, resolution 2, time to 18 | `CountsAgree`, `SnapshotHangsTogether`, and the invariants of collector and store (`CollectorTypeOK`); `RingIsWindow`, `HistoryIsTruth`, `AggregateCounts` for every duration and resolution; `PercentilesRank` |
| `health` | `MCHealth`, `Health.cfg` | 72 files; timeouts 1 and 3, intervals 2 and 5 | `HealthInv`, which has `ConfigStaysValid` in it; `HealthIsFresh` |
| `lifecycle` | `MCLifecycle`, `Lifecycle.cfg` | 2 requests, 1 webhook, the polling loop, `sigCh` of 1 | `LifecycleInv`, `GracefulStop`, `NoSwitchIsCut`, `StopReturns` |

Four properties (`OpenMeansCurrent`, `DrainedBeforeSwitch`, `TellsOnlyNews`,
`CountsOnlyChanges`) and `HistoryChains` hold when switches and fetches are made one
at a time, which is how the polling loop makes them; so they are checked in
`deployment`. With two at a time they fail; see the divergences.

Why the bounds are enough. *Drainer and proxy:* what can go wrong takes a timed-out
drain whose goroutine still waits, a second drain, and a reset or a request between
them; two callers and two requests make all of these. Two done channels suffice,
for `SingleWaiter` says that no more than one goroutine is alive, and `DrainSpawn`
takes one that is not `prevDone`. What the runs show of safety here is proved for
any number. *Switcher:* with a history of two, three switches overflow it; two
calls overlap in every way. *Watcher:* a tag may be absent, be seen first, and move;
with two fetchers each listing may be overtaken by a whole fetch. *Broker:* with
a queue and buffers of two, each fills up, also while the broker is amid a broadcast, and
the third event is dropped, skipped or delivered; an event may lie in a buffer, behind
another, for which nothing excuses that it is not written. Of the two clients one may
stall in a write for ever. *Store and
collector:* time goes on for longer than the whole ring after a record and then over
the end of the ring, and back as far as one bucket before the ring's first; resolutions
go from one bucket to the whole ring; latencies lie below and at a millisecond.
`PercentilesRank` is checked of all sequences of up to `MaxLatencies` + 3 latencies as
well as of those in the state. Two requests, each of which may fail, meet in every
statement of the recorders and of a snapshot. `MCCollector` leaves out interleavings
that touch different state: time passes, and the store is reset, while nothing is
recorded or read (`AtRest`), since the store's methods are atomic; recorders overlap
each other and a snapshot in the first period only (`Early`). Every property of this run
is proved without these bounds.
*Health:* fields are left out, too small, at their limits and beyond; intervals and
timeouts of one file come to run with those of another; `MaxDown` is more than the
largest bound. *Lifecycle:* two requests, of
which one ends and one hangs, one is a WebSocket and one is not; a webhook is no one's business but its
own, and `sigCh` has
the capacity it has in the code. `MaxCommit`, `MaxSwitches`,
`MaxEvents`, `MaxTime`, `MaxRequests` and `MaxDown` bound counters of the model only.
Deadlock is checked but in `store`, where time stops at its bound, and in `lifecycle`,
where the program exits.

## Fairness

- *Drainer.* Goroutines that can run do: weak fairness of each waiting goroutine and
  of each call's statements. Acquiring `drainMu` is strongly fair, since a
  `sync.Mutex` hands the lock to a goroutine that has waited for a millisecond.
  That a drain may wait for the previous one only until its context ends is as in
  `HandleTagChange` (switcher.go:259), which gives it 30 seconds. Nobody has to call
  anything, and **no request has to end**.
- *Proxy.* `SwitchReturns` is under that fairness only. `CleanedUpByNextSwitch` and
  `ServiceRestored` assume in addition that requests end.
- *Watcher.* The ticker goes on firing and a remote that is asked again and again
  answers now and then (strong fairness of the poller's listing); a fetch that has
  begun goes on. That includes that the listener returns, which is what
  `ImplementsGitWatcher` discharges from the switcher's own fairness.
- *Broker.* The goroutine runs when it can, and a `select` takes a case that is
  ready again and again in the end (Go chooses at random): strong fairness of
  registrations, events and the stop. The handler of a client that goes on reading
  (`Readers`) ends each of its writes, and takes what is in its channel in the end.
  Nothing is assumed of the other clients' handlers: the admin server sets no write
  timeout (server.go:116, :168), so that a write to a client that has stopped reading may
  block for good. Clients need not connect or hang up.
- *Lifecycle.* The main goroutine and the others run when they can; a `select` takes a
  case that stays ready in the end (strong fairness: ticks go on coming). A check ends
  at the client's timeout, `Shutdown` at its 30 seconds, a listing when its context is
  cancelled, a switch as `SwitchReturns` says. Before `Stop` a listing may hang, and
  requests and webhooks may hang throughout.
- *Store, collector, health.* Safety only.

## The proofs

Everything below is checked by TLAPS for any finite set of requests, any set of
callers and of done channels. The assumptions are named in the modules:
`RequestsAssumption` (the requests are finitely many, so that a counter can count
them) and those by which `NoCaller`, `NoDone` and `NoTarget` are none of the
things they stand for the absence of; `ConfigAssumption`, that the defaults are
themselves valid; `CollectorAssumption`, that recorders are finitely many;
`StoreAssumption`, that the ring has a bucket, and that the model's time goes on for at
least one period after the ring was made. The theorems named `Serial`, and those of
`DeploymentProofs` that say so, assume in addition that there is one caller or one fetcher
(`OneCaller`, `OneFetcher`), as the polling loop is; with two they are false, see below.

The inductive invariant of the drainer is `DrainerInv`. `NoWaitGroupPanic` alone is not inductive:
that a woken goroutine finds the counter at zero needs that no request can enter
meanwhile, hence that `draining` stays set while any goroutine is alive
(`SingleWaiter`), hence that `Reset` clears `draining` only when `prevDone` is closed
or absent (`CallerInv` at `reset_open`), which needs that no drain runs unrecorded
(`DrainRecorded`), which needs mutual exclusion of `drainMu` (`MutexHeld`). That a
closed `prevDone` means an empty drainer (`QuietAfterWait`) needs that the counter is
the number of requests inside (`Counts`), for which `DrainerProofs` has lemmas on
cardinalities. The proof that a step preserves it has one lemma for the requests'
steps, one for the goroutines', one for the callers', and one step per action in each.

| Theorem | States |
|---|---|
| `DrainerInvariant`, `DrainerTyping` | `DrainerSpec => []DrainerInv`, and its type correctness |
| `DrainerNoWaitGroupPanic`, `DrainerNoDoubleClose` | neither the WaitGroup nor `close(d.drainCh)` panics |
| `DrainerNilMeansEmpty` | the action property of `Drain`'s result |
| `DrainerImplementsGate` | `DrainerSpec => Gate!Spec`, by step simulation: requests' steps are `Admit`, `Leave` or stutter, `CloseDone` is `Quiesce`, `DrainMark` is `Shut`, `ResetApply` is `Reopen` or stutters |
| `ProxyImplementsDrainer` | each step of the proxy is a step of the drainer or leaves it alone, so that all of the above holds inside the proxy, with any number of concurrent `Switch` calls |
| `SerialOpenMeansCurrent`, `SerialDrainedBeforeSwitch` | with one `Switch` at a time, an admitting proxy has requests on the active backend only, and a drained switch changes the backend under none. The invariant `SerialInv` adds that no route is left from before while the drainer is open, or when a drain has returned `nil` |
| `LifecycleInvariant`, `LifecycleTyping` | `LifecycleSpec => []LifecycleInv`, and its type correctness |
| `LifecycleGracefulStop`, `LifecycleNoSwitchIsCut` | the exit cuts off no request that `Shutdown` did not give up on, but for those of WebSockets, and no switch of the polling loop, for any requests and webhooks |
| `HealthInvariant`, `HealthFresh`, `ConfigValid` | for every timeout, interval and set of files, and any reloads: how stale the status may be at each point of the loop, the bound that follows, and that the configuration which runs is valid |
| `GitInvariant`, `GitRefreshTellsAll` | for any number of fetches at once: what is remembered of a tag after its first commit has been told, so that a fetch ends only when the listener has returned for all that it found |
| `SwitcherInvariant`, `SwitcherChangesAreCounted` | for any number of overlapping switches: where each is, and that the counter misses only what is about to be recorded |
| `SwitcherImplementsProxy` | `SwitcherSpec => ProxySpec`: all of the above about proxy and drainer holds under the orchestrator |
| `SerialHistoryChains`, `SerialCountsOnlyChanges`, `SerialTellsOnlyNews` | with one switch at a time the history is one path, and only changes are counted; with one fetch at a time each commit is told of once and in order |
| `DeploymentImplementsGitWatcher`, `DeploymentImplementsSwitcher` | a step of the deployment is a step of watcher and switcher, or leaves them alone; so each keeps its specification when it is composed with the other |
| `DeploymentChangesAreCounted`, `DeploymentRefreshTellsAll` | hence, for any fetches at once, what holds of each alone |
| `DeploymentOpenMeansCurrent`, `DeploymentDrainedBeforeSwitch`, `DeploymentHistoryChains`, `DeploymentCountsOnlyChanges`, `DeploymentTellsOnlyNews`, `DeploymentNewsIsFollowed` | with one fetch at a time, every safety property that the run `deployment` checks, for any number of requests, moves and switches |
| `CollectorInvariant`, `CollectorSnapshot` | for any finite set of recorders: requests and errors are counted alike in all counters but for those being recorded, and a snapshot hangs together |
| `StoreInvariant`, `CollectorTyped`, `CollectorImplementsStore` | for any ring, resolution and times: the buckets are the latest periods, each with what was recorded in it; and so under concurrent recorders |
| `CollectorRingIsWindow`, `CollectorHistoryIsTruth` | the ring is a window of time, and what is read of it is what happened |
| `CollectorAggregateCounts` | aggregated to a coarser resolution, it counts nothing twice, loses no slow request, and has windows that do not overlap |
| `CollectorPercentilesRank` | the computed rank is in range and is that of the percentile, for any latencies |
| `CollectorCountsAgree` | counters and history agree, for any recorders |
| `BrokerInvariant`, `BrokerDeliversInOrder` | for any clients, queue and buffers: the broker uses no closed channel, and what is written to a client is in order, each event at most once |

`HealthIsFresh` alone is not inductive either: how long a backend that still counts as
healthy may have been down depends on where the loop is. `HealthInv` says it for each
place (`StaleChecking`, `StaleWaiting`), from two facts: a check during which no tick came
began at or after the last tick (`NoTickMissed`), and an answer was true when it was given
(`AnswerWasTrue`). That a reload keeps `Valid` is a matter of which fields it takes.
`GitInv` says of each section under `w.mu` what the fetch has dealt with so far
(`BlueIsTold`); one lemma, `SectionKeeps`, covers the sections. `CollectorInv` bounds each
field that a snapshot has read by counters it has yet to read, which only grow.
`KnownAreOpen` needs that a client which the broker is registering is a new one, and one it
has not met is neither known nor closed (`InHand`, `StrangersUnknown`). The order of events
rests on `InOrder`: queue and channels increase, the event being broadcast lies between
them, and what a client's handler writes or has written is older than all that may still
reach it (`Passed`).

`LifecycleInv` keeps, from the return of a wait of `Stop` to the exit, what the wait was
for: after `Shutdown`, that the server is closed to new requests and that, unless it gave
up, the requests still inside are hijacked ones (`ServedOut`); after the watcher's `Stop`, that its
loop is gone (`PolledOut`). That the poller is not one of the webhooks' goroutines is `LifecycleAssumption`.

`ChangesAreCounted` needs to know, of each call, whether it has stored the new target and
not yet recorded it: `Stored` is the set of these, `StoresAreCounted` relates its size with
`switchCount`, and `CallsAreInProxy` says which statements of `proxy.Switch` a call can be
at. With one caller (`SerialSwitches`), the one call in `Stored` is the last edge of the
path that the history tells. `NewsInv` carries `NewsIsFollowed` through a switch: the goal of
the listener under way is the change that it was told of last. That the deployment
implements its parts is a matter of its steps alone (`DeploymentSteps`), and the parts'
theorems are then cited.

`RingIsWindow` is not inductive for want of a relation between the ring and time: `RingInv`
says that the bucket `i` places back is the one of `i` periods before the latest, and has
what `truth` has of it. `RingTurns` is the heart, the modular arithmetic of a ring that is
turned by any number of places (`LastSkip`): what is kept is in place, what is not is empty.
`HistoryIsTruth` and `PercentilesRank` rest on `SortingIs`, that places with distinct numbers
of earlier ones are a permutation. The sum of what was recorded, in `CountsAgree`, is a fold;
that it changes with one summand (`FoldAdds`) is proved without an induction rule, which
these provers cannot instantiate: a sum of naturals is the number of its units (`Sum`), for
which the cardinality theorems apply, and the fold is that sum because a smallest set on
which they differed would have a smaller one (`AnyOrder`).

`AggregateCounts` is about the loop of `aggregatePoints`, a fold over the points in order.
That the fold has a result is proved by extending a function on the subsets of `1..m-1` to
those of `1..m`, for the least `m` that would have none (`LoopExists`; the least number and
the last place of a set come from `SortingIs`); that the loop keeps `LoopShape` and
`LoopCounts`, in the same way. They say what no query shows: the points emitted so far and
the one being summed share out the requests that the loop has seen, `latencyCount` is never
more than the requests of the point being summed, and its end is a resolution after its
beginning.

Only model-checked: everything about liveness (`CallsReturn`, `SwitchReturns`,
`CleanedUpByNextSwitch`, `ImplementsFairGate`, the fairness in `ImplementsGitWatcher`,
`StatusFollowsRemote`, `NoMoveIsLost`, `EventsArrive`, `StopEndsStreams`, `ConnectIsServed`,
`StopReturns`), which is out of reach of this prover together with `ENABLED`. Every other
property of a passing run is a theorem.

## Divergences

Three runs show that the program does not do what its documents say:

- `proxy_stuck`: after a drain timeout the proxy answers 503 for ever, although all
  requests have ended, until the next switch to the other backend (drainer.go:145-155).
  README.md:183 says that the switch "Switches traffic to the new backend".
- `proxy_race`: two overlapping switches change the backend under an admitted
  request with no timeout involved (proxy.go:180-192); README.md:19.
- `deployment_active`: a move of `deploy/active` switches nothing (gitwatcher.go:166);
  README.md:179 says that it is what switches.

Others were met while modelling and have no run of their own:

- A client that leaves while the broker's goroutine is not at its `select` is never
  unregistered: it is counted, and sent events, until `Stop` (sse.go:115; "ClientCount
  returns the number of connected clients", sse.go:173).
- A `Stop` that comes before the serving goroutine has run sets `a.proxyServer` to `nil`,
  which that goroutine dereferences (app.go:182, :300, without the mutex that guards the
  field): the process ends with a panic. `ServeCrashes` has the behaviour.
- `sigCh` holds one signal (main.go:123): a SIGTERM that comes while one SIGHUP is being
  handled and another waits is lost, and the program goes on.
- A switch that a webhook makes is cut off by the exit: `Admin.Stop` closes the listener
  and waits for no handler (server.go:132). `NoSwitchIsCut` holds for the polling loop.
- deploy/bluegreen.service:45 allows 35 seconds, "30s drain + 5s buffer", but `Stop`
  also waits for up to two switches of the polling loop, of 30 seconds each.
- A WebSocket is cut off at once by the exit: it takes its connection from the server
  (proxy.go:242-248), and `Shutdown` (app.go:180) neither waits for such connections nor
  closes them; "Stop stops all application components gracefully" (app.go:168).
  `GracefulStop` leaves them out.
- A client of the dashboard that stops reading blocks its handler in a write for as long as
  the connection lasts (sse.go:138, no write timeout in server.go:116 or :168): the
  handler does not see that the broker, at its end, has closed its channel (sse.go:57-63).
  `StopEndsStreams` holds for clients that read.
- READY=1 is sent before the proxy's server has listened or failed to (main.go:115;
  "fully initialized and ready to serve", systemd.go:12).
- Two overlapping `Switch` calls for one target both pass the check; the second
  switches nothing and is counted and recorded (switcher.go:93-120, proxy_test.go:212).
  `CountsOnlyChanges` fails with two callers.
- A fetch that listed before another and compares after it tells of the older
  commit as of a change (gitwatcher.go:136). `TellsOnlyNews` fails with two fetchers.
- When both tags move between two listings, green is told of last, whichever moved last,
  and gets the traffic if it is healthy; a change that is refused because its backend is
  not healthy is not tried again (gitwatcher.go:133-165). `NewsIsFollowed` is about what
  was told and accepted.
- `FetchNow` answers with the error in the shared status (gitwatcher.go:240), which
  may be that of another fetch (webhook.go:59).
- After a timed-out drain is reset, the channel `DrainCh` returns is a new one that
  the next `Drain` does not close (drainer.go:157, :161). Nothing reads it.
- A point of an aggregated history counts two adjacent periods, since a period that
  begins at `currentEnd` is not after it (store.go:231), and requests and errors
  are left out of which no bucket has a millisecond of latency (store.go:232).
  `AggregateCounts` asks for neither: a loop that did without them would have it too.
- A failed check erases `LastHealthy` (checker.go:163), which the comment above it means
  to preserve.
- A reloaded `health.interval` or `git.poll_interval` never reaches the running ticker,
  and a reloaded `health.timeout` never reaches the client, which is made with the first
  one (app.go:207, :237-245, checker.go:52-57; "changes apply automatically").
- `Snapshot` is not "a point-in-time snapshot of all metrics" (collector.go:186): it reads
  counter after counter. `SnapshotHangsTogether` is what does hold. The error shown may be
  older than another that is counted (collector.go:136-140).
- A response that breaks off after its header ends `ServeHTTP` with the reverse proxy's
  `ErrAbortHandler`: the request is released and never recorded (proxy.go:132, :152).
- `metrics.history_resolution` is not validated (config.go:151-173): a negative one stops
  the ring from turning, and a tiny one makes it turn bucket by bucket, under the lock, for
  as long as it takes.
- bgctl gives up after 30 seconds (client.go:80), but a refresh answers when the switches it
  makes have ended, of up to 30 seconds each. `waitForTailscaleIP` (client.go:99) has no limit
  of its own.
- After the wall clock is set back, requests are counted in the bucket of the latest time it
  had shown (store.go:82-86), until it has caught up. `HistoryIsTruth` says so.
- README.md:189-197 documents a switch by `/api/switch`, which the admin API does not have.
- `SendEvent`, `SetActiveConnections`, `IncrementConnections` and `ConnectionTracker` have
  no caller outside tests, so that no dashboard event is ever sent.

## What is not modelled

- *Admin API, UI handlers, `bgctl`*: stateless translation. `WebhookHandler`
  (webhook.go:109-186) does what the registered webhook does and has no caller.
- *Logging, systemd, templates*: output. *Configuration:* the YAML, environment variables,
  names, paths and keys.
- *Within the modelled parts:* the metrics exported to Prometheus, `activeConnections` of the
  collector, which nothing sets, rates and uptime; the percentiles of a bucket, which
  are taken as those of all latencies are; durations and times of switches; the
  bytes of requests, responses and events; deletion of a tag from the remote, and a tag that
  is moved back to a commit it had before, which counts as a new one here; `CheckNow`, which
  has no caller; the data race of `Reload` on fields of the configuration.

## Plan

Done, in this order: `DrainGate`, `Drainer` and its proofs, `Proxy` and its proofs,
`Switcher`, `GitWatcher`, `Deployment`, `SSEBroker`, `MetricsStore`, `Health`, `Lifecycle`
and its proofs; then `Collector`, `Config`, the clock and the percentiles of
`MetricsStore`, `RefreshTellsAll`, and the proofs of `Health`, `GitWatcher`, `Collector`
and `SSEBroker`; then the proofs of `Switcher`, `Deployment` and `MetricsStore`, of
`TellsOnlyNews`, of the store's part of `CountsAgree` and of `AggregateCounts`.

Next:

1. What the parts know of each other's liveness, as far as it can be stated without
   `ENABLED`: for each wait, that some step is possible as long as it lasts.
2. In the model, deletion of tags in `GitWatcher`, and tags that return to an earlier commit.
