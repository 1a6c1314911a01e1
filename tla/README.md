# tsbridge in TLA+

tsbridge puts HTTP services on a Tailscale network: for each service it runs a tsnet
node of its own, listens on it and proxies what arrives to a backend.  Services come
from a file or from the labels of Docker containers; with Docker they come and go while
tsbridge runs.

The modules here describe the part of the program where the order of events decides:
who holds which lock, which step follows which, what a failure in the middle leaves
behind, and what the goroutines do to each other.  TLC checks them on small instances;
the theorems of the eight proof modules hold for any number of services, configurations,
nodes, containers, label sets and requests, and any way to set up the secrets.

## The system

| Component | State | Operations | Talks to |
|---|---|---|---|
| `tailscale.Server` (`internal/tailscale/tailscale.go`) | `serviceServers`: service name to node, under `s.mu`; each node's life | `Listen`, `CloseService`, `Close` | called by the registry and by `App.performShutdown`; nodes are closed in goroutines of their own, under a timeout |
| `service.Registry` (`internal/service/service.go`) | `services` under `r.mu`; each service's listener, `http.Server`, handler | `StartServices`, `AddService`, `RemoveService`, `UpdateService`, `Shutdown`; `Service.Stop` | calls `tailscale.Server`; sets the gauge; runs a `Serve` goroutine per service |
| `app.App` (`internal/app`), run by `cmd/tsbridge/main.go` | `cfg`, `configWatcher`, once-guards | `Start`, `ReloadConfig`, `Shutdown` | three goroutines that call the registry; receives configurations from the provider |
| `docker.Provider` (`internal/docker/docker.go`) | `lastConfig` under `p.mu`, the debounce timer, the poll ticker, `configCh` | `Load`, `Watch`, the event loop, `immediateReload` | the Docker daemon; sends on `configCh` |
| configuration (`internal/config`) | a configuration value | load, resolve secrets, defaults, normalise, validate, compare | used by providers and by the reload |
| OAuth and node state (`internal/tailscale/oauth.go`, `state.go`) | files in the state directory | decide whether a key is needed, fetch one with retries | called inside `Listen` |
| request path (`internal/middleware`, `internal/proxy`, `internal/metrics`) | whois cache, per-request wrappers, counters | one request through the handler chain | built by `CreateHandler` |
| errors, constants, tsnet wrapper, funnel context | none | | |

What makes each correct, and what is hard about it:

- **nodes**: a node that is up can always be found again to be closed; two nodes of one
  service do not fight over a hostname and a state directory; a hanging `Close` holds
  nobody up.  Hard: waits outside the lock, a timeout that leaves a goroutine behind.
- **registry**: the map of services, the map of nodes, the `http.Server`s, the handlers
  and the gauge tell one story after every operation, whichever of its steps failed.
  Hard: partial failure, overwritten entries, a stop repeated.
- **application**: a failed operation of a reload hurts only its own service; a shutdown
  in the middle of anything ends, and leaves nothing running.  Hard: the starter, the
  watcher and the closer meet only at `r.mu`.
- **docker provider**: in the end the app runs what the containers call for; a stop is
  not lost; a cancelled watch ends.  Hard: three kinds of goroutine that load, compare,
  send and record, with one variable to compare with and an unbuffered channel.
- **request path**: the backend is told who the client is by nobody but the daemon and
  trusted peers; the status a client gets is the one meant, counted and logged; the body
  limit is exact; the gauges come down.  Hard: three response wrappers in a row, a cache
  filled by requests that overlap, ways out by error, takeover and panic.
- **credentials**: the first load's credentials last as long as the process, whole and
  unmixed, and no node finds another in the environment; a key is asked for when a node
  needs one and not otherwise, and only so often.  Hard: four kinds of sources for three
  secrets, an environment that is cleared, files that change, restarts that keep the state
  directory and nothing else, answers that are lost after a key was issued.
- **configuration**: what a container's labels say is what its service gets; what they do
  not say comes from the global settings, then from the defaults; a container whose labels
  cannot be used costs no other its service; two configurations that differ where a service
  would notice compare as different.  Hard: explicit zeros against absent values, three
  passes (parse, normalise, validate) that each may fill or refuse, a comparison by count
  and search.

## Modules

`TsServers.tla` is `tailscale.Server`.  An *instance* is one call of the server factory.
`servers` is the map, `node[i]` the life of instance `i`, `doomed` the servers `Close`
has taken out of the map and has not finished with.  `Listen` holds `s.mu` from
beginning to end and is one step when it succeeds (`ListenSucceeds`) or has no key
(`ListenNoAuth`).  When the node does not start, or gives no listener, Listen calls the
node's `Close` itself and has no timer for it: `ListenFails` begins that, `ListenFailed` is
the return of it, and between the two both `s.mu` and the caller's `r.mu` are held.
`CloseService` is `DetachNode`, under the lock, and later `WaitEnds`;
`Close` is `CloseAll`, then `CloseOneBegins` and `CloseOneEnds` for each server.
`NodeCloses` is the return of the node's own `Close`, whenever that is.

`ServiceRegistry.tla` is `service.Registry` over it.  Since every operation holds `r.mu`
from its first line to its return, one variable, `op`, is the operation inside the lock:
its kind, the service, the configuration, the instance it deals with and how far it has
got (`op.at`).  The steps follow the code:

    RemoveService   stop, close, wait, (delete)
    UpdateService   stop, close, wait, listen [, abandon], handler [, discard, giveup]
    AddService                         listen [, abandon], handler [, discard, giveup]
    StartServices   each, then listen [, abandon], handler ... per service
    Shutdown        each (one goroutine per service, under one context)

A step is as long as nothing of it can be seen from outside the lock; what can be seen
is a node's state, which `App.Shutdown` and the `Close` goroutines change without `r.mu`,
and an `http.Server`, which fails by itself (`ServeFails`).  Error returns are actions
(`NotStopped`, `NotAuthorized`, `NotListening` with `Abandoned`, `HandlerFails` with
`GaveUp`) or `Refuse`, the early
return that touches nothing.  `http[i]` tells a server that accepts requests ("serving")
from one whose `Shutdown` timed out ("draining": nothing is accepted, its handler is
open, the registry keeps it), one whose `Serve` failed ("dead") and one stopped with its
handler closed.  `released` and `panicked` are about the handler's `Close`, which closes
a channel when metrics are on, and panics the second time.

`OrderlyRegistry.tla` is the registry as its API means it to be used: `StartServices`,
then changes in any order, then `Shutdown`, then `Server.Close`.  It is the module the
theorems are about.

`ServiceSet.tla` is what the registry promises, and knows nothing of nodes, servers or
locks: the configuration the registry was made with, for each name the one it is registered
with, the services nobody has stopped, the call in progress and what the last one returned.
A call changes the entry of its own service only; what fails to be added leaves nothing
behind; what fails to be updated is stopped and perhaps lost, never half changed; "ok",
"partial" and "error" mean of a start what its comments say; between calls nothing changes.
The mapping is at the end of `ServiceRegistry.tla` (`Promised`): wanted <- `config`,
entry <- the configuration of the instance `services` points to (`Entry`), running <- the
entries whose `http.Server` has not been stopped (`Unstopped`; one that died by itself has not),
call <- `op` without its steps (`Call`), result <- `ret`.  `OrderlyRegistry` implements it
(`KeepsItsPromise`).  `App` implements it as long as no configuration has overtaken the start
(`PromiseUnlessOvertaken`): once one has, the steps of `StartServices`, which then
finds a registry that is not empty, are the only ones that may differ from the promise.

`Configuration.tla` is the way from a container's labels to a service's configuration and
back to the question whether it has changed: `parseServiceConfig` with the label parsers,
`SetDefaults`, `Normalize`, `Validate`, `ServiceConfigEqual` and `configEqual`, as operators.
Labels and settings are functions from names to values; `None` is a setting that is nil or
empty in the code, `Garbled` a label its parser or `Validate` refuses.  The sets of names
(`Inherited`, `OwnOnly`, `GlobalSettings`) say which settings are treated alike.  `Promise` is what the docs say a
setting comes from: the container's own label, else the global one, else the default.
`DockerProvider` extends the module.

`App.tla` is the program: the starter (`Start`), the watcher (`watchConfigChanges` and
`ReloadConfig`, whose calls of the registry are `ReloadCalls` and `ReloadRefused`, in the
order removals, additions, updates) and the closer (`performShutdown`), interleaved,
with a signal at any time.  `configWatcher` is written by the starter and read by the
closer without a lock; a closer that comes while it is being set may or may not see it.
The provider is reduced to any source of configurations.

`DockerProvider.tla` is the provider with the daemon and the receiving end: `world` is
which containers run with which setup (`Setups`: a label set and the ports published, through
`Configuration`), `ghost` what a container list may still show of
one that has stopped, `events` what the loop has not read, `lastConfig` the variable every
comparison is made with, `loop` and `reloader` what each goroutine holds, `app` whether
somebody is at the receive.  `Load` is one step because it holds `p.mu`; the reading of
`lastConfig` before it, the send after it and the writing of `lastConfig` after that are
steps of their own, as in the code.  The app calls `ReloadConfig` between two receives, so
that it is away (`app = "applying"`) after every delivery and a reloader that wants to send
meanwhile takes its select's default.  `lapsed` is no variable of the code but a history of
it: that something the app should have heard was given up or may have been crossed (`GivenUp`,
`Overlap`, `TakenOut`) and nothing has been delivered since by one goroutine alone.  What a setup is worth (`Service`), whether it can be used at all (`Usable`)
and which configurations compare as equal (`Equal`) are constants worked out once from
`Configuration`.  A select with several cases ready takes any; a send
on the closed channel is `ReloadPanics`.

`RequestPath.tla` is one service's handler and its requests.  `req[s]` is the request in
slot `s`: how far it has got (`at`), what the backend is told of the client (`id`, `chain`,
`real`), and the status as each wrapper has it: `meant` by whoever answers, recorded by the
metrics wrapper (`code`) and the access log's (`log`), and `sent` to the client.
`WriteHeader` goes through the wrappers in the order of the chain.  `svc` is the service's
settings, fixed at the start, so one run covers several chains.  The whois cache is a sequence of
answers, most recently used first, the last of which is evicted.  `CacheHits` ...
`Stores` are the whois middleware, with the daemon's answer and `cache.Add` as two steps;
`Refuse` the body limit; `Forwards` ... `Fails` the proxy and the backend; `Returns` and
`Breaks` the two ways back through the chain; `Tick`, `CollectorEnds`, `StopBegins` and
`CloseHandler` the handler's life.  net/http, ReverseProxy and the cache library are
modelled from what the code relies on.  Headers the operator adds or removes, request
ids, and the transport's timeouts (each a failure at some moment) are left out, and 502
stands for 504.

`Credentials.tla` is the way from an operator's secrets to a node that is logged in.  A
value is named by its source, since nothing else of it matters.  `Boot` is `run` up to
`NewApp`: the first `Load`, its validation and `NewServer`; `Reload` is any later `Load` of
the docker provider, which starts from `cachedTailscale` (`Configured`); `Die` ends the
process anywhere, and the next `Boot` has the operator's environment and the state
directory (`disk`) but nothing else.  `Listen` is `Call`, `Prepare` (the lock and
`prepareServiceAuth`), `Attempt` for each request to the API, `Start`, `Login`, and `Closed`
where one of the last two failed and Listen waits for the node's `Close` with `s.mu` held.  That tsnet
writes its state file when it starts and not when it has logged in is modelled from tsnet;
the listener made after the login, and the life of a node, are in `TsServers`.  A container
without tags, which validation refuses under OAuth, may come and go (`Deploy`).  The file
provider is the case without `Reload`.  `state_dir_env` is left out.

`MCRegistry.tla`, `MCApp.tla`, `MCDocker.tla`, `MCRequest.tla` and `MCCredentials.tla` are
what TLC is run on.  The theorems are in `RegistryProofs.tla`, `AppProofs.tla`,
`AppPromiseProofs.tla`, `CredentialsProofs.tla`, `ConfigurationProofs.tla`,
`DockerProofs.tla` and `RequestProofs.tla`; `PromiseProofs.tla` has the lemmas that
the two refinement proofs share.

Abstractions: a configuration of a service is a model value, of which some are refused
by `validateServiceConfig` (`Rejected`) and some make `CreateHandler` fail
(`Unbuildable`; the `Rejected` values are among them in the instances because an addition
is not validated and fails there); in `App` and the registry a configuration has no
inside (that is `Configuration`'s); texts of labels are values, absent, or garbled; the handler chain is
built or not; durations are left out, a timeout may or may not happen.

## Runs

All passing runs but `MCCredentials` have `CHECK_DEADLOCK FALSE`: a program that has shut down, or panicked,
does nothing more, and every bound ends a behaviour.

| Run | Question |
|---|---|
| `MCRegistry` | Two services, three configurations (good, unbuildable, refused), three nodes: start, then any calls in any order, each with every failure.  Nothing is orphaned, no node leaks, both maps agree, a service's node outlives its service, no handler is closed twice, the gauge counts; the registry keeps the promise of `ServiceSet` (so a refused update, for one, stops nothing); every call returns and the shutdown gives up every node.  The exception to "every call returns" is a node that hangs in the `Close` its failed `Listen` calls. |
| `MCApp` | Two services, three configurations to move between: one service updated beside one that stays, one added or removed beside one that stays, and both changed; two reloads and a signal, in every interleaving with the start.  What failed stays local; no reload touches a service it does not change; nothing becomes unreachable unless a configuration overtook the start. |
| `MCAppLive` | One reload and a signal, two services, four nodes.  A signal ends the process, a reload ends, both unless the node of a `Listen` that failed hangs in its `Close`; the registry keeps its promise under all three of its callers unless a configuration overtook the start. |
| `MCAppMatch` | *violated*: a reload that returned nil matches its configuration. |
| `MCAppPanic` | *violated*: no handler is closed twice when a reload meets a shutdown. |
| `MCRequest` | Two requests of four kinds (a claimed identity and an upgrade; an upload of just the limit through a trusted proxy, expecting 100; one too long and saying so; one too long through Funnel that does not say so), three settings, one address changing hands, a stop.  Identity and addresses are vouched for, statuses agree, the limit is exact, the counters count, lookups end, the gauge settles. |
| `MCRequestStatus` | *violated*: the status counted is the status sent. |
| `MCCredentials` | Ways to set up an auth key and an OAuth client, good and bad, and mixtures; secret files replaced and removed; later loads, an untagged container, restarts; two services, one ephemeral.  The environment is clear, loads agree, credentials are whole, keys go to the nodes that need one and are few, every `Listen` returns unless the node of one that failed hangs in its `Close`. |
| `MCDockerPoll` | Two containers, six setups (plain, tagged, the same tags in another order, two published ports, a name both may claim, a label `Validate` refuses), two changes, two failures, a container list that lags, polling only, an app that is away while it applies: every usable label is honoured in what is handed over, and the app converges unless the last thing for it was dropped. |
| `MCDockerWatch` | One container, usable or not; event loop, ticker and timer, an app that is away while it applies, a broken stream, a cancellation: `lastConfig` is in step with the app but for a send that was given up or crossed by another reload, a stop found is a stop delivered, and the watch ends. |
| `MCDockerEvents` | *violated*: convergence when nothing fails.  Dropped sends, overlapping reloads and events read late are all among its behaviours. |
| `MCDockerClosed` | *violated*: nobody sends on the closed channel. |

### Bounds

`MaxInst` is the number of nodes a behaviour makes.  Three nodes and two services let one
service be updated while another starts, fails and is removed, which is as much as any
invariant relates (two instances of one service), and the theorems hold for any number; `App` needs five, for its start
(two) and two reloads (at most three: one configuration drops the service the next one brings back),
six in `MCAppMatch`).  `MaxReloads` 2: a reload, and a second one that works from what the first
one left in `a.cfg`.  `MaxChanges` 2, with `MaxFaults` 2 for the polling provider and 1 with events: a
container started and stopped again, or the other way round, which is what makes a send late or
a comparison stale; a load that fails on each side of a change.  The list
shows a stopped container for a while (`Lag`) only when polling; with events the same
staleness comes from the event read late.  One
`Timers` goroutine beside the poller gives three writers of `lastConfig`.
In `MCRequest` two requests, one of which may still be looked up when the other's answer is
cached, and a cache of one entry bring every pair of steps together; three attempts are the
code's own number.  `MCCredentials` starts from some thirty setups: each way to give one secret, and the
combinations that contradict or complete each other; two services are enough for one to
wait for the other, and three attempts are again the code's number.  Nothing else in it
needs a bound.  A backend sends an informational response once, and only to a client
that expects one.

### Fairness

The registry's steps are weakly fair: `Up` has a startup timeout, `http.Server.Shutdown` a
context with a deadline, closing a node a timer, so whoever holds `r.mu` goes on.
`NodeCloses` is *not* fair: tsnet may hang.  `AllNodesGivenUp` says that the timeouts are
enough for `Close`.  They are not enough for the rest, because one wait has none: `CallsReturn`,
`ShutdownEnds`, `ReloadEnds` and `ListenEnds` hold of every hanging node but that of a `Listen`
that failed, and say so (`\/ []Hung`).  A node that hangs in any other close delays them by its
timeout and no more.  Nothing is assumed of
signals, providers, containers or failures.  Goroutines waiting for `r.mu` get it by weak
fairness since only finitely many reloads come; Go's mutexes, which hand over to a waiter
after a millisecond, promise more.  In the provider the ticker, the timer, the app's
reload (`ReloadEnds`) and the daemon's list come round in the end.  In `RequestPath` an
attempt ends (it has a timeout) and the collector's ticker ticks; backends and clients
owe nothing.  In `Credentials` a request for a key and `Up` end (both have timeouts), and
whoever waits for `s.mu` gets it even if services are started again and again (strong
fairness: Go's mutexes let no waiter starve).
`MCAppLive` runs without a metrics collector: with one, the panic of `MCAppPanic` ends
the process in another way than the one the property speaks of.

## What the violated runs show

- **A shutdown does not wait** for a start or a reload in progress (`app.go:213`).  The
  reload's next operation comes after `registry.Shutdown` and finds services that are
  stopped but still registered: a removal or an update stops one again, which closes its
  handler a second time and panics if metrics are on.  For the same reason an addition, or
  the rest of the start, may bring up a service after the shutdown that nobody stops.
- **A failed operation is never retried.**  `ReloadConfig` makes the new configuration
  `a.cfg` whatever failed, and the next reload compares with `a.cfg` and not with the
  registry; it returns nil over a registry that does not match.  The same happens when a
  configuration is received before `StartServices` has run.
- **`lastConfig` is what was loaded, not what was received.**  `Load` overwrites it, so a
  configuration dropped because the app was busy is never sent again, by no later poll
  (TLC's counterexample for `MCDockerEvents`: a poll hands over a new container, which stops
  while the app starts its service; the next poll drops what it finds).  Reloads that overlap,
  and die and stop events handled after a restart, have the same effect without anything being
  dropped.  `InStep` says that these are the only ways, and that the next delivery made by one
  goroutine alone repairs it.
- **A reload in flight when the watch ends** may choose the send on the closed channel,
  which panics instead of falling to the select's default as the comment expects.
- **The metrics wrapper drops a status.**  It takes the first `WriteHeader` for the only
  one; after the 100 of an upload the backend's final status is lost, the client gets an
  implicit 200, and 100 is counted and logged.

Met on the way, without a run of their own.

**One close has no timeout.**  When a node does not start, or gives no listener, `Listen` calls its
`Close` at `tailscale.go:112` or `:123` directly, where every other close goes through
`closeServerWithTimeout` ("prevent hanging", `:372`).  `s.mu` is held, and `r.mu` above it.  If
that `Close` hangs, the start or reload never ends, no other service can start, and `Shutdown`
waits for `r.mu`.  Without the disjunct `[]Hung` TLC finds this as a counterexample to each of
`CallsReturn`, `ShutdownEnds`, `ReloadEnds` and `ListenEnds`; with it, they say that it is the
only one.

**What a body limit means** is said differently in different places.  The comments at
`bodylimit.go:38` and `:64` expect a 413 for a body that turns out too long, which is never sent: the
client gets the proxy's 502.  A limit of 0 is "a valid explicit limit" at `service.go:394`, and
`bodylimit.go:12` and `service.go:391` say that only a negative limit is none; `CreateHandler` applies
no limit at 0 either.  The model does what the code does; the properties take no side: `StatusFaithful`
leaves the status of such a body open, and `LimitIsExact` a limit of 0.

And: an upgraded connection is counted and logged as
200 (`Hijack` goes past the wrappers); the metrics middleware recovers `ErrAbortHandler`, so
a response of unknown length that breaks off looks complete to the client.
A node whose first start failed after tsnet had written its state file has "existing state"
for `hasExistingState` ("files that indicate an initialized node", `state.go:51`), is given
no key on any later start, and can only run into its startup timeout (in `Credentials`,
`disk = "file"` with `~keyed`).  `oauth.go:104` retries "only" network errors and 5xx, but
every status the API answers with is wrapped as a network error, so a 403 is asked for three
times too.  The global section is read again by every load but `configEqual` does not look at it
(`docker.go:765` says that it does not change), so a changed global label takes effect only
through the services it changes.  A port published over IPv4 and IPv6 is listed twice and
counts as two (`labels.go:213`), for which the error "multiple ports" names one port twice.
Sizes with the suffixes K, M, G and T are accepted from labels and not from TOML
(`containsByteSizeUnit`, `config.go:303`).  The docs give a `whois_timeout` of "global or 1s"
and a `shutdown_timeout` of 15s (`configuration-reference.md:253`, `:145`) where the code has
5s and 30s; the comment at `config.go:77` has whois on by default, code and docs have it off.
A backend connection taken over by an upgrade keeps one of 50 places (`constants.go:105`)
for as long as it lasts, and further requests wait for a place without a timeout of their own.
A container without a tag, under OAuth, makes `Load` fail for all containers,
where one with labels that cannot be parsed is skipped (`docker.go:209`).

## Proofs

`RegistryProofs.tla` proves the eight invariants `MCRegistry` checks, and two more safety
properties of `OrderlyRegistry`, for every set of names, every configuration set and every `MaxInst`, from
`TsAssumption` and `RegistryAssumption` (the names are a finite set without `None`, the
configurations do not hold `None`, `MaxInst` is a natural number).

None of them is inductive alone.  `NoOrphan`, say, survives an update only
because the new instance is fresh, and because the old one has been stopped by the time
it is overwritten.  The invariant `IInv` is a conjunction of named parts:

- `OpShape`, `PhaseShape`: which steps each operation takes and what it has in hand at
  each, which operations belong to which phase;
- `Fresh`, `Entries`: an instance not made yet has nothing; what the two maps point to
  belongs to that name;
- `Agreement`, `NoneInMap`: the maps are equal but for the service in hand, and its old
  node is out of the map before a new one is made;
- `ClosedOnce`, `StoppedEntries`: a handler is closed exactly when its server is stopped,
  and an entry that is stopped is the one an operation has in hand or one `Shutdown` has
  dealt with: this is what keeps `Stop` from running twice on one service;
- `Overwritten`, `ShutDown`, `Closers`: what `startService` overwrites, what `Shutdown` has
  done so far, who waits for a node that is closing;
- `Counted`: the gauge is right at every step of every operation but `StartServices`.

`InitIInv` and `StepIInv` show it inductive, with one lemma per action and one step per
conjunct the action can disturb; each theorem follows from `IInv` at once, and the action
property `OnlyWhenAsked` from `IInv` and the step.  `CloseMissesNothing` is the safety half
of `AllNodesGivenUp`: once `Close` has taken up the last node of its list, none is left up.  `Counted` needs only that the
number of entries is a number (`CountIsNat`): every path recounts, none increments.
TLC finds `IInv` to hold on the instance of `MCRegistry`.

`CredentialsProofs.tla` proves the six invariants of `MCCredentials` for any services, any
set of setups and any number of retries, from `CredentialsAssumption` (`None` is no value,
`RetryMaxAttempts` a natural number).  First come facts about one load: what
`ResolveSecretWithFallback` returns (`Resolves`), what a load that succeeds has cleared and
found (`LoadEnds`), and that a load in a process with a cache finds what is cached
(`LoadsAgain`).  The last needs `Kept`: what the first load did not find is not in the
environment either, for a cached nothing is looked up anew.  `OneAtATime` and `Charged`,
that one Listen has the lock and what it has been charged with, carry the bound on keys.
`ListensAdvance` is the safety half of `ListenEnds`: every step of a Listen brings it nearer to
its end, and none is taken twice; and of its exception: while a failed Listen waits for its
node's `Close`, nobody who waits for `s.mu` gets it (`CloseKeepsTheLock`).

`RegistryProofs.tla` ends with `ThePromiseIsKept`: every step of `OrderlyRegistry` is, under
the mapping, a step of `ServiceSet` or changes nothing it knows of.  The lemmas, one per action,
with the step of `ServiceSet` it maps to, are in `PromiseProofs.tla` and speak of the
registry alone: they ask for `Shape`, the little that is needed of either module's invariant, and keep
`PInv` and `Tally` (what was started was started with a configuration, `Given`; `todo` is what a
start has not come to).

`AppProofs.tla` proves the four safety properties of `MCApp` for any services,
configurations, number of nodes and of reloads, from `AppAssumption` (a provider sends
configurations of those services) and the registry's assumptions.  `OrderlyRegistry`'s
invariant does not hold here: the watcher may take `r.mu` before the starter does, and
the closer takes nodes out of the map without it.  `IInv` is in two halves.  What `r.mu` protects holds whoever comes
first: `Entries` and `InHand` (what the maps and the operation point to is made and belongs
to that name), `Ahead` (a node in the map is its service's or is being made for it),
`Callers` (which goroutine an operation works for and with which configuration) and
`Plans` (what a reload has still to do is a difference between `pending` and `a.cfg`).
These carry `OthersAreLeftAlone`, with or without overtaking.  `InOrder` is the other
half, and holds until a configuration overtakes the start: `StartServices` finds nothing
of what it has still to start (`Untouched`), and a service for which nothing has failed
runs what `a.cfg` says or, once a reload has dealt with it, what `pending` says
(`AsConfigured`).  `FailuresStayHome` and `NothingOutOfReach` are read off it.  There is one
lemma per action; `Reported` is what every step under the lock shares, `NodesOnly` what
every step that touches only nodes does.  TLC finds `IInv` to hold on the instance of `MCApp`.

`AppPromiseProofs.tla` builds on that invariant.

- `TheAppKeepsThePromise` is the refinement once more, for callers that come in any order.  Of
  the two halves of `IInv` the first is enough for every call but `StartServices`; a start
  needs the empty registry that `InOrder` speaks of, hence the exception for it in
  `PromiseUnlessOvertaken`.
- `PanicNeedsAShutdown` draws the line around the finding of `MCAppPanic`: the handler closed
  twice is that of a service a reload stops after `Shutdown` has stopped it and `App.Shutdown`
  has gone on.  Its invariant says which handlers may be closed while their entries are still there.
- `OneWaiterForEachNode`: though `Close` runs while a reload holds `r.mu`, no two goroutines wait for one node.
- `OnlyAHungListenKeepsTheLock`: `StepsLeft`, the number of steps the holder of `r.mu` has before
  it, goes down with each of its steps and is raised by nobody else, and at zero the holder
  returns; and whatever node it waits for, the node's `Close` has returned or the wait has a timer
  that can go off, but for the one wait of a failed `Listen` (`Hung`), which nothing but that `Close`
  ends.  With the fairness above, this is why `ReloadEnds` and `ShutdownEnds` hold, and why they
  have the exception they have.

`ConfigurationProofs.tla` proves `LabelsAreKept` for every label set and every global
section: a service `Validate` accepts has in each setting what the labels promise.  The
argument goes through the pipeline once (`Pipeline`: which of own, default and global value
is left, for each group of settings) and finds the first source that is set (`FirstSet`).  It
assumes that the label `ephemeral`, a truth value, is one or is garbled.  `EqualBothWays` says
that `configEqual`, which looks up each of the left side's services and compares the counts, is
symmetric between configurations whose names are unique, which `Validate` sees to, and that
comparing sorted tags compares bags.  `PairedOff` and `SameBagSameTags` say that lists with equal bags
have the same members.

`DockerProofs.tla` proves `ProviderTyped` and `EveryLabelHonoured`: whatever the goroutines
hold, send or keep is a configuration that keeps what the labels promise (`TruthfulAll`).
`ConfigEqualIsExact` is about the comparison all the rest hangs on: among configurations that keep
what the labels promise, `configEqual` tells apart exactly those that differ in something a node or a
proxy would notice, for all labels.  `OnlyNews` takes it through the goroutines: nobody
sends a configuration equal to what he compared it with.  `StopsAreNotDropped` is the
safety half of `StopDelivered`, and `PanicsAtTheEnd` draws the line around the finding of
`MCDockerClosed`: a cancelled watch, an ended loop and a reload that had its configuration ready.
`InStepUnlessLapsed` is about what all three compare with.  Nothing is assumed of events, of how
long the app is away or of how many reload at once; `lapsed` remembers when one of the things
happened that put `lastConfig` out of step.  Its invariant (`StepInv`) holds while nothing has
lapsed: what a reload under way started from is what the app has (`Agrees`), and with nothing on
its way to the app so is `lastConfig` (`Settled`).  The proof rests on both halves of `configEqual`'s
meaning, and on a delivery by one goroutine alone making all of it true again.
`ReloadsDoNotDisturb` follows with `OnlyNews`: unless something has lapsed, no reloader hands the
app the services it has (`NoIdleDelivery`); a reload that was overtaken may.  All of them hold
for any containers, setups, labels and bounds, from `DockerAssumption` (tags are a list, as
the code's `[]string` is; `None` is neither a setup nor a container).

`RequestProofs.tla` proves the seven invariants of `MCRequest` for any clients, requests,
settings, number of slots and cache size, from `RequestAssumption` (the forms of requests and
settings; a forged identity is not a user's; a slot set that is finite).  `IInv` has for each request
`IdentityInv`, `ChainInv` and `StatusInv`, what is known of it at each step of the chain; `CacheInv`, that
a cached answer was once true of its address; `CountInv`, which counts the requests under way so that
arrivals, totals and log lines can be compared; `NetInv` and `LifeInv`.  `CountOne` is the
lemma under the counters: a set of slots that changes by one slot changes its size by one.
`Written` and its neighbours say what one `WriteHeader` leaves in each wrapper, with and
without an informational response before it.  `RequestsAdvance` is to `WhoisEnds` what
`ListensAdvance` is to `ListenEnds`: each step of a request lowers `StepsLeft`, so no lookup has
more than its attempts and no handler of the chain runs twice.  `OnlyTunnelsAreLeft` says what
`Stop` leaves behind: only connections that were taken over, which `Shutdown` does not wait for.

Model-checked only: the liveness properties (`CallsReturn`, `AllNodesGivenUp`, `ShutdownEnds`,
`ReloadEnds`, `WhoisEnds`, `GaugeSettles`, `ListenEnds`, `StopDelivered`, `WatchEnds`,
`ConvergesUnlessLapsed`),
which are out of the prover's reach.  For most of them the safety half is proved, the rank that
goes down or the thing that is not lost, and what is left is that the step is taken: that is fairness.  For
`WatchEnds` and `GaugeSettles` nothing like it is proved, and for `ConvergesUnlessLapsed` only that
`lastConfig` is in step.
Of the definitions named in the theorems a few are in no run (`PanicOnlyAfterShutdown`,
`NobodyWaitsInVain`, `EachStepIsNearer`, `SpentIsDone`, `WaitsMayEnd`, `HungKeepsTheLock`,
`CloseKeepsTheLock`, `NoIdleDelivery`, `StopsOnlyWhenAsked`, `NothingLeftUp`,
`OnlyNewsIsSent`, `StopIsNotDropped`, `ListenAdvances`, `RequestAdvances`, `OnlyTunnelsOutlive` and so on):
TLC agreed with each on the instance of its module before it was proved.

## Not modelled

The file provider (TOML, the environment overlay, byte sizes as text) and redaction decode
or print a value once and keep nothing.  How the provider finds its own container, and that
a container's address is its name on the network, are taken as given.  The metrics server,
the choice of the listener by TLS mode and Funnel, the transport's settings, request ids,
configured header changes, the whois adapter, the tsnet wrapper, the funnel context, logging
and flags have no state worth a model.  `primeCertificate` changes nothing in tsbridge.

## Plan

Done are the registry, the application, the provider with its labels, the request path and
the credentials, the abstract specification of the registry, and their proofs.  What is left:

1. `Bridge.tla`: `App` with `DockerProvider` as its provider, so that what is applied is
   what the registry runs, at the grain of one reload per step.
2. The metrics server, should it come to do more than start and stop.
