---------------------------- MODULE DockerProvider ----------------------------
(***************************************************************************)
(* docker.Provider (internal/docker/docker.go): the goroutines that turn     *)
(* what the Docker daemon says into configurations for the app.              *)
(*   the event loop   watchLoop: stop and die events are loaded, compared    *)
(*                    and sent at once; any other event arms a timer;        *)
(*   the reloaders    immediateReload, run by the poll ticker and by the     *)
(*                    debounce timer, each in a goroutine of its own;        *)
(*   the app          the receiving end of configCh, which takes no other    *)
(*                    configuration while it applies one.                    *)
(* They share p.lastConfig, read and written under p.mu but for one read or  *)
(* write at a time, and configCh, which has no buffer and which the event    *)
(* loop closes when it ends.                                                *)
(*                                                                         *)
(* A configuration is kept as what its services were made from: the setup    *)
(* each container ran with, or None where the container has no service in it. *)
(* Configuration says what service a setup makes.                            *)
(***************************************************************************)
EXTENDS Configuration

CONSTANTS
    Containers, \* the containers with tsbridge.enabled=true or tsbridge.enable=true
    Setups,     \* the ways a container may be started
    Labels,     \* setup -> the service labels
    Ports,      \* setup -> the ports as the daemon lists them
    Self,       \* the container tsbridge runs in: its labels, and whether it uses OAuth
    Timers,     \* bound: goroutines of the debounce timer that may overlap
    Polling,    \* whether the poll interval is not 0
    Events,     \* whether the daemon can be asked for events
    Lag,        \* whether a list may still show a container that has stopped
    MaxChanges, \* bound: containers started, stopped, paused
    MaxFaults,  \* bound: failed loads and broken event streams
    Stoppable   \* whether the watch context may be cancelled

Poller == "poller"
Reloaders == Timers \cup {Poller}

ASSUME DockerAssumption ==
    /\ None \notin Setups
    /\ None \notin Containers
    /\ IsFiniteSet(Containers)
    /\ \A s \in Setups :
          /\ Has(Labels[s], "ephemeral") => Labels[s]["ephemeral"] \in BOOLEAN \cup {Garbled}
          /\ Has(Labels[s], "tags") => Labels[s]["tags"] \in Seq(Members(Labels[s]["tags"]))
    /\ Has(Self.labels, "default_tags") =>
          Self.labels["default_tags"] \in Seq(Members(Self.labels["default_tags"]))
    /\ Poller \notin Timers
    /\ {Polling, Events, Lag, Stoppable} \subseteq BOOLEAN
    /\ MaxChanges \in Nat /\ MaxFaults \in Nat

Configs == [Containers -> Setups \cup {None}]
EventSet == [kind : {"gone", "other"}, who : Containers]

VARIABLES
    world,      \* what runs, and with which labels
    ghost,      \* the labels under which a list may still show a stopped container
    changes,    \* how many times the world has changed
    faults,     \* how many calls of the daemon have failed
    stream,     \* the event stream is open
    events,     \* events the loop has not read yet
    lastConfig, \* p.lastConfig
    loop,       \* what the event loop does: [at, old, new, who]
    armed,      \* the debounce timer is running
    reloader,   \* what each reloader does: [at, old, new]
    app,        \* the receiver: "waiting", "applying", "gone"
    incoming,   \* the configuration being applied
    applied,    \* the configuration the app runs
    cancelled,  \* the watch context
    closed,     \* configCh
    panicked,   \* a goroutine has sent on the closed channel
    lapsed      \* history: the app was not told something since the last delivery

\* What a list shows of a container.
Summary(c, s) == [name |-> c, ports |-> Ports[s], labels |-> Labels[s]]

Started == {<<c, s>> : c \in Containers, s \in Setups}

\* The service each setup makes of each container.
Service == [cs \in Started |-> Processed(Self, Summary(cs[1], cs[2]))]

\* The containers parseServiceConfig has no error for.
Usable == {cs \in Started : Parses(Summary(cs[1], cs[2]))}

\* The lists Load makes a configuration of.
Acceptable ==
    {shown \in {cfg : cfg \in Configs} :
        Accepted(Self, [c \in {d \in Containers : shown[d] # None} |-> Summary(c, shown[c])])}

ServicesOf(cfg) == {Service[<<c, cfg[c]>>] : c \in {d \in Containers : cfg[d] # None}}

\* The configurations configEqual finds equal.
Pairs == {<<a, b>> : a \in Configs, b \in Configs}
Equal == {ab \in Pairs : configEqual(ServicesOf(ab[1]), ServicesOf(ab[2]))}

env == <<world, ghost, changes>>
provider == <<lastConfig, loop, armed, reloader, stream, events>>
receiver == <<app, incoming, applied>>
ctx == <<cancelled, closed, panicked>>
vars == <<env, faults, provider, receiver, ctx, lapsed>>

Nobody == [c \in Containers |-> None]
Resting(at) == [at |-> at, old |-> Nobody, new |-> Nobody]

TypeOK ==
    /\ world \in Configs
    /\ ghost \in Configs
    /\ changes \in 0 .. MaxChanges
    /\ faults \in 0 .. MaxFaults
    /\ stream \in BOOLEAN
    /\ events \in Seq(EventSet)
    /\ lastConfig \in Configs
    /\ loop \in [at : {"connect", "reading", "load", "send", "record", "gone"},
                 old : Configs, new : Configs, who : Containers \cup {None}]
    /\ armed \in BOOLEAN
    /\ reloader \in [Reloaders -> [at : {"idle", "load", "send", "record"},
                                   old : Configs, new : Configs]]
    /\ app \in {"waiting", "applying", "gone"}
    /\ incoming \in Configs
    /\ applied \in Configs
    /\ {cancelled, closed, panicked, lapsed} \subseteq BOOLEAN

LoopAt(at) == [at |-> at, old |-> Nobody, new |-> Nobody, who |-> None]

\* The configuration Load makes of a list: a container that cannot be used is left out.
Loaded(shown) ==
    [c \in Containers |-> IF <<c, shown[c]>> \in Usable THEN shown[c] ELSE None]

\* NewAppWithOptions has loaded a configuration; Watch has just been called, and the
\* world may have moved on since.
Init ==
    /\ world \in Acceptable
    /\ ghost = Nobody
    /\ changes = 0
    /\ faults = 0
    /\ stream = FALSE
    /\ events = <<>>
    /\ lastConfig = Loaded(world)
    /\ loop = LoopAt("connect")
    /\ armed = FALSE
    /\ reloader = [r \in Reloaders |-> Resting("idle")]
    /\ app = "waiting"
    /\ incoming = Loaded(world)
    /\ applied = Loaded(world)
    /\ cancelled = FALSE
    /\ closed = FALSE
    /\ panicked = FALSE
    /\ lapsed = FALSE

-----------------------------------------------------------------------------
(* The Docker daemon *)

\* Events reach the loop in order, and only while the stream is open: there is no
\* "since" in the request.
Emit(es) == events' = IF stream THEN events \o es ELSE events

Changing ==
    /\ changes < MaxChanges
    /\ changes' = changes + 1
    /\ UNCHANGED <<faults, lastConfig, loop, armed, reloader, stream, receiver, ctx>>

ContainerStarts(c, s) ==
    /\ Changing
    /\ world[c] = None
    /\ world' = [world EXCEPT ![c] = s]
    /\ ghost' = [ghost EXCEPT ![c] = None]
    /\ Emit(<<[kind |-> "other", who |-> c]>>)

\* The die event, and the stop event unless the container has ended by itself.
ContainerStops(c) ==
    /\ Changing
    /\ world[c] # None
    /\ world' = [world EXCEPT ![c] = None]
    /\ ghost' \in {ghost} \cup (IF Lag THEN {[ghost EXCEPT ![c] = world[c]]} ELSE {})
    /\ LET gone == [kind |-> "gone", who |-> c]
       IN Emit(<<gone>>) \/ Emit(<<gone, gone>>)

\* A paused container is not listed under status=running.
ContainerPauses(c) ==
    /\ Changing
    /\ world[c] # None
    /\ world' = [world EXCEPT ![c] = None]
    /\ Emit(<<[kind |-> "other", who |-> c]>>)
    /\ UNCHANGED ghost

ListSettles(c) ==
    /\ ghost[c] # None
    /\ ghost' = [ghost EXCEPT ![c] = None]
    /\ UNCHANGED <<world, changes, faults, provider, receiver, ctx>>

Fault == faults < MaxFaults /\ faults' = faults + 1

-----------------------------------------------------------------------------
(* Load *)

\* What the daemon may list now: the running containers, and those a list still shows.
Lists ==
    {[c \in Containers |-> IF c \in late THEN ghost[c] ELSE world[c]] :
        late \in SUBSET {c \in Containers : ghost[c] # None}}

\* Load itself stores its result in p.lastConfig.  A call under a cancelled context fails.
Load(shown) ==
    /\ ~cancelled
    /\ shown \in Acceptable
    /\ lastConfig' = Loaded(shown)
    /\ UNCHANGED faults

LoadFails ==
    /\ \/ cancelled /\ UNCHANGED faults
       \/ Fault
    /\ UNCHANGED lastConfig

\* Validate has refused what the list shows: nothing is stored.
LoadRefuses ==
    /\ ~cancelled
    /\ Lists \ Acceptable # {}
    /\ UNCHANGED <<lastConfig, faults>>

\* The services whose backend is host:port with that host, whatever container they are of.
Behind ==
    {csn \in {<<c, s, name>> : c \in Containers, s \in Setups, name \in Containers} :
        LET addr == Service[<<csn[1], csn[2]>>].backend_addr
        IN <<csn[1], csn[2]>> \in Usable /\ addr.scheme = "tcp" /\ addr.host = csn[3]}

removeServiceByContainerName_DropsKey(cfg, name) ==
    [c \in {d \in Containers : <<d, cfg[d], name>> \notin Behind} |-> cfg[c]]

removeServiceByContainerName(cfg, name) ==
    [c \in Containers |-> IF <<c, cfg[c], name>> \in Behind THEN None ELSE cfg[c]]

-----------------------------------------------------------------------------
(* configCh: no buffer, so a send succeeds when the app is at its receive.  The app  *)
(* calls ReloadConfig itself, and is away from its receive until that has returned.   *)

Deliver(cfg) ==
    /\ app = "waiting"
    /\ ~closed
    /\ incoming' = cfg
    /\ app' = "applying"
    /\ UNCHANGED applied

\* watchConfigChanges has come back from ReloadConfig.
AppApplies ==
    /\ app = "applying"
    /\ applied' = incoming
    /\ app' = "waiting"
    /\ UNCHANGED <<env, faults, provider, incoming, ctx>>

AppLeaves ==
    /\ app = "waiting"
    /\ cancelled
    /\ app' = "gone"
    /\ UNCHANGED <<env, faults, provider, incoming, applied, ctx>>

-----------------------------------------------------------------------------
(* The event loop *)

\* processEventStream begins: what happened before is not told.
StreamOpens ==
    /\ loop.at = "connect"
    /\ Events /\ ~cancelled
    /\ loop' = LoopAt("reading")
    /\ stream' = TRUE
    /\ UNCHANGED <<env, faults, lastConfig, armed, reloader, events, receiver, ctx>>

\* The stream ends with an error; the loop backs off and asks for a new one.  It does
\* not reload.
StreamBreaks ==
    /\ loop.at = "reading"
    /\ Fault
    /\ loop' = LoopAt("connect")
    /\ stream' = FALSE
    /\ events' = <<>>
    /\ UNCHANGED <<env, lastConfig, armed, reloader, receiver, ctx>>

\* A stop or die event: the old configuration is kept for the comparison ...
ReadsGone ==
    /\ loop.at = "reading"
    /\ events # <<>>
    /\ Head(events).kind = "gone"
    /\ events' = Tail(events)
    /\ loop' = [at |-> "load", old |-> lastConfig, new |-> Nobody, who |-> Head(events).who]
    /\ UNCHANGED <<env, faults, lastConfig, armed, reloader, stream, receiver, ctx>>

\* ... a new one is loaded, the stopped container's service taken out of it ...
LoopLoads ==
    /\ loop.at = "load"
    /\ \E shown \in Lists :
          /\ Load(shown)
          /\ LET new == removeServiceByContainerName(Loaded(shown), loop.who)
             IN loop' = IF <<loop.old, new>> \in Equal THEN LoopAt("reading")
                        ELSE [loop EXCEPT !.at = "send", !.new = new]
    /\ UNCHANGED <<env, armed, reloader, stream, events, receiver, ctx>>

LoopLoadFails ==
    /\ loop.at = "load"
    /\ LoadFails
    /\ loop' = LoopAt("reading")
    /\ UNCHANGED <<env, armed, reloader, stream, events, receiver, ctx>>

LoopLoadRefused ==
    /\ loop.at = "load"
    /\ LoadRefuses
    /\ loop' = LoopAt("reading")
    /\ UNCHANGED <<env, armed, reloader, stream, events, receiver, ctx>>

\* ... and the loop waits until the app takes it.
LoopSends_OrDrops ==
    /\ loop.at = "send"
    /\ \/ Deliver(loop.new) /\ loop' = [loop EXCEPT !.at = "record"]
       \/ app # "waiting" /\ loop' = LoopAt("reading") /\ UNCHANGED receiver
    /\ UNCHANGED <<env, faults, lastConfig, armed, reloader, stream, events, ctx>>

LoopSends ==
    /\ loop.at = "send"
    /\ Deliver(loop.new)
    /\ loop' = [loop EXCEPT !.at = "record"]
    /\ UNCHANGED <<env, faults, lastConfig, armed, reloader, stream, events, ctx>>

LoopRecords ==
    /\ loop.at = "record"
    /\ lastConfig' = loop.new
    /\ loop' = LoopAt("reading")
    /\ UNCHANGED <<env, faults, armed, reloader, stream, events, receiver, ctx>>

\* Any other event: debouncedReload stops the timer and starts a new one.
ReadsOther ==
    /\ loop.at = "reading"
    /\ events # <<>>
    /\ Head(events).kind = "other"
    /\ events' = Tail(events)
    /\ armed' = TRUE
    /\ UNCHANGED <<env, faults, lastConfig, loop, reloader, stream, receiver, ctx>>

\* ctx.Done, wherever the loop looks at it; the deferred close of configCh.
LoopEnds_WhenIdle ==
    /\ cancelled
    /\ loop.at \in {"connect", "reading"}
    /\ loop' = LoopAt("gone")
    /\ closed' = TRUE
    /\ UNCHANGED <<env, faults, lastConfig, armed, reloader, stream, events, receiver,
                   cancelled, panicked>>

LoopEnds ==
    /\ cancelled
    /\ loop.at \in {"connect", "reading", "send"}
    /\ loop' = LoopAt("gone")
    /\ closed' = TRUE
    /\ UNCHANGED <<env, faults, lastConfig, armed, reloader, stream, events, receiver,
                   cancelled, panicked>>

-----------------------------------------------------------------------------
(* immediateReload *)

\* The context is looked at once, here.
Begins(r) ==
    /\ reloader[r].at = "idle"
    /\ ~cancelled
    /\ reloader' = [reloader EXCEPT ![r] =
                       [at |-> "load", old |-> lastConfig, new |-> Nobody]]
    /\ UNCHANGED <<env, faults, lastConfig, loop, stream, events, receiver, ctx>>

PollTicks ==
    /\ Polling
    /\ Begins(Poller)
    /\ UNCHANGED armed

TimerFires(r) ==
    /\ armed
    /\ Begins(r)
    /\ armed' = FALSE

Reloads_ComparesLate(r) ==
    /\ reloader[r].at = "load"
    /\ \E shown \in Lists :
          /\ Load(shown)
          /\ reloader' = [reloader EXCEPT ![r] =
                 IF <<lastConfig', Loaded(shown)>> \in Equal THEN Resting("idle")
                 ELSE [reloader[r] EXCEPT !.at = "send", !.new = Loaded(shown)]]
    /\ UNCHANGED <<env, loop, armed, stream, events, receiver, ctx>>

Reloads(r) ==
    /\ reloader[r].at = "load"
    /\ \E shown \in Lists :
          /\ Load(shown)
          /\ reloader' = [reloader EXCEPT ![r] =
                 IF <<reloader[r].old, Loaded(shown)>> \in Equal THEN Resting("idle")
                 ELSE [reloader[r] EXCEPT !.at = "send", !.new = Loaded(shown)]]
    /\ UNCHANGED <<env, loop, armed, stream, events, receiver, ctx>>

ReloadFails(r) ==
    /\ reloader[r].at = "load"
    /\ LoadFails
    /\ reloader' = [reloader EXCEPT ![r] = Resting("idle")]
    /\ UNCHANGED <<env, loop, armed, stream, events, receiver, ctx>>

ReloadRefused(r) ==
    /\ reloader[r].at = "load"
    /\ LoadRefuses
    /\ reloader' = [reloader EXCEPT ![r] = Resting("idle")]
    /\ UNCHANGED <<env, loop, armed, stream, events, receiver, ctx>>

ReloadSends(r) ==
    /\ reloader[r].at = "send"
    /\ Deliver(reloader[r].new)
    /\ reloader' = [reloader EXCEPT ![r].at = "record"]
    /\ UNCHANGED <<env, faults, lastConfig, loop, armed, stream, events, ctx>>

\* The select's default, when nobody is receiving, and its ctx.Done.
ReloadDrops(r) ==
    /\ reloader[r].at = "send"
    /\ app # "waiting" \/ cancelled
    /\ reloader' = [reloader EXCEPT ![r] = Resting("idle")]
    /\ UNCHANGED <<env, faults, lastConfig, loop, armed, stream, events, receiver, ctx>>

\* A select that finds its send on a closed channel panics.
ReloadPanics(r) ==
    /\ reloader[r].at = "send"
    /\ closed
    /\ panicked' = TRUE
    /\ UNCHANGED <<env, faults, provider, receiver, cancelled, closed>>

ReloadRecords(r) ==
    /\ reloader[r].at = "record"
    /\ lastConfig' = reloader[r].new
    /\ reloader' = [reloader EXCEPT ![r] = Resting("idle")]
    /\ UNCHANGED <<env, faults, loop, armed, stream, events, receiver, ctx>>

-----------------------------------------------------------------------------

Cancel ==
    /\ Stoppable /\ ~cancelled
    /\ cancelled' = TRUE
    /\ UNCHANGED <<env, faults, provider, receiver, closed, panicked>>

Daemon ==
    \/ \E c \in Containers :
          \/ \E s \in Setups : ContainerStarts(c, s)
          \/ ContainerStops(c) \/ ContainerPauses(c)

Settles == \E c \in Containers : ListSettles(c)

Loop == \/ StreamOpens \/ ReadsGone \/ LoopLoads \/ LoopLoadRefused \/ LoopSends \/ LoopRecords \/ ReadsOther
        \/ LoopEnds \/ (cancelled /\ LoopLoadFails)

Reloader(r) == \/ Reloads(r) \/ ReloadRefused(r) \/ ReloadSends(r) \/ ReloadDrops(r) \/ ReloadRecords(r)
               \/ ReloadPanics(r) \/ (cancelled /\ ReloadFails(r))

Fires == \E r \in Timers : TimerFires(r)

Trouble == StreamBreaks \/ LoopLoadFails \/ \E r \in Reloaders : ReloadFails(r)

\* Nothing runs once a goroutine has panicked.
Alive == ~panicked

-----------------------------------------------------------------------------
(* History: what keeps the app from hearing what p.lastConfig already holds. *)

News == {"send", "record"}

\* One has something for the app, and another has looked at p.lastConfig, or may write it.
Overlap ==
    \/ loop.at \in News /\ \E r \in Reloaders : reloader[r].at # "idle"
    \/ \E r \in Reloaders :
          /\ reloader[r].at \in News
          /\ \/ loop.at \in News \cup {"load"}
             \/ \E q \in Reloaders \ {r} : reloader[q].at # "idle"

\* A select has taken its default or its ctx.Done.
GivenUp ==
    \/ loop.at = "send" /\ loop'.at \in {"reading", "gone"}
    \/ \E r \in Reloaders : reloader[r].at = "send" /\ reloader'[r].at = "idle"

\* Load has stored a service that the loop then takes out, and finds nothing else new.
TakenOut ==
    /\ loop.at = "load" /\ loop'.at = "reading"
    /\ lastConfig' # lastConfig
    /\ removeServiceByContainerName(lastConfig', loop.who) # lastConfig'

Delivered ==
    \/ loop.at = "send" /\ loop'.at = "record"
    \/ \E r \in Reloaders : reloader[r].at = "send" /\ reloader'[r].at = "record"

Remember == lapsed' = (Overlap' \/ GivenUp \/ TakenOut \/ (lapsed /\ ~Delivered))

-----------------------------------------------------------------------------

Next ==
    /\ Alive
    /\ \/ Daemon \/ Settles \/ Loop \/ (\E r \in Reloaders : Reloader(r))
       \/ PollTicks \/ Fires \/ Trouble \/ Cancel \/ AppApplies \/ AppLeaves
    /\ Remember

(* Goroutines go on, the ticker and the timer fire, ReloadConfig returns (App,     *)
(* ReloadEnds) and a list is right in the end.  Nothing is assumed of containers,  *)
(* of failures or of the cancellation.                                            *)
Fairness ==
    /\ WF_vars(Alive /\ Loop /\ Remember)
    /\ \A r \in Reloaders : WF_vars(Alive /\ Reloader(r) /\ Remember)
    /\ WF_vars(Alive /\ PollTicks /\ Remember)
    /\ WF_vars(Alive /\ Fires /\ Remember)
    /\ WF_vars(Alive /\ (AppApplies \/ AppLeaves) /\ Remember)
    /\ WF_vars(Alive /\ Settles /\ Remember)

Safety == Init /\ [][Next]_vars
Spec == Safety /\ Fairness

-----------------------------------------------------------------------------
(* Safety *)

\* A service as its node and its proxy see it: the order of the tags tells nothing.
Seen == [cs \in Started |->
            LET svc == Service[cs]
                tags == IF svc.set["tags"] = None THEN <<>> ELSE svc.set["tags"]
            IN <<svc.name, svc.backend_addr,
                 [key \in Settings \ {"tags"} |-> svc.set[key]],
                 {<<tags[i], Occurrences(tags, tags[i])>> : i \in DOMAIN tags}>>]

SeenIn(cfg) == {Seen[<<c, cfg[c]>>] : c \in {d \in Containers : cfg[d] # None}}

Same == {ab \in Pairs : SeenIn(ab[1]) = SeenIn(ab[2])}

\* Unless somebody has something for the app, p.lastConfig, which every reload is compared
\* with, holds the services the app was handed last: whatever was loaded meanwhile, by
\* several at once, and found equal, and whatever failed.  Load overwrites it before
\* anything is compared or sent (docker.go, Load, immediateReload, handleContainerEvent), so
\* a send given up, or made while another reload was under way, puts the two out of step,
\* and the next delivery made alone puts them in step again.
InStep ==
    ~lapsed /\ loop.at \notin News /\ (\A r \in Reloaders : reloader[r].at \notin News)
        => <<lastConfig, incoming>> \in Same

Honouring ==
    {cs \in Started :
        Honours(Self, Summary(cs[1], cs[2]), Service[cs])}

\* Its services are what their containers' labels promise, their names are unique, and
\* with OAuth each has a tag.
Truthful(cfg) ==
    LET there == {c \in Containers : cfg[c] # None}
    IN /\ \A c \in there : <<c, cfg[c]>> \in Honouring
       /\ \A c, d \in there : Service[<<c, cfg[c]>>].name = Service[<<d, cfg[d]>>].name => c = d
       /\ \A c \in there : Self.oauth => Service[<<c, cfg[c]>>].set["tags"] \notin {None, <<>>}

\* Every service handed to the app is what its container's labels promise: own label, else
\* global label, else default, in every one of its settings (labels.go, Normalize); names
\* are unique, which configEqual and the reload rely on; and with OAuth every service has
\* a tag.
LabelsHonoured == Truthful(incoming)

\* Nobody sends on configCh after the event loop has closed it.
NoSendOnClosed == ~panicked

\* configEqual is exact: it finds two configurations equal when, and only when, nodes and
\* proxies could not tell them apart, in whichever order the tags and the services are
\* (docker.go, configEqual; compare.go).
ComparisonIsExact ==
    \A a, b \in {cfg \in Configs : Truthful(cfg)} : <<a, b>> \in Equal <=> <<a, b>> \in Same

\* What the event loop or a reloader sends can be told from what it found in p.lastConfig
\* when it began (docker.go, handleContainerEvent and immediateReload).
OnlyNewsIsSent ==
    /\ loop.at \in {"send", "record"} => <<loop.old, loop.new>> \notin Same
    /\ \A r \in Reloaders :
          reloader[r].at \in {"send", "record"} => <<reloader[r].old, reloader[r].new>> \notin Same

\* Unless there was such a lapse, no reloader offers the app the services it has, so that no
\* node is disturbed by a reload that finds nothing new (docker.go, immediateReload).
NoIdleDelivery ==
    ~lapsed =>
        \A r \in Reloaders : reloader[r].at = "send" => <<incoming, reloader[r].new>> \notin Same

\* The send that panics is one that lost the race with the end of the watch: the context is
\* cancelled, the event loop is gone, and the reloader had its configuration ready
\* (docker.go, Watch's deferred close and immediateReload's select).
PanicOnlyAtTheEnd ==
    panicked => /\ cancelled /\ closed /\ loop.at = "gone"
                /\ \E r \in Reloaders : reloader[r].at = "send"

\* The event loop gives up what it has to send only for the end of the watch: it is
\* delivered to the app, whole, or the context is cancelled (docker.go,
\* handleContainerEvent, whose select has no default).
StopIsNotDropped ==
    [][loop.at = "send" /\ loop' # loop =>
          \/ incoming' = loop.new /\ loop' = [loop EXCEPT !.at = "record"]
          \/ cancelled /\ loop'.at = "gone" /\ UNCHANGED incoming]_vars

-----------------------------------------------------------------------------
(* Liveness *)

\* Once the containers stop changing the app ends up with the services they call for,
\* whatever events were lost and loads failed on the way: the poll is the safety net.  As
\* long as one container makes Validate refuse the whole, nothing is promised.
Converges == <>[](world \in Acceptable => <<applied, Loaded(world)>> \in Same)

\* So it does unless something the app should have heard was given up, or crossed another
\* reload, and nothing has been delivered since (docker.go, immediateReload's default).
ConvergesUnlessLapsed ==
    <>[](~lapsed /\ world \in Acceptable => <<applied, Loaded(world)>> \in Same)

\* A configuration the event loop has found to differ reaches the app, however long that
\* is busy with another one, unless the watch ends.
StopDelivered ==
    \A cfg \in Configs :
        (loop.at = "send" /\ loop.new = cfg) ~> (incoming = cfg \/ cancelled)

\* A cancelled watch ends: the loop, its reloaders and the receiver, also when the loop
\* was waiting for a receiver that has left.
WatchEnds ==
    cancelled ~> \/ panicked
                 \/ loop.at = "gone" /\ app = "gone"
                    /\ \A r \in Reloaders : reloader[r].at = "idle"
=============================================================================
