--------------------------------- MODULE App ---------------------------------
(***************************************************************************)
(* app.App (internal/app) and the goroutines cmd/tsbridge/main.go runs it    *)
(* in, over ServiceRegistry:                                                *)
(*   starter  the goroutine in Start: starts the configuration watcher, the  *)
(*            metrics server, then the services of the first configuration;  *)
(*   watcher  watchConfigChanges, applying each configuration the provider   *)
(*            sends with ReloadConfig;                                      *)
(*   closer   main after a signal, in Shutdown.                             *)
(* The three meet at r.mu alone: nothing makes the watcher wait for the      *)
(* starter, nor the closer for either.  The provider is any source of        *)
(* configurations (DockerProvider.tla is the real one).                     *)
(***************************************************************************)
EXTENDS ServiceRegistry

CONSTANTS
    Configs,    \* the configurations a provider may load: [Names -> Cfgs \cup {None}]
    Watching,   \* whether the provider supports watching (docker) or not (file)
    MaxReloads  \* bound: how many configurations the provider sends

ASSUME AppAssumption ==
    /\ Configs \subseteq [Names -> Cfgs \cup {None}]
    /\ Watching \in BOOLEAN
    /\ MaxReloads \in Nat

VARIABLES
    cfg,        \* a.cfg: the configuration the app believes it runs
    starter,    \* how far Start has got
    watcher,    \* what the watchConfigChanges goroutine does
    closer,     \* how far the shutdown has got
    cancelled,  \* the watcher's context
    pending,    \* ReloadConfig's newCfg
    plan,       \* what reloadConfigWithRegistry has still to do
    erred,      \* the ReloadError of the reload in progress has errors
    outcome,    \* what the last ReloadConfig returned
    reloads,    \* how many configurations have been received
    faulty,     \* history: the services some call has failed for
    raced       \* history: a configuration was received before the services were started

appVars == <<cfg, starter, watcher, closer, cancelled, pending, plan, erred, outcome,
             reloads, faulty, raced>>
vars == <<tsVars, regVars, appVars>>

Nothing == [remove |-> {}, add |-> {}, update |-> {}]

TypeOK ==
    /\ RegTypeOK
    /\ cfg \in [Names -> Cfgs \cup {None}]
    /\ starter \in {"created", "watching", "metrics", "starting", "up", "failed"}
    /\ watcher \in {"none", "waiting", "reloading", "gone"}
    /\ closer \in {"none", "services", "stopping", "nodes", "closing", "exited"}
    /\ cancelled \in BOOLEAN
    /\ pending \in [Names -> Cfgs \cup {None}]
    /\ plan \in [remove : SUBSET Names, add : SUBSET Names, update : SUBSET Names]
    /\ erred \in BOOLEAN
    /\ outcome \in {"none", "ok", "error"}
    /\ reloads \in 0 .. MaxReloads
    /\ faulty \subseteq Names
    /\ raced \in BOOLEAN

\* NewAppWithOptions: one loaded configuration is both the registry's and the app's.
Init ==
    /\ RegInit
    /\ config \in Configs
    /\ cfg = config
    /\ pending = config
    /\ starter = "created"
    /\ watcher = "none"
    /\ closer = "none"
    /\ cancelled = FALSE
    /\ plan = Nothing
    /\ erred = FALSE
    /\ outcome = "none"
    /\ reloads = 0
    /\ faulty = {}
    /\ raced = FALSE

-----------------------------------------------------------------------------
(* Start *)

\* provider.Watch, and the watchConfigChanges goroutine if it returned a channel.
StartWatch ==
    /\ starter = "created"
    /\ starter' = "watching"
    /\ watcher' \in IF Watching THEN {"waiting", "none"} ELSE {"none"}
    /\ UNCHANGED <<tsVars, regVars, cfg, closer, cancelled, pending, plan, erred, outcome,
                   reloads, faulty, raced>>

\* metricsServer.Start, when there is one; its failure is Start's.
StartMetrics ==
    /\ starter = "watching"
    /\ starter' \in IF Metrics THEN {"metrics", "failed"} ELSE {"metrics"}
    /\ UNCHANGED <<tsVars, regVars, cfg, watcher, closer, cancelled, pending, plan, erred,
                   outcome, reloads, faulty, raced>>

CallStartServices ==
    /\ starter = "metrics"
    /\ StartServices
    /\ starter' = "starting"
    /\ UNCHANGED <<cfg, watcher, closer, cancelled, pending, plan, erred, outcome, reloads,
                   faulty, raced>>

\* A failure of some services is tolerated, of all of them is not.
Started ==
    /\ StartReturns
    /\ starter' = IF ret' = "error" THEN "failed" ELSE "up"
    /\ UNCHANGED <<cfg, watcher, closer, cancelled, pending, plan, erred, outcome, reloads,
                   faulty, raced>>

\* run returns Start's error, and the process ends, unless a signal came first.
ExitFailed ==
    /\ starter = "failed"
    /\ closer = "none"
    /\ closer' = "exited"
    /\ UNCHANGED <<tsVars, regVars, cfg, starter, watcher, cancelled, pending, plan, erred,
                   outcome, reloads, faulty, raced>>

-----------------------------------------------------------------------------
(* ReloadConfig *)

findServicesToRemove(old, new) == {n \in Names : old[n] # None /\ new[n] = None}
findServicesToAdd(old, new) == {n \in Names : old[n] = None /\ new[n] # None}
findServicesToUpdate_Presence(old, new) == {}
findServicesToUpdate_All(old, new) == {n \in Names : old[n] # None /\ new[n] # None}
findServicesToUpdate(old, new) ==
    {n \in Names : old[n] # None /\ new[n] # None /\ old[n] # new[n]}

\* A configuration arrives: what has to be done is worked out from a.cfg alone.
\* With nothing to do the reload has succeeded at once.
Receive(new) ==
    /\ watcher = "waiting"
    /\ reloads < MaxReloads
    /\ reloads' = reloads + 1
    /\ pending' = new
    /\ plan' = [remove |-> findServicesToRemove(cfg, new),
                add |-> findServicesToAdd(cfg, new),
                update |-> findServicesToUpdate(cfg, new)]
    /\ raced' = (raced \/ starter # "up")
    /\ erred' = FALSE
    /\ outcome' = "none"
    /\ watcher' = "reloading"
    /\ UNCHANGED <<tsVars, regVars, cfg, starter, closer, cancelled, faulty>>

\* One call of reloadConfigWithRegistry: removals first, then additions, then updates.
Planned(n) ==
    IF plan.remove # {} THEN n \in plan.remove
    ELSE IF plan.add # {} THEN n \in plan.add
    ELSE n \in plan.update

Called(n) ==
    plan' = IF plan.remove # {} THEN [plan EXCEPT !.remove = @ \ {n}]
            ELSE IF plan.add # {} THEN [plan EXCEPT !.add = @ \ {n}]
            ELSE [plan EXCEPT !.update = @ \ {n}]

ReloadCalls(n) ==
    /\ watcher = "reloading"
    /\ Planned(n)
    /\ IF plan.remove # {} THEN RemoveService(n)
       ELSE IF plan.add # {} THEN AddService(n, pending[n])
       ELSE UpdateService(n, pending[n])
    /\ Called(n)
    /\ UNCHANGED <<cfg, starter, watcher, closer, cancelled, pending, erred, outcome,
                   reloads, faulty, raced>>

\* The call returns at once: the error is recorded and the reload goes on.
ReloadRefused(n) ==
    /\ watcher = "reloading"
    /\ Planned(n)
    /\ IF plan.remove # {} THEN RemoveRefused(n)
       ELSE IF plan.add # {} THEN AddRefused(n, pending[n])
       ELSE UpdateRefused(n, pending[n])
    /\ Called(n)
    /\ erred' = TRUE
    /\ faulty' = faulty \cup {n}
    /\ UNCHANGED <<cfg, starter, watcher, closer, cancelled, pending, outcome, reloads, raced>>

\* a.cfg is the new configuration whatever failed.
ReloadReturns ==
    /\ watcher = "reloading"
    /\ op.kind \notin {"add", "remove", "update"}
    /\ plan = Nothing
    /\ cfg' = pending
    /\ outcome' = IF erred THEN "error" ELSE "ok"
    /\ watcher' = "waiting"
    /\ UNCHANGED <<tsVars, regVars, starter, closer, cancelled, pending, plan, erred,
                   reloads, faulty, raced>>

\* ctx.Done, or the channel closed.  A configuration may win the select first.
WatcherGone ==
    /\ watcher = "waiting"
    /\ cancelled
    /\ watcher' = "gone"
    /\ UNCHANGED <<tsVars, regVars, cfg, starter, closer, cancelled, pending, plan, erred,
                   outcome, reloads, faulty, raced>>

-----------------------------------------------------------------------------
(* Shutdown *)

\* A signal, at any time: configWatcher is called if Start has set it.  The two
\* goroutines share that field without a lock, so one just set may not be seen.
Signal ==
    /\ closer = "none"
    /\ closer' = "services"
    /\ cancelled' \in CASE starter = "created"  -> {FALSE}
                        [] starter = "watching" -> BOOLEAN
                        [] OTHER                -> {TRUE}
    /\ UNCHANGED <<tsVars, regVars, cfg, starter, watcher, pending, plan, erred, outcome,
                   reloads, faulty, raced>>

CallShutdown ==
    /\ closer = "services"
    /\ Shutdown
    /\ closer' = "stopping"
    /\ UNCHANGED <<cfg, starter, watcher, cancelled, pending, plan, erred, outcome, reloads,
                   faulty, raced>>

ServicesStopped ==
    /\ closer = "stopping"
    /\ ShutdownReturns
    /\ closer' = "nodes"
    /\ UNCHANGED <<cfg, starter, watcher, cancelled, pending, plan, erred, outcome, reloads,
                   faulty, raced>>

\* Server.Close takes s.mu, which a reload's failed Listen may be holding.
CloseNodes ==
    /\ closer = "nodes"
    /\ ~ListenLocked
    /\ CloseAll
    /\ closer' = "closing"
    /\ UNCHANGED <<regVars, cfg, starter, watcher, cancelled, pending, plan, erred, outcome,
                   reloads, faulty, raced>>

CloseStep ==
    /\ closer = "closing"
    /\ \E i \in Inst : CloseOneBegins(i) \/ CloseOneEnds(i)
    /\ UNCHANGED <<regVars, appVars>>

\* Shutdown returns, and with it run and the process.
Exit ==
    /\ closer = "closing"
    /\ doomed = {}
    /\ closer' = "exited"
    /\ UNCHANGED <<tsVars, regVars, cfg, starter, watcher, cancelled, pending, plan, erred,
                   outcome, reloads, faulty, raced>>

-----------------------------------------------------------------------------

\* Steps inside the operation that holds r.mu; StartReturns and ShutdownReturns are
\* steps of their callers, above.
CallFailed == op.at \in {"stop", "listen", "abandon", "giveup"} /\ op'.at \in {"idle", "each"}

Working ==
    /\ InnerStep
    /\ faulty' = IF CallFailed THEN faulty \cup {op.name} ELSE faulty
    /\ erred' = (erred \/ (CallFailed /\ op.kind # "start"))
    /\ UNCHANGED <<cfg, starter, watcher, closer, cancelled, pending, plan, outcome, reloads,
                   raced>>

Elsewhere ==
    /\ \E i \in Inst : NodeClosed(i) \/ ServeFails(i)
    /\ UNCHANGED appVars

Starter == StartWatch \/ StartMetrics \/ CallStartServices \/ Started \/ ExitFailed
Reload == (\E n \in Names : ReloadCalls(n) \/ ReloadRefused(n)) \/ ReloadReturns
Watcher == (\E new \in Configs : Receive(new)) \/ Reload \/ WatcherGone
Closer == CallShutdown \/ ServicesStopped \/ CloseNodes \/ CloseStep \/ Exit

\* Nothing runs once the process has ended, by itself or by a panic.
Running == ~panicked /\ closer # "exited"

Next ==
    /\ Running
    /\ Starter \/ Watcher \/ Signal \/ Closer \/ Working \/ Elsewhere

(* Each goroutine goes on when it can: the waits inside an operation have a      *)
(* timeout, but for a failed Listen's, which is for a node's Close.  Nothing is  *)
(* assumed of the provider, of signals, or of the Close of a node.  Weak fairness *)
(* is enough because a provider sends finitely many configurations here           *)
(* (MaxReloads), so r.mu is not contended for ever.                              *)
Fairness ==
    /\ WF_vars(Running /\ Working)
    /\ WF_vars(Running /\ Starter)
    /\ WF_vars(Running /\ Reload)
    /\ WF_vars(Running /\ Closer)

Safety == Init /\ [][Next]_vars
Spec == Safety /\ Fairness

-----------------------------------------------------------------------------
(* Safety *)

\* What the registry runs under a name.
RunningCfg(n) == IF services[n] = Absent THEN None ELSE conf[services[n]]

\* A failed call keeps to its own service: while no configuration overtook the start and
\* no shutdown is on, every service for which nothing ever failed runs exactly what a.cfg
\* says, whatever happened to the others in the same reloads.
FailuresStayLocal ==
    starter = "up" /\ watcher = "waiting" /\ closer = "none" /\ ~raced
        => \A n \in Names \ faulty : RunningCfg(n) = cfg[n]

\* Without such overtaking every http.Server and every node stays within reach of the
\* registry, also when the closer shuts everything down in the middle of a reload.
ReachableUnlessRaced == ~raced => NoOrphan /\ NoNodeLeak

\* Only a reload that goes on after Shutdown closes a handler a second time (MCAppPanic),
\* by removing or updating a service Shutdown has stopped; a reload that overtakes the
\* start never does.
PanicOnlyAfterShutdown ==
    panicked => At({"remove", "update"}, "close") /\ closer \in {"nodes", "closing"}

\* Every node is waited for by one goroutine only, the one that took it out of
\* s.serviceServers (Listen, CloseService or Close), and no timer has gone off for it: the
\* wait ends with that node's Close or, but for Listen's, with a timer of its own.
NobodyWaitsInVain ==
    /\ op.at \in {"wait", "giveup", "abandon"} /\ op.inst # Absent =>
          node[op.inst] \in {"closing", "closed"} /\ op.inst \notin doomed
    /\ \A i \in doomed : node[i] \in {"up", "closing", "closed"}
    /\ \A i, j \in doomed : i # j => "up" \in {node[i], node[j]}

\* A reload that returned nil leaves the registry matching the configuration it was
\* given (the comment at internal/app/reload.go:18).
CleanReloadMatches ==
    starter = "up" /\ watcher = "waiting" /\ closer = "none" /\ outcome = "ok"
        => \A n \in Names : RunningCfg(n) = cfg[n]

-----------------------------------------------------------------------------
(* Action properties *)

\* A reload takes down no service whose configuration it does not change: a server stops
\* accepting requests only by a shutdown, by itself, or in a reload between two
\* configurations that differ for its name.
UnchangedUntouched ==
    [][\A i \in Inst : http[i] = "serving" /\ http'[i] \notin {"serving", "dead"} =>
          \/ op.kind = "shutdown"
          \/ \E n \in Names : owner[i] = n /\ pending[n] # cfg[n]]_vars

\* The registry does what its return values say, as ServiceSet has it, though a reload and
\* the shutdown may come at any time: every AddService, RemoveService, UpdateService and
\* Shutdown always; StartServices unless a configuration overtook it.
PromiseUnlessOvertaken ==
    /\ Promised!Init
    /\ [][Promised!Next \/ (raced /\ "start" \in {Call.kind, Call'.kind})]_(Promised!vars)

-----------------------------------------------------------------------------
(* Liveness *)

\* A signal ends the process, in the middle of a start, of a reload or of both, however
\* many nodes hang in Close, unless one of them is the node of a Listen that failed: its
\* Close has no timer and is waited for under r.mu and s.mu, both of which Shutdown needs
\* (tailscale.go, Listen).
ShutdownEnds == (closer = "services") ~> (closer = "exited" \/ []Hung)

\* A reload comes to its end, unless the process does first, with the same exception.
ReloadEnds ==
    (watcher = "reloading") ~> (watcher # "reloading" \/ closer = "exited" \/ []Hung)
=============================================================================
