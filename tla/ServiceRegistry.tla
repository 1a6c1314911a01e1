--------------------------- MODULE ServiceRegistry ---------------------------
(***************************************************************************)
(* service.Registry (internal/service/service.go): the services tsbridge    *)
(* serves, by name, over the nodes of TsServers.                            *)
(*                                                                         *)
(* Every operation holds r.mu from its first step to its return: op is the   *)
(* operation inside the lock, and how far it has got.  The steps in between  *)
(* are those another goroutine can see something of: a Close goroutine of a  *)
(* node, a Serve goroutine, or App.Shutdown closing all nodes, none of which *)
(* takes r.mu.  s.mu is inside r.mu, and held between two steps only while a *)
(* Listen that failed waits for its node's Close (ListenLocked).             *)
(*                                                                         *)
(* The http.Server of an instance is                                       *)
(*   "none"      not created (its Listen or CreateHandler failed, or has not *)
(*               happened yet)                                              *)
(*   "serving"   its Serve goroutine accepts requests                       *)
(*   "dead"      Serve has returned an error, which is only logged          *)
(*   "draining"  Shutdown gave up on it: nothing is accepted any more, some  *)
(*               requests are still running, its handler is open            *)
(*   "stopped"   shut down, its handler closed                              *)
(***************************************************************************)
EXTENDS TsServers, FiniteSets

CONSTANTS
    Cfgs,        \* service configurations
    Rejected,    \* those validateServiceConfig refuses
    Unbuildable, \* those CreateHandler fails on
    Metrics      \* whether a metrics collector is set

ASSUME RegistryAssumption ==
    /\ None \notin Cfgs
    /\ Rejected \subseteq Cfgs
    /\ Unbuildable \subseteq Cfgs
    /\ Metrics \in BOOLEAN
    /\ IsFiniteSet(Names)

HttpStates == {"none", "serving", "dead", "draining", "stopped"}

VARIABLES
    config,     \* r.config: the configuration the registry was made with
    services,   \* r.services: service name -> instance, or Absent
    http,       \* the state of each instance's http.Server
    conf,       \* the configuration each served instance was made from
    released,   \* the instances whose handler has been closed
    panicked,   \* a handler was closed twice: close of a closed channel
    gauge,      \* the tsbridge_services_active gauge
    op,         \* the operation that holds r.mu
    todo,       \* StartServices, Shutdown: the services it has not dealt with
    ret         \* what the last operation returned

regVars == <<config, services, http, conf, released, panicked, gauge, op, todo, ret>>

Kinds == {"none", "start", "add", "remove", "update", "shutdown"}
Steps == {"idle", "each", "stop", "close", "wait", "listen", "abandon", "handler", "discard",
          "giveup"}
Ops == [kind : Kinds, at : Steps, name : Names \cup {None}, cfg : Cfgs \cup {None},
        inst : Inst \cup {Absent}, won : BOOLEAN, lost : BOOLEAN]

Begun(kind, at, n, c, i) ==
    [kind |-> kind, at |-> at, name |-> n, cfg |-> c, inst |-> i, won |-> FALSE, lost |-> FALSE]
Idle == Begun("none", "idle", None, None, Absent)

RegTypeOK ==
    /\ TsTypeOK
    /\ config \in [Names -> Cfgs \cup {None}]
    /\ services \in [Names -> Inst \cup {Absent}]
    /\ http \in [Inst -> HttpStates]
    /\ conf \in [Inst -> Cfgs \cup {None}]
    /\ released \subseteq Inst
    /\ panicked \in BOOLEAN
    /\ gauge \in Nat
    /\ op \in Ops
    /\ todo \subseteq Names
    /\ ret \in {"none", "ok", "partial", "error"}

RegInit ==
    /\ TsInit
    /\ config \in [Names -> Cfgs \cup {None}]
    /\ services = [n \in Names |-> Absent]
    /\ http = [i \in Inst |-> "none"]
    /\ conf = [i \in Inst |-> None]
    /\ released = {}
    /\ panicked = FALSE
    /\ gauge = 0
    /\ op = Idle
    /\ todo = {}
    /\ ret = "none"

Registered(svcs) == {n \in Names : svcs[n] # Absent}

\* SetActiveServices(len(r.services)), when there is a collector.
SetActive(svcs) == gauge' = IF Metrics THEN Cardinality(Registered(svcs)) ELSE gauge

Enter(o) ==
    /\ op = Idle
    /\ op' = o
    /\ ret' = "none"

\* The early returns: nothing was touched.
Refuse ==
    /\ op = Idle
    /\ ret' = "error"
    /\ UNCHANGED <<tsVars, config, services, http, conf, released, panicked, gauge, op, todo>>

Return(r) ==
    /\ op' = Idle
    /\ ret' = r

At(kinds, step) == op.kind \in kinds /\ op.at = step

-----------------------------------------------------------------------------
(* The calls *)

StartServices ==
    /\ Enter(Begun("start", "each", None, None, Absent))
    /\ todo' = {n \in Names : config[n] # None}
    /\ UNCHANGED <<tsVars, config, services, http, conf, released, panicked, gauge>>

AddService_NoCheck(n, c) ==
    /\ Enter(Begun("add", "listen", n, c, Absent))
    /\ UNCHANGED <<tsVars, config, services, http, conf, released, panicked, gauge, todo>>

AddService(n, c) ==
    /\ services[n] = Absent
    /\ Enter(Begun("add", "listen", n, c, Absent))
    /\ UNCHANGED <<tsVars, config, services, http, conf, released, panicked, gauge, todo>>

AddRefused(n, c) == services[n] # Absent /\ Refuse

RemoveService_NoStop(n) ==
    /\ services[n] # Absent
    /\ Enter(Begun("remove", "close", n, None, services[n]))
    /\ UNCHANGED <<tsVars, config, services, http, conf, released, panicked, gauge, todo>>

RemoveService(n) ==
    /\ services[n] # Absent
    /\ Enter(Begun("remove", "stop", n, None, services[n]))
    /\ UNCHANGED <<tsVars, config, services, http, conf, released, panicked, gauge, todo>>

RemoveRefused(n) == services[n] = Absent /\ Refuse

UpdateService(n, c) ==
    /\ services[n] # Absent
    /\ c \notin Rejected
    /\ Enter(Begun("update", "stop", n, c, services[n]))
    /\ UNCHANGED <<tsVars, config, services, http, conf, released, panicked, gauge, todo>>

UpdateRefused(n, c) == (services[n] = Absent \/ c \in Rejected) /\ Refuse

Shutdown ==
    /\ Enter(Begun("shutdown", "each", None, None, Absent))
    /\ todo' = Registered(services)
    /\ UNCHANGED <<tsVars, config, services, http, conf, released, panicked, gauge>>

-----------------------------------------------------------------------------
(* Service.Stop *)

\* The handler's Close: with a collector it closes a channel, so a second Close
\* of the same handler panics.
CloseHandler(i) ==
    /\ released' = released \cup {i}
    /\ panicked' = (panicked \/ (Metrics /\ i \in released))

\* server.Shutdown returns nil; the listener and the handler are closed.
StopSucceeds(i) ==
    /\ http' = [http EXCEPT ![i] = "stopped"]
    /\ CloseHandler(i)

\* server.Shutdown returns the context's error: Stop returns before it closes
\* the handler.  A server with no request running never takes this path.
StopTimesOut(i) ==
    /\ http[i] # "stopped"
    /\ http' = [http EXCEPT ![i] = "draining"]
    /\ UNCHANGED <<released, panicked>>

\* RemoveService, UpdateService: the stop of the service in hand.
Stopped ==
    /\ At({"remove", "update"}, "stop")
    /\ StopSucceeds(op.inst)
    /\ op' = [op EXCEPT !.at = "close"]
    /\ UNCHANGED <<tsVars, config, services, conf, gauge, todo, ret>>

\* The error path: the service keeps its place in the registry, and its node.
NotStopped_Forgets ==
    /\ At({"remove", "update"}, "stop")
    /\ StopTimesOut(op.inst)
    /\ services' = [services EXCEPT ![op.name] = Absent]
    /\ Return("error")
    /\ UNCHANGED <<tsVars, config, conf, gauge, todo>>

NotStopped ==
    /\ At({"remove", "update"}, "stop")
    /\ StopTimesOut(op.inst)
    /\ Return("error")
    /\ UNCHANGED <<tsVars, config, services, conf, gauge, todo>>

\* Shutdown: one goroutine per service, all under one context.
ShutdownStops(n) ==
    /\ At({"shutdown"}, "each")
    /\ n \in todo
    /\ todo' = todo \ {n}
    /\ \/ StopSucceeds(services[n]) /\ UNCHANGED op
       \/ StopTimesOut(services[n]) /\ op' = [op EXCEPT !.lost = TRUE]
    /\ UNCHANGED <<tsVars, config, services, conf, gauge, ret>>

\* The registry keeps the services it has stopped.
ShutdownReturns ==
    /\ At({"shutdown"}, "each")
    /\ todo = {}
    /\ Return(IF op.lost THEN "error" ELSE "ok")
    /\ UNCHANGED <<tsVars, config, services, http, conf, released, panicked, gauge, todo>>

-----------------------------------------------------------------------------
(* CloseService: after the stop ("close"), or after CreateHandler has failed     *)
(* ("discard").  Its error, a timeout, is logged and nothing else.               *)

CloseNode_NoWait ==
    /\ op.at \in {"close", "discard"}
    /\ IF servers[op.name] = Absent THEN UNCHANGED tsVars ELSE DetachNode(op.name)
    /\ op' = IF op.at = "close" /\ op.kind = "update"
             THEN [op EXCEPT !.at = "listen", !.inst = Absent]
             ELSE [op EXCEPT !.at = IF op.at = "close" THEN "wait" ELSE "giveup",
                             !.inst = servers[op.name]]
    /\ UNCHANGED <<config, services, http, conf, released, panicked, gauge, todo, ret>>

CloseNode ==
    /\ op.at \in {"close", "discard"}
    /\ IF servers[op.name] = Absent THEN UNCHANGED tsVars ELSE DetachNode(op.name)
    /\ op' = [op EXCEPT !.at = IF op.at = "close" THEN "wait" ELSE "giveup",
                        !.inst = servers[op.name]]
    /\ UNCHANGED <<config, services, http, conf, released, panicked, gauge, todo, ret>>

Waited ==
    /\ IF op.inst = Absent THEN UNCHANGED node ELSE WaitEnds(op.inst)
    /\ UNCHANGED <<servers, owner, made, doomed>>

\* RemoveService: deleted only now, then counted.
Removed_NotCounted ==
    /\ At({"remove"}, "wait")
    /\ Waited
    /\ services' = [services EXCEPT ![op.name] = Absent]
    /\ Return("ok")
    /\ UNCHANGED <<config, http, conf, released, panicked, gauge, todo>>

Removed ==
    /\ At({"remove"}, "wait")
    /\ Waited
    /\ services' = [services EXCEPT ![op.name] = Absent]
    /\ SetActive(services')
    /\ Return("ok")
    /\ UNCHANGED <<config, http, conf, released, panicked, todo>>

\* UpdateService: the old service is stopped and its node given up; start the new one.
OldClosed ==
    /\ At({"update"}, "wait")
    /\ Waited
    /\ op' = [op EXCEPT !.at = "listen", !.inst = Absent]
    /\ UNCHANGED <<config, services, http, conf, released, panicked, gauge, todo, ret>>

-----------------------------------------------------------------------------
(* startService *)

\* StartServices goes through the services of the original configuration.
StartNext(n) ==
    /\ At({"start"}, "each")
    /\ n \in todo
    /\ todo' = todo \ {n}
    /\ op' = [op EXCEPT !.at = "listen", !.name = n, !.cfg = config[n]]
    /\ UNCHANGED <<tsVars, config, services, http, conf, released, panicked, gauge, ret>>

Listening ==
    /\ op.at = "listen"
    /\ ListenSucceeds(op.name)
    /\ op' = [op EXCEPT !.at = "handler", !.inst = made + 1]
    /\ UNCHANGED <<config, services, http, conf, released, panicked, gauge, todo, ret>>

\* The service is handed to a Serve goroutine and stored.
Serves ==
    /\ op.at = "handler"
    /\ op.cfg \notin Unbuildable
    /\ http' = [http EXCEPT ![op.inst] = "serving"]
    /\ conf' = [conf EXCEPT ![op.inst] = op.cfg]
    /\ services' = [services EXCEPT ![op.name] = op.inst]
    /\ \/ /\ op.kind = "start"
          /\ op' = [Begun("start", "each", None, None, Absent) EXCEPT
                       !.won = TRUE, !.lost = op.lost]
          /\ UNCHANGED <<gauge, ret>>
       \/ op.kind = "add" /\ SetActive(services') /\ Return("ok")
       \/ op.kind = "update" /\ Return("ok") /\ UNCHANGED gauge
    /\ UNCHANGED <<tsVars, config, released, panicked, todo>>

\* What the caller of startService does with its error.
StartFailed_KeepsOld ==
    \/ /\ op.kind = "start"
       /\ op' = [Begun("start", "each", None, None, Absent) EXCEPT
                    !.won = op.won, !.lost = TRUE]
       /\ UNCHANGED <<services, gauge, ret>>
    \/ op.kind \in {"add", "update"} /\ Return("error") /\ UNCHANGED <<services, gauge>>

StartFailed_Decrements ==
    /\ op.kind \in {"add", "update"}
    /\ gauge' = IF Metrics THEN gauge - 1 ELSE gauge
    /\ services' = [services EXCEPT ![op.name] = Absent]
    /\ Return("error")

StartFailed ==
    \/ /\ op.kind = "start"
       /\ op' = [Begun("start", "each", None, None, Absent) EXCEPT
                    !.won = op.won, !.lost = TRUE]
       /\ UNCHANGED <<services, gauge, ret>>
    \/ op.kind = "add" /\ Return("error") /\ UNCHANGED <<services, gauge>>
    \/ /\ op.kind = "update"
       /\ services' = [services EXCEPT ![op.name] = Absent]
       /\ SetActive(services')
       /\ Return("error")

NotAuthorized ==
    /\ op.at = "listen"
    /\ ListenNoAuth(op.name)
    /\ StartFailed
    /\ UNCHANGED <<config, http, conf, released, panicked, todo>>

\* Inside Listen, with both locks held, until the node's Close returns ...
NotListening ==
    /\ op.at = "listen"
    /\ ListenFails(op.name)
    /\ op' = [op EXCEPT !.at = "abandon", !.inst = made + 1]
    /\ UNCHANGED <<config, services, http, conf, released, panicked, gauge, todo, ret>>

\* ... and only then does startService see the error.
Abandoned ==
    /\ op.at = "abandon"
    /\ ListenFailed(op.inst)
    /\ StartFailed
    /\ UNCHANGED <<config, http, conf, released, panicked, todo>>

\* s.mu is held from one step to the next.
ListenLocked == op.at = "abandon"

\* The one wait without a timer has no end: the node's Close does not return.
Hung == op.at = "abandon" /\ node[op.inst] = "closing"

\* CreateHandler has failed: the listener is closed, then CloseService.
HandlerFails_NodeKept ==
    /\ op.at = "handler"
    /\ op.cfg \in Unbuildable
    /\ StartFailed
    /\ UNCHANGED <<tsVars, config, http, conf, released, panicked, todo>>

HandlerFails ==
    /\ op.at = "handler"
    /\ op.cfg \in Unbuildable
    /\ op' = [op EXCEPT !.at = "discard"]
    /\ UNCHANGED <<tsVars, config, services, http, conf, released, panicked, gauge, todo, ret>>

GaveUp ==
    /\ op.at = "giveup"
    /\ Waited
    /\ StartFailed
    /\ UNCHANGED <<config, http, conf, released, panicked, todo>>

StartReturns_AnyIsOk ==
    /\ At({"start"}, "each")
    /\ todo = {}
    /\ SetActive(services)
    /\ Return(IF op.won \/ ~op.lost THEN "ok" ELSE "error")
    /\ UNCHANGED <<tsVars, config, services, http, conf, released, panicked, todo>>

StartReturns ==
    /\ At({"start"}, "each")
    /\ todo = {}
    /\ SetActive(services)
    /\ Return(IF ~op.lost THEN "ok" ELSE IF op.won THEN "partial" ELSE "error")
    /\ UNCHANGED <<tsVars, config, services, http, conf, released, panicked, todo>>

-----------------------------------------------------------------------------
(* The steps of the operation that holds r.mu, and of the goroutines that need *)
(* no lock.                                                                    *)

InnerStep ==
    \/ Stopped \/ NotStopped \/ CloseNode \/ Removed \/ OldClosed
    \/ Listening \/ NotAuthorized \/ NotListening \/ Abandoned
    \/ HandlerFails \/ Serves \/ GaveUp
    \/ \E n \in Names : StartNext(n) \/ ShutdownStops(n)

OpStep == InnerStep \/ StartReturns \/ ShutdownReturns

NodeClosed(i) ==
    /\ NodeCloses(i)
    /\ UNCHANGED regVars

\* server.Serve returns with an error other than ErrServerClosed: it is logged;
\* the registry still holds the service.
ServeFails(i) ==
    /\ http[i] = "serving"
    /\ http' = [http EXCEPT ![i] = "dead"]
    /\ UNCHANGED <<tsVars, config, services, conf, released, panicked, gauge, op, todo, ret>>

-----------------------------------------------------------------------------
(* What the registry promises, and how its state says it. *)

\* The configuration a name is registered with.
Entry == [n \in Names |-> IF services[n] = Absent THEN None ELSE conf[services[n]]]

\* The entries nobody has stopped; a Serve goroutine that died has not been stopped.
Unstopped == {n \in Names : services[n] # Absent /\ http[services[n]] \in {"serving", "dead"}}

\* The call inside r.mu; StartServices names no service, though it is at one.
Call == IF op.kind = "start" THEN [kind |-> "start", name |-> None, cfg |-> None]
        ELSE [kind |-> op.kind, name |-> op.name, cfg |-> op.cfg]

Promised == INSTANCE ServiceSet WITH
    wanted <- config, entry <- Entry, running <- Unstopped, call <- Call, result <- ret

-----------------------------------------------------------------------------
(* What must hold of the registry however its operations are called, or whenever *)
(* they are called in the order OrderlyRegistry and App say.                      *)

\* Every http.Server that may still be answering requests belongs to the entry the
\* registry has for its name, so a later remove, update or shutdown can reach it.
\* AddService's and UpdateService's overwriting of r.services is what could lose one.
NoOrphan ==
    \A i \in Inst : http[i] \in {"serving", "dead", "draining"} =>
        \E n \in Names : owner[i] = n /\ services[n] = i

\* Every node that is up is in s.serviceServers under its service's name, or waits its
\* turn in Close: nobody else would ever close it.
NoNodeLeak ==
    \A i \in Inst : node[i] = "up" =>
        \/ \E n \in Names : owner[i] = n /\ servers[n] = i
        \/ i \in doomed

\* Two nodes of one service, which share a hostname and a state directory, live at once
\* only when the older one's Close has outlasted TsnetServerCloseTimeout.
OneLiveNode ==
    \A i, j \in Inst :
        i # j /\ owner[i] = owner[j] /\ Live(i) /\ Live(j)
            => node[i] = "overdue" \/ node[j] = "overdue"

\* No handler is closed twice, which with a metrics collector is a close of a closed
\* channel, whatever stops failed, were repeated or were followed by a Shutdown.
NoDoubleClose == ~panicked

\* tsbridge_services_active counts the entries of the registry whenever the lock is free,
\* though five different paths of three operations set it or rely on not having to.
GaugeCounts ==
    Metrics /\ op = Idle => gauge = Cardinality(Registered(services))
=============================================================================
