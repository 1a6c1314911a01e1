--------------------------- MODULE OrderlyRegistry ---------------------------
(***************************************************************************)
(* The registry used the way App intends: StartServices is the first call,  *)
(* then AddService, RemoveService and UpdateService with any arguments in   *)
(* any order, then Shutdown, then Server.Close, which is the last.  App.tla  *)
(* is the program itself, in which the goroutines do not keep to this.      *)
(***************************************************************************)
EXTENDS ServiceRegistry

VARIABLE phase      \* how far the owner of the registry has got

vars == <<tsVars, regVars, phase>>

Phases == {"new", "running", "stopping", "closing"}

TypeOK == RegTypeOK /\ phase \in Phases

Init == RegInit /\ phase = "new"

\* Bound: calls go on while there is an instance left for what they may start.
Room(k) == made + k <= MaxInst

Startup ==
    /\ phase = "new"
    /\ Room(Cardinality({n \in Names : config[n] # None}))
    /\ StartServices
    /\ phase' = "running"

Change ==
    /\ phase = "running"
    /\ \E n \in Names :
          \/ \E c \in Cfgs :
                \/ Room(1) /\ (AddService(n, c) \/ UpdateService(n, c))
                \/ AddRefused(n, c)
                \/ UpdateRefused(n, c)
          \/ RemoveService(n)
          \/ RemoveRefused(n)
    /\ UNCHANGED phase

Stopping ==
    /\ phase = "running"
    /\ Shutdown
    /\ phase' = "stopping"

\* performShutdown: tsServer.Close follows registry.Shutdown, whatever that returned.
Closing ==
    /\ phase = "stopping"
    /\ op = Idle
    /\ CloseAll
    /\ phase' = "closing"
    /\ UNCHANGED regVars

CloseStep ==
    /\ phase = "closing"
    /\ \E i \in Inst : CloseOneBegins(i) \/ CloseOneEnds(i)
    /\ UNCHANGED <<regVars, phase>>

Elsewhere ==
    /\ \E i \in Inst : NodeClosed(i) \/ ServeFails(i)
    /\ UNCHANGED phase

Working == OpStep /\ UNCHANGED phase

\* A panic in one goroutine ends the process.
Alive == ~panicked

Next ==
    Alive /\ (Startup \/ Change \/ Stopping \/ Closing \/ CloseStep \/ Working \/ Elsewhere)

(* What an operation waits for has a timeout (Up, Stop, closing a node), so a  *)
(* call goes on, but for a Listen that failed, which waits for the node's Close *)
(* without one; the owner's shutdown sequence has no other guard.  Nothing is   *)
(* assumed of a node's Close, which may hang.                                  *)
Fairness == WF_vars(Working) /\ WF_vars(Closing) /\ WF_vars(CloseStep)

Safety == Init /\ [][Next]_vars
Spec == Safety /\ Fairness

-----------------------------------------------------------------------------
(* Safety *)

\* Between two operations the two maps, kept by two packages under two locks, name the
\* same instances, until Close empties one of them.
MapsAgree == op = Idle /\ phase # "closing" => servers = services

\* A service accepts requests only while its node is up: the stop comes before the close
\* in RemoveService, UpdateService and performShutdown.
ServingNodeUp == \A i \in Inst : http[i] = "serving" => node[i] = "up"

-----------------------------------------------------------------------------
(* Action properties *)

\* A service in the registry stops accepting only by an operation on that very service,
\* by Shutdown, or by itself; an update whose configuration validateServiceConfig refuses
\* never takes it down.
StopsOnlyWhenAsked ==
    [][\A i \in Inst : http[i] = "serving" /\ http'[i] \notin {"serving", "dead"} =>
          \/ op.kind = "shutdown"
          \/ op.kind = "remove" /\ op.name = owner[i]
          \/ op.kind = "update" /\ op.name = owner[i] /\ op.cfg \notin Rejected]_vars

-----------------------------------------------------------------------------
(* What the registry promises *)

\* Every operation does what its return value says (service.go: nil, an error, or the
\* partial failure of StartServices), whatever fails on the way: which services are
\* registered afterwards, with which configuration, and which of them are not stopped;
\* and between calls nothing changes.
KeepsItsPromise == Promised!Spec

\* Close misses no node: when it has taken up its last one none is up any more, whatever
\* the calls before it left behind (tailscale.go, Server.Close).
NothingLeftUp == phase = "closing" /\ doomed = {} => \A i \in Inst : node[i] # "up"

-----------------------------------------------------------------------------
(* Liveness *)

\* Every call returns, however long the Close of a node takes that CloseService waits for.
\* The exception is the Close a failed Listen calls itself (tailscale.go, Listen): when that
\* one hangs the call never returns and r.mu stays taken.
CallsReturn == (op # Idle) ~> (op = Idle \/ []Hung)

\* After Shutdown and Close no node is left up: each is closed, or its Close is at least
\* on its way.
AllNodesGivenUp == (phase = "closing") ~> (\A i \in Inst : node[i] # "up")
=============================================================================
