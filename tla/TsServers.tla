------------------------------ MODULE TsServers ------------------------------
(***************************************************************************)
(* tailscale.Server (internal/tailscale/tailscale.go): the tsnet nodes      *)
(* tsbridge runs, one per service, and the map that finds them by service   *)
(* name.  An instance is one call of the server factory: Listen makes a new  *)
(* node each time, so a service that is updated has had several.            *)
(*                                                                         *)
(* s.mu protects the map and is held for the whole of Listen, so a Listen   *)
(* that succeeds is one step.  One that fails calls the node's Close itself, *)
(* with s.mu held and no timer, so it is two.  CloseService and Close        *)
(* release s.mu before they wait for a node's Close, and wait for so long    *)
(* only: their waits are steps of their own.                                *)
(*                                                                         *)
(* A node is                                                               *)
(*   "none"       not made yet                                             *)
(*   "unstarted"  made, but its auth key could not be prepared             *)
(*   "up"         started: it holds its state directory and its hostname   *)
(*   "closing"    its Close runs and somebody waits for it                 *)
(*   "overdue"    its Close goroutine runs, the waiter has given up        *)
(*   "closed"     its Close has returned                                   *)
(***************************************************************************)
EXTENDS Naturals

CONSTANTS
    Names,      \* service names
    None,       \* no service, no configuration
    MaxInst     \* bound: how many nodes one behaviour makes

ASSUME TsAssumption == None \notin Names /\ MaxInst \in Nat

Inst == 1 .. MaxInst
Absent == 0
NodeStates == {"none", "unstarted", "up", "closing", "overdue", "closed"}

VARIABLES
    servers,    \* s.serviceServers: service name -> instance, or Absent
    owner,      \* the service an instance was made for
    node,       \* the state of each instance's node
    made,       \* how many instances the factory has made
    doomed      \* Close took these out of the map and has not finished with them

tsVars == <<servers, owner, node, made, doomed>>

TsTypeOK ==
    /\ servers \in [Names -> Inst \cup {Absent}]
    /\ owner \in [Inst -> Names \cup {None}]
    /\ node \in [Inst -> NodeStates]
    /\ made \in Inst \cup {0}
    /\ doomed \subseteq Inst

TsInit ==
    /\ servers = [n \in Names |-> Absent]
    /\ owner = [i \in Inst |-> None]
    /\ node = [i \in Inst |-> "none"]
    /\ made = 0
    /\ doomed = {}

Live(i) == node[i] \in {"up", "closing", "overdue"}

-----------------------------------------------------------------------------
(* Listen *)

\* s.serverFactory(svc.Name): the new instance and what became of it.
Make(n, state) ==
    /\ made < MaxInst
    /\ made' = made + 1
    /\ owner' = [owner EXCEPT ![made + 1] = n]
    /\ node' = [node EXCEPT ![made + 1] = state]
    /\ UNCHANGED doomed

\* prepareServiceAuth fails: Listen returns before it has stored the server,
\* which nobody closes (it was never started).
ListenNoAuth(n) ==
    /\ Make(n, "unstarted")
    /\ UNCHANGED servers

\* Up or the listener fails: the server was stored, is deleted again, and its Close
\* is called, not in a goroutine ...
ListenFails(n) ==
    /\ Make(n, "closing")
    /\ servers' = [servers EXCEPT ![n] = Absent]

\* ... and Listen returns when that has returned.
ListenFailed(i) ==
    /\ node[i] = "closed"
    /\ UNCHANGED tsVars

\* The store overwrites whatever the map held under that name.
ListenSucceeds(n) ==
    /\ Make(n, "up")
    /\ servers' = [servers EXCEPT ![n] = made + 1]

-----------------------------------------------------------------------------
(* Closing *)

\* CloseService up to its wait: out of the map, Close runs in a goroutine.
DetachNode(n) ==
    /\ servers' = [servers EXCEPT ![n] = Absent]
    /\ node' = [node EXCEPT ![servers[n]] = "closing"]
    /\ UNCHANGED <<owner, made, doomed>>

\* closeServerWithTimeout as its caller sees it: Close has returned, or the
\* timer has fired and the goroutine is left behind.
WaitEnds_NoTimer(i) ==
    /\ node[i] = "closed"
    /\ UNCHANGED node

WaitEnds(i) ==
    \/ /\ node[i] = "closed"
       /\ UNCHANGED node
    \/ /\ node[i] = "closing"
       /\ node' = [node EXCEPT ![i] = "overdue"]

\* The node's Close returns.  Nothing says that it ever does.
NodeCloses(i) ==
    /\ node[i] \in {"closing", "overdue"}
    /\ node' = [node EXCEPT ![i] = "closed"]
    /\ UNCHANGED <<servers, owner, made, doomed>>

\* Close: the map is swapped for an empty one under s.mu ...
CloseAll ==
    /\ doomed' = doomed \cup {i \in Inst : \E n \in Names : servers[n] = i}
    /\ servers' = [n \in Names |-> Absent]
    /\ UNCHANGED <<owner, node, made>>

\* ... and the servers it held are closed one after the other.
CloseOneBegins(i) ==
    /\ i \in doomed
    /\ node[i] = "up"
    /\ \A j \in doomed : node[j] = "up"
    /\ node' = [node EXCEPT ![i] = "closing"]
    /\ UNCHANGED <<servers, owner, made, doomed>>

CloseOneEnds(i) ==
    /\ i \in doomed
    /\ WaitEnds(i)
    /\ doomed' = doomed \ {i}
    /\ UNCHANGED <<servers, owner, made>>
=============================================================================
