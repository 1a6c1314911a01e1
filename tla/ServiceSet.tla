------------------------------ MODULE ServiceSet ------------------------------
(***************************************************************************)
(* What service.Registry promises its callers (App, and reload.go through    *)
(* serviceRegistryOps), without nodes, locks, timeouts or the steps of an    *)
(* operation: which services there are, with which configuration, which of   *)
(* them have not been stopped, and what a call that has returned says of     *)
(* them.  OrderlyRegistry is shown to implement it, and so is App until a     *)
(* configuration overtakes the start.                                       *)
(***************************************************************************)
EXTENDS FiniteSets

CONSTANTS
    Names,      \* service names
    Cfgs,       \* service configurations
    Rejected,   \* those no update accepts
    None        \* no service, no configuration

VARIABLES
    wanted,     \* the configuration the registry was made with
    entry,      \* service name -> the configuration it is registered with, or None
    running,    \* the registered services nobody has stopped
    call,       \* the call in progress
    result      \* what the last call returned

vars == <<wanted, entry, running, call, result>>

Called(kind, n, c) == [kind |-> kind, name |-> n, cfg |-> c]
NoCall == Called("none", None, None)

Init ==
    /\ wanted \in [Names -> Cfgs \cup {None}]
    /\ entry = [n \in Names |-> None]
    /\ running = {}
    /\ call = NoCall
    /\ result = "none"

Begins(c) ==
    /\ call = NoCall
    /\ call' = c
    /\ result' = "none"
    /\ UNCHANGED <<wanted, entry, running>>

\* Services are started once, into an empty registry; one name has one service; what is
\* removed or updated is there.
Begin ==
    \/ (\A n \in Names : entry[n] = None) /\ Begins(Called("start", None, None))
    \/ Begins(Called("shutdown", None, None))
    \/ \E n \in Names :
          \/ entry[n] = None /\ \E c \in Cfgs : Begins(Called("add", n, c))
          \/ entry[n] # None /\ Begins(Called("remove", n, None))
          \/ entry[n] # None /\ \E c \in Cfgs \ Rejected : Begins(Called("update", n, c))

\* A call that is refused has no effect.
Refuse ==
    /\ call = NoCall
    /\ result' = "error"
    /\ UNCHANGED <<wanted, entry, running, call>>

\* Only the call in progress stops a service, and only the one it names, or all.
GoesDown(n) ==
    /\ n \in running
    /\ \/ call.kind \in {"remove", "update"} /\ call.name = n
       \/ call.kind = "shutdown"
    /\ running' = running \ {n}
    /\ UNCHANGED <<wanted, entry, call, result>>

ComesUp(n) ==
    /\ call.kind = "start"
    /\ wanted[n] # None /\ entry[n] = None
    /\ entry' = [entry EXCEPT ![n] = wanted[n]]
    /\ running' = running \cup {n}
    /\ UNCHANGED <<wanted, call, result>>

Returns(r) ==
    /\ call' = NoCall
    /\ result' = r
    /\ UNCHANGED wanted

Succeeds ==
    /\ Returns("ok")
    /\ \/ /\ call.kind \in {"add", "update"}
          /\ entry' = [entry EXCEPT ![call.name] = call.cfg]
          /\ running' = running \cup {call.name}
       \/ /\ call.kind = "remove"
          /\ entry' = [entry EXCEPT ![call.name] = None]
          /\ running' = running \ {call.name}

\* An add that fails leaves nothing behind.  A remove or an update that fails has stopped
\* the service; the update may have lost it, never kept or changed its configuration half.
Fails ==
    /\ Returns("error")
    /\ \/ call.kind = "add" /\ UNCHANGED <<entry, running>>
       \/ /\ call.kind \in {"remove", "update"}
          /\ running' = running \ {call.name}
          /\ \/ UNCHANGED entry
             \/ call.kind = "update" /\ entry' = [entry EXCEPT ![call.name] = None]

\* "ok" means all of them, "partial" some, "error" that some are wanted and none is there.
StartEnds ==
    /\ call.kind = "start"
    /\ LET missing == {n \in Names : wanted[n] # None /\ entry[n] = None}
           there == {n \in Names : entry[n] # None}
       IN Returns(IF missing = {} THEN "ok" ELSE IF there # {} THEN "partial" ELSE "error")
    /\ UNCHANGED <<entry, running>>

\* An error of Shutdown says that a stop timed out, not that a service goes on.
ShutdownEnds ==
    /\ call.kind = "shutdown"
    /\ running = {}
    /\ Returns("ok") \/ Returns("error")
    /\ UNCHANGED <<entry, running>>

Next ==
    \/ Begin \/ Refuse \/ Succeeds \/ Fails \/ StartEnds \/ ShutdownEnds
    \/ \E n \in Names : GoesDown(n) \/ ComesUp(n)

Spec == Init /\ [][Next]_vars
=============================================================================
