---------------------------- MODULE PromiseProofs ----------------------------
(***************************************************************************)
(* The registry implements ServiceSet, step by step: each action of          *)
(* ServiceRegistry maps to a step of the abstract specification or to none,  *)
(* for every set of names and configurations and every number of instances.  *)
(* Who calls the operations, and when, is left open: RegistryProofs and      *)
(* AppPromiseProofs put the steps together for the two modules that do.      *)
(*                                                                         *)
(* Shape is what a caller's own invariant has to say of the registry.  PInv  *)
(* is what else the mapping needs, whoever calls; Tally, how the two         *)
(* booleans StartServices counts with relate to the map, holds only if that  *)
(* has begun with an empty registry.                                        *)
(***************************************************************************)
EXTENDS ServiceRegistry, TLAPS

\* One entry, one instance; what an operation has in hand at each step.
Shape ==
    /\ RegTypeOK
    /\ \A m, n \in Names : services[m] # Absent /\ services[m] = services[n] => m = n
    /\ op.at \notin {"idle", "each"} => op.name \in Names
    /\ op.at \in {"listen", "abandon", "handler", "discard", "giveup"} =>
          op.kind \in {"start", "add", "update"}
    /\ op.at = "stop" => op.inst # Absent /\ services[op.name] = op.inst
    /\ op.at = "handler" =>
          op.inst # Absent /\ \A n \in Names : n # op.name => services[n] # op.inst
    /\ op.kind = "shutdown" => \A n \in todo : services[n] # Absent

\* What is registered was made from a configuration.
EntriesMade == \A n \in Names : services[n] # Absent => conf[services[n]] \in Cfgs

\* The configuration an operation starts a service with.
Given ==
    /\ op.kind \in {"add", "update"} => op.cfg \in Cfgs
    /\ op.kind = "start" =>
          /\ todo \subseteq {n \in Names : config[n] # None}
          /\ op.at # "each" => op.cfg = config[op.name] /\ op.cfg \in Cfgs

\* What Shutdown has dealt with is not running.
ShutSoFar ==
    op.kind = "shutdown" =>
        \A n \in Names \ todo :
            services[n] = Absent \/ http[services[n]] \in {"stopped", "draining"}

PInv == EntriesMade /\ Given /\ ShutSoFar

\* What StartServices has counted so far: won, that some service is registered; lost, that
\* one it has dealt with is not.
Tally ==
    op.kind = "start" =>
        /\ \A n \in todo : services[n] = Absent
        /\ op.at # "each" => op.name \notin todo /\ services[op.name] = Absent
        /\ op.won <=> \E n \in Names : services[n] # Absent
        /\ op.lost <=> \E n \in Names :
              config[n] # None /\ services[n] = Absent /\ n \notin todo
              /\ ~(op.at # "each" /\ n = op.name)

Sim == Promised!Next \/ UNCHANGED Promised!vars

-----------------------------------------------------------------------------
(* The mapping. *)

USE TsAssumption, RegistryAssumption DEF Inst, Absent

\* An entry of the map is an entry of the set, with a configuration.
LEMMA EntryIsRegistered ==
    ASSUME Shape, PInv
    PROVE  /\ Entry \in [Names -> Cfgs \cup {None}]
           /\ \A n \in Names : Entry[n] = None <=> services[n] = Absent
<1>1. \A n \in Names : services[n] # Absent => conf[services[n]] \in Cfgs
  BY DEF PInv, EntriesMade
<1>. QED BY <1>1 DEF Entry, Shape, RegTypeOK

\* A step that changes neither the entries nor the call is none for the caller.
LEMMA QuietStep ==
    ASSUME Shape, PInv, UNCHANGED <<config, services, conf, todo, ret>>,
           op'.kind = op.kind, op'.name = op.name, op'.cfg = op.cfg,
           op'.won = op.won, op'.lost = op.lost, op'.at = "each" <=> op.at = "each",
           \A i \in Inst : http'[i] \in {"serving", "dead"} <=> http[i] \in {"serving", "dead"},
           \A i \in Inst : http[i] \in {"stopped", "draining"} => http'[i] \in {"stopped", "draining"}
    PROVE  PInv' /\ (Tally => Tally') /\ UNCHANGED Promised!vars
<1>1. PInv'
  BY DEF PInv, EntriesMade, Given, ShutSoFar, Shape, RegTypeOK
<1>2. Tally => Tally'
  BY DEF Tally
<1>3. Entry' = Entry /\ Call' = Call
  BY DEF Entry, Call
<1>4. Unstopped' = Unstopped
  BY DEF Unstopped, Shape, RegTypeOK
<1>. QED BY <1>1, <1>2, <1>3, <1>4 DEF Promised!vars

-----------------------------------------------------------------------------
(* The calls. *)

LEMMA StartServicesMaps ==
    ASSUME Shape, PInv, StartServices
    PROVE  PInv' /\ ((\A n \in Names : services[n] = Absent) => Tally' /\ Sim)
<1>1. /\ op = Idle /\ op' = Begun("start", "each", None, None, Absent) /\ ret' = "none"
      /\ todo' = {n \in Names : config[n] # None}
      /\ UNCHANGED <<config, services, http, conf>>
  BY DEF StartServices, Enter
<1>2. PInv'
  BY <1>1 DEF PInv, EntriesMade, Given, ShutSoFar, Begun
<1>3. ASSUME \A n \in Names : services[n] = Absent
      PROVE  Tally' /\ Sim
  <2>1. Tally'
    BY <1>1, <1>3 DEF Tally, Begun
  <2>2. Call = Promised!NoCall /\ Call' = Promised!Called("start", None, None)
    BY <1>1 DEF Call, Idle, Begun, Promised!NoCall, Promised!Called
  <2>3. Entry' = Entry /\ Unstopped' = Unstopped /\ \A n \in Names : Entry[n] = None
    BY <1>1, <1>3 DEF Entry, Unstopped
  <2>. QED BY <1>1, <2>1, <2>2, <2>3 DEF Sim, Promised!Next, Promised!Begin, Promised!Begins
<1>. QED BY <1>2, <1>3

LEMMA ChangeMaps ==
    ASSUME Shape, PInv, NEW n \in Names, NEW c \in Cfgs,
           AddService(n, c) \/ UpdateService(n, c)
    PROVE  PInv' /\ Tally' /\ Sim
<1>1. /\ op = Idle /\ op'.kind \in {"add", "update"} /\ ret' = "none"
      /\ op'.name = n /\ op'.cfg = c
      /\ op'.kind = "add" <=> services[n] = Absent
      /\ op'.kind = "update" => c \in Cfgs \ Rejected
      /\ UNCHANGED <<config, services, http, conf>>
  BY DEF AddService, UpdateService, Enter, Begun
<1>2. PInv' /\ Tally'
  BY <1>1 DEF PInv, EntriesMade, Given, ShutSoFar, Tally
<1>3. Call = Promised!NoCall /\ Call' = Promised!Called(op'.kind, n, op'.cfg)
  BY <1>1 DEF Call, Idle, Begun, Promised!NoCall, Promised!Called
<1>4. Entry' = Entry /\ Unstopped' = Unstopped
  BY <1>1 DEF Entry, Unstopped
<1>5. Promised!Begin
  BY <1>1, <1>3, <1>4, EntryIsRegistered DEF Promised!Begin, Promised!Begins
<1>. QED BY <1>2, <1>5 DEF Sim, Promised!Next

LEMMA RemoveServiceMaps ==
    ASSUME Shape, PInv, NEW n \in Names, RemoveService(n)
    PROVE  PInv' /\ Tally' /\ Sim
<1>1. /\ op = Idle /\ op' = Begun("remove", "stop", n, None, services[n]) /\ ret' = "none"
      /\ services[n] # Absent
      /\ UNCHANGED <<config, services, http, conf>>
  BY DEF RemoveService, Enter
<1>2. PInv' /\ Tally'
  BY <1>1 DEF PInv, EntriesMade, Given, ShutSoFar, Tally, Begun
<1>3. Call = Promised!NoCall /\ Call' = Promised!Called("remove", n, None)
  BY <1>1 DEF Call, Idle, Begun, Promised!NoCall, Promised!Called
<1>4. Entry' = Entry /\ Unstopped' = Unstopped
  BY <1>1 DEF Entry, Unstopped
<1>5. Promised!Begin
  BY <1>1, <1>3, <1>4, EntryIsRegistered DEF Promised!Begin, Promised!Begins
<1>. QED BY <1>2, <1>5 DEF Sim, Promised!Next

LEMMA RefuseMaps ==
    ASSUME Shape, PInv, Refuse
    PROVE  PInv' /\ Tally' /\ Sim
<1>1. op = Idle /\ ret' = "error" /\ UNCHANGED <<config, services, http, conf, op, todo>>
  BY DEF Refuse
<1>2. PInv' /\ Tally'
  BY <1>1 DEF PInv, EntriesMade, Given, ShutSoFar, Tally, Idle, Begun
<1>3. Entry' = Entry /\ Unstopped' = Unstopped /\ Call' = Call /\ Call = Promised!NoCall
  BY <1>1 DEF Entry, Unstopped, Call, Idle, Begun, Promised!NoCall, Promised!Called
<1>. QED BY <1>1, <1>2, <1>3 DEF Sim, Promised!Next, Promised!Refuse

LEMMA ShutdownMaps ==
    ASSUME Shape, PInv, Shutdown
    PROVE  PInv' /\ Tally' /\ Sim
<1>1. /\ op = Idle /\ op' = Begun("shutdown", "each", None, None, Absent) /\ ret' = "none"
      /\ todo' = Registered(services)
      /\ UNCHANGED <<config, services, http, conf>>
  BY DEF Shutdown, Enter
<1>2. PInv' /\ Tally'
  BY <1>1 DEF PInv, EntriesMade, Given, ShutSoFar, Tally, Registered, Begun
<1>3. Call = Promised!NoCall /\ Call' = Promised!Called("shutdown", None, None)
  BY <1>1 DEF Call, Idle, Begun, Promised!NoCall, Promised!Called
<1>4. Entry' = Entry /\ Unstopped' = Unstopped
  BY <1>1 DEF Entry, Unstopped
<1>. QED BY <1>1, <1>2, <1>3, <1>4 DEF Sim, Promised!Next, Promised!Begin, Promised!Begins

-----------------------------------------------------------------------------
(* Stopping. *)

\* server.Shutdown of one registered service, whatever it returns: it is not running.
LEMMA StopMaps ==
    ASSUME Shape, NEW n \in Names, services[n] # Absent,
           UNCHANGED <<config, services, conf>>,
           http' = [http EXCEPT ![services[n]] = "stopped"]
             \/ http' = [http EXCEPT ![services[n]] = "draining"]
    PROVE  /\ Unstopped' = Unstopped \ {n} /\ Entry' = Entry
           /\ http'[services[n]] \in {"stopped", "draining"}
           /\ \A m \in Names \ {n} : services[m] # Absent => http'[services[m]] = http[services[m]]
<1>1. http \in [Inst -> HttpStates] /\ services \in [Names -> Inst \cup {Absent}]
  BY DEF Shape, RegTypeOK
<1>2. \A m \in Names : m # n => services[m] # services[n]
  BY DEF Shape
<1>3. /\ http'[services[n]] \in {"stopped", "draining"}
      /\ \A i \in Inst : i # services[n] => http'[i] = http[i]
  BY <1>1
<1>4. Unstopped' = Unstopped \ {n}
  BY <1>1, <1>2, <1>3 DEF Unstopped
<1>. QED BY <1>1, <1>2, <1>3, <1>4 DEF Entry

LEMMA StoppedMaps ==
    ASSUME Shape, PInv, Stopped
    PROVE  PInv' /\ Tally' /\ Sim
<1>1. /\ op.kind \in {"remove", "update"} /\ op.name \in Names
      /\ services[op.name] # Absent /\ services[op.name] = op.inst
      /\ UNCHANGED <<config, services, conf, ret>>
      /\ http' = [http EXCEPT ![op.inst] = "stopped"]
  BY DEF Stopped, At, StopSucceeds, Shape
<1>2. op'.kind = op.kind /\ op'.name = op.name /\ op'.cfg = op.cfg
  BY DEF Stopped, Shape, RegTypeOK, Ops
<1>3. Unstopped' = Unstopped \ {op.name} /\ Entry' = Entry
  BY <1>1, StopMaps
<1>4. PInv' /\ Tally' /\ Call' = Call /\ Call.kind = op.kind /\ Call.name = op.name
  BY <1>1, <1>2 DEF PInv, EntriesMade, Given, ShutSoFar, Tally, Call
<1>5. CASE op.name \in Unstopped
  BY <1>1, <1>3, <1>4, <1>5 DEF Sim, Promised!Next, Promised!GoesDown
<1>6. CASE op.name \notin Unstopped
  BY <1>1, <1>3, <1>4, <1>6 DEF Sim, Promised!vars
<1>. QED BY <1>4, <1>5, <1>6

LEMMA NotStoppedMaps ==
    ASSUME Shape, PInv, NotStopped
    PROVE  PInv' /\ Tally' /\ Sim
<1>1. /\ op.kind \in {"remove", "update"} /\ op.name \in Names
      /\ services[op.name] # Absent /\ services[op.name] = op.inst
      /\ UNCHANGED <<config, services, conf>> /\ op' = Idle /\ ret' = "error"
      /\ http' = [http EXCEPT ![op.inst] = "draining"]
  BY DEF NotStopped, At, StopTimesOut, Return, Shape
<1>2. Unstopped' = Unstopped \ {op.name} /\ Entry' = Entry
  BY <1>1, StopMaps
<1>3. PInv' /\ Tally'
  BY <1>1 DEF PInv, EntriesMade, Given, ShutSoFar, Tally, Idle, Begun
<1>4. Call' = Promised!NoCall /\ Call.kind = op.kind /\ Call.name = op.name
  BY <1>1 DEF Call, Idle, Begun, Promised!NoCall, Promised!Called
<1>5. Promised!Fails
  BY <1>1, <1>2, <1>4 DEF Promised!Fails, Promised!Returns
<1>. QED BY <1>3, <1>5 DEF Sim, Promised!Next

LEMMA ShutdownStopsMaps ==
    ASSUME Shape, PInv, NEW n \in Names, ShutdownStops(n)
    PROVE  PInv' /\ Tally' /\ Sim
<1>1. /\ op.kind = "shutdown" /\ services[n] # Absent /\ todo' = todo \ {n}
      /\ UNCHANGED <<config, services, conf, ret>>
      /\ \/ http' = [http EXCEPT ![services[n]] = "stopped"]
         \/ http' = [http EXCEPT ![services[n]] = "draining"]
  BY DEF ShutdownStops, At, StopSucceeds, StopTimesOut, Shape
<1>2. op'.kind = op.kind /\ op'.name = op.name /\ op'.cfg = op.cfg
  BY DEF ShutdownStops, Shape, RegTypeOK, Ops
<1>3. Unstopped' = Unstopped \ {n} /\ Entry' = Entry
  BY <1>1, StopMaps
<1>4. PInv' /\ Tally'
  BY <1>1, <1>2, StopMaps DEF PInv, EntriesMade, Given, ShutSoFar, Tally
<1>5. Call' = Call /\ Call.kind = op.kind
  BY <1>1, <1>2 DEF Call
<1>6. CASE n \in Unstopped
  BY <1>1, <1>3, <1>4, <1>5, <1>6 DEF Sim, Promised!Next, Promised!GoesDown
<1>7. CASE n \notin Unstopped
  BY <1>1, <1>3, <1>4, <1>5, <1>7 DEF Sim, Promised!vars
<1>. QED BY <1>6, <1>7

LEMMA ShutdownReturnsMaps ==
    ASSUME Shape, PInv, ShutdownReturns
    PROVE  PInv' /\ Tally' /\ Sim
<1>1. /\ op.kind = "shutdown" /\ todo = {} /\ op' = Idle /\ ret' \in {"ok", "error"}
      /\ UNCHANGED <<config, services, conf, http>>
  BY DEF ShutdownReturns, At, Return
<1>2. Unstopped = {}
  BY <1>1 DEF Unstopped, PInv, ShutSoFar
<1>3. PInv' /\ Tally'
  BY <1>1 DEF PInv, EntriesMade, Given, ShutSoFar, Tally, Idle, Begun
<1>4. Call' = Promised!NoCall /\ Call.kind = op.kind
  BY <1>1 DEF Call, Idle, Begun, Promised!NoCall, Promised!Called
<1>5. Entry' = Entry /\ Unstopped' = Unstopped
  BY <1>1 DEF Entry, Unstopped
<1>6. Promised!ShutdownEnds
  BY <1>1, <1>2, <1>4, <1>5 DEF Promised!ShutdownEnds, Promised!Returns
<1>. QED BY <1>3, <1>6 DEF Sim, Promised!Next

\* The node's part of a remove or an update is nothing the caller sees.
LEMMA NodeStepMaps ==
    ASSUME Shape, PInv, CloseNode \/ OldClosed \/ Listening \/ NotListening \/ HandlerFails
    PROVE  PInv' /\ (Tally => Tally') /\ Sim
<1>1. /\ UNCHANGED <<config, services, conf, todo, ret, http>>
      /\ op.at # "each" /\ op'.at # "each"
      /\ op'.kind = op.kind /\ op'.name = op.name /\ op'.cfg = op.cfg
      /\ op'.won = op.won /\ op'.lost = op.lost
  <2>1. op \in Ops
    BY DEF Shape, RegTypeOK
  <2>2. CASE CloseNode
    BY <2>1, <2>2 DEF CloseNode, At, Ops
  <2>3. CASE OldClosed
    BY <2>1, <2>3 DEF OldClosed, At, Ops
  <2>4. CASE Listening
    BY <2>1, <2>4 DEF Listening, Ops
  <2>5. CASE NotListening
    BY <2>1, <2>5 DEF NotListening, Ops
  <2>6. CASE HandlerFails
    BY <2>1, <2>6 DEF HandlerFails, Ops
  <2>. QED BY <2>2, <2>3, <2>4, <2>5, <2>6
<1>. QED BY <1>1, QuietStep DEF Sim

LEMMA RemovedMaps ==
    ASSUME Shape, PInv, Removed
    PROVE  PInv' /\ Tally' /\ Sim
<1>1. /\ op.kind = "remove" /\ op.name \in Names /\ op' = Idle /\ ret' = "ok"
      /\ services' = [services EXCEPT ![op.name] = Absent]
      /\ UNCHANGED <<config, conf, http>>
  BY DEF Removed, At, Return, Shape
<1>2. services \in [Names -> Inst \cup {Absent}]
  BY DEF Shape, RegTypeOK
<1>3. PInv' /\ Tally'
  BY <1>1, <1>2 DEF PInv, EntriesMade, Given, ShutSoFar, Tally, Idle, Begun
<1>4. Call' = Promised!NoCall /\ Call.kind = op.kind /\ Call.name = op.name
  BY <1>1 DEF Call, Idle, Begun, Promised!NoCall, Promised!Called
<1>5. Entry' = [Entry EXCEPT ![op.name] = None] /\ Unstopped' = Unstopped \ {op.name}
  BY <1>1, <1>2 DEF Entry, Unstopped
<1>6. Promised!Succeeds
  BY <1>1, <1>4, <1>5 DEF Promised!Succeeds, Promised!Returns
<1>. QED BY <1>3, <1>6 DEF Sim, Promised!Next

-----------------------------------------------------------------------------
(* Starting. *)

LEMMA StartNextMaps ==
    ASSUME Shape, PInv, NEW n \in Names, StartNext(n)
    PROVE  PInv' /\ (Tally => Tally') /\ Sim
<1>1. /\ op.kind = "start" /\ op.at = "each" /\ n \in todo /\ todo' = todo \ {n}
      /\ UNCHANGED <<config, services, http, conf, ret>>
  BY DEF StartNext, At
<1>2. /\ op'.kind = "start" /\ op'.at = "listen" /\ op'.name = n /\ op'.cfg = config[n]
      /\ op'.won = op.won /\ op'.lost = op.lost
  BY <1>1 DEF StartNext, Shape, RegTypeOK, Ops
<1>3. config[n] # None /\ config[n] \in Cfgs
  BY <1>1 DEF PInv, Given, Shape, RegTypeOK
<1>4. todo' \subseteq {m \in Names : config'[m] # None}
  BY <1>1 DEF PInv, Given
<1>5. PInv'
  BY <1>1, <1>2, <1>3, <1>4 DEF PInv, EntriesMade, Given, ShutSoFar
<1>6. \A m \in Names : (m \notin todo' /\ ~(op'.at # "each" /\ m = op'.name))
                         <=> (m \notin todo /\ ~(op.at # "each" /\ m = op.name))
  BY <1>1, <1>2
<1>7. Tally => Tally'
  BY <1>1, <1>2, <1>6 DEF Tally
<1>8. Entry' = Entry /\ Unstopped' = Unstopped /\ Call' = Call
  BY <1>1, <1>2 DEF Entry, Unstopped, Call
<1>. QED BY <1>1, <1>5, <1>7, <1>8 DEF Sim, Promised!vars

\* The service is stored: what the set holds under its name now, and that it runs.
LEMMA StoredMaps ==
    ASSUME Shape, PInv, Serves
    PROVE  /\ Entry' = [Entry EXCEPT ![op.name] = op.cfg]
           /\ Unstopped' = Unstopped \cup {op.name}
           /\ EntriesMade' /\ UNCHANGED <<config, todo>>
           /\ services' = [services EXCEPT ![op.name] = op.inst]
           /\ op.name \in Names /\ op.inst # Absent /\ op.kind \in {"start", "add", "update"}
           /\ op.cfg \in Cfgs /\ op.at = "handler"
<1>1. /\ op.at = "handler" /\ op.name \in Names /\ op.inst \in Inst
      /\ op.kind \in {"start", "add", "update"}
      /\ http' = [http EXCEPT ![op.inst] = "serving"]
      /\ conf' = [conf EXCEPT ![op.inst] = op.cfg]
      /\ services' = [services EXCEPT ![op.name] = op.inst]
      /\ UNCHANGED <<config, todo>>
  BY DEF Serves, Shape, RegTypeOK, Ops
<1>2. /\ http \in [Inst -> HttpStates] /\ conf \in [Inst -> Cfgs \cup {None}]
      /\ services \in [Names -> Inst \cup {Absent}]
  BY DEF Shape, RegTypeOK
<1>3. \A n \in Names : n # op.name => services[n] # op.inst
  BY <1>1 DEF Shape
<1>4. op.cfg \in Cfgs
  BY <1>1 DEF PInv, Given
<1>5. /\ services'[op.name] = op.inst /\ conf'[op.inst] = op.cfg /\ http'[op.inst] = "serving"
      /\ \A n \in Names : n # op.name =>
            /\ services'[n] = services[n]
            /\ services[n] # Absent => /\ conf'[services[n]] = conf[services[n]]
                                       /\ http'[services[n]] = http[services[n]]
  BY <1>1, <1>2, <1>3
<1>6. Entry' = [Entry EXCEPT ![op.name] = op.cfg]
  <2>1. \A n \in Names : Entry'[n] = IF n = op.name THEN op.cfg ELSE Entry[n]
    BY <1>1, <1>5 DEF Entry
  <2>. QED BY <2>1 DEF Entry
<1>7. Unstopped' = Unstopped \cup {op.name}
  BY <1>1, <1>5 DEF Unstopped
<1>8. EntriesMade'
  BY <1>1, <1>4, <1>5 DEF PInv, EntriesMade
<1>. QED BY <1>1, <1>4, <1>6, <1>7, <1>8

LEMMA ServesMaps ==
    ASSUME Shape, PInv, Serves
    PROVE  PInv' /\ (Tally => Tally' /\ Sim)
<1>1. CASE op.kind = "start"
  <2>1. /\ op' = [Begun("start", "each", None, None, Absent) EXCEPT !.won = TRUE, !.lost = op.lost]
        /\ UNCHANGED ret /\ op.at = "handler"
    BY <1>1 DEF Serves
  <2>2. op'.kind = "start" /\ op'.at = "each" /\ op'.won = TRUE /\ op'.lost = op.lost
    BY <2>1 DEF Begun
  <2>3. PInv'
    BY <1>1, <2>2, StoredMaps DEF PInv, Given, ShutSoFar
  <2>4. ASSUME Tally
        PROVE  Tally' /\ Sim
    <3>1. /\ config[op.name] = op.cfg /\ op.cfg # None /\ op.name \notin todo
          /\ services[op.name] = Absent
      BY <1>1, <2>1, <2>4, StoredMaps DEF PInv, Given, Tally
    <3>2. /\ services'[op.name] # Absent
          /\ \A n \in Names : n # op.name => services'[n] = services[n]
      BY StoredMaps DEF Shape, RegTypeOK
    <3>3. todo \subseteq Names
      BY DEF Shape, RegTypeOK
    <3>4. Tally'
      BY <1>1, <2>1, <2>2, <2>4, <3>1, <3>2, <3>3, StoredMaps DEF Tally
    <3>5. Call' = Call /\ Call.kind = "start"
      BY <1>1, <2>2 DEF Call
    <3>6. Entry[op.name] = None
      BY <3>1, StoredMaps DEF Entry
    <3>7. Promised!ComesUp(op.name)
      BY <2>1, <3>1, <3>5, <3>6, StoredMaps DEF Promised!ComesUp
    <3>. QED BY <3>4, <3>7, StoredMaps DEF Sim, Promised!Next
  <2>. QED BY <2>3, <2>4
<1>2. CASE op.kind # "start"
  <2>1. op' = Idle /\ ret' = "ok" /\ op.kind \in {"add", "update"}
    BY <1>2, StoredMaps DEF Serves, Return
  <2>2. PInv' /\ Tally'
    BY <2>1, StoredMaps DEF PInv, Given, ShutSoFar, Tally, Idle, Begun
  <2>3. /\ Call' = Promised!NoCall
        /\ Call.kind = op.kind /\ Call.name = op.name /\ Call.cfg = op.cfg
    BY <2>1 DEF Call, Idle, Begun, Promised!NoCall, Promised!Called
  <2>4. Promised!Succeeds
    BY <2>1, <2>3, StoredMaps DEF Promised!Succeeds, Promised!Returns
  <2>. QED BY <2>2, <2>4 DEF Sim, Promised!Next
<1>. QED BY <1>1, <1>2

\* startService has failed; an update finds the old service stopped.
LEMMA StartFailedMaps ==
    ASSUME Shape, PInv, StartFailed, op.at \in {"listen", "abandon", "giveup"},
           UNCHANGED <<config, conf, http, todo>>
    PROVE  PInv' /\ (Tally => Tally') /\ Sim
<1>1. op.kind \in {"start", "add", "update"} /\ op.name \in Names
  BY DEF Shape
<1>2. CASE op.kind = "start"
  <2>1. /\ op' = [Begun("start", "each", None, None, Absent) EXCEPT !.won = op.won, !.lost = TRUE]
        /\ UNCHANGED <<services, ret>>
    BY <1>2 DEF StartFailed
  <2>2. op'.kind = "start" /\ op'.at = "each" /\ op'.won = op.won /\ op'.lost = TRUE
    BY <2>1 DEF Begun
  <2>3. PInv'
    BY <1>2, <2>1, <2>2 DEF PInv, EntriesMade, Given, ShutSoFar
  <2>4. ASSUME Tally
        PROVE  Tally'
    <3>1. config[op.name] # None /\ op.name \notin todo /\ services[op.name] = Absent
      BY <1>1, <1>2, <2>4 DEF PInv, Given, Tally
    <3>. QED BY <1>1, <1>2, <2>1, <2>2, <2>4, <3>1 DEF Tally
  <2>5. Call' = Call /\ Entry' = Entry /\ Unstopped' = Unstopped
    BY <1>2, <2>1, <2>2 DEF Call, Entry, Unstopped
  <2>. QED BY <2>1, <2>3, <2>4, <2>5 DEF Sim, Promised!vars
<1>3. CASE op.kind \in {"add", "update"}
  <2>1. /\ op' = Idle /\ ret' = "error"
        /\ services' = IF op.kind = "update" THEN [services EXCEPT ![op.name] = Absent]
                       ELSE services
    BY <1>3 DEF StartFailed, Return
  <2>2. services \in [Names -> Inst \cup {Absent}]
    BY DEF Shape, RegTypeOK
  <2>3. PInv' /\ Tally'
    BY <1>3, <2>1, <2>2 DEF PInv, EntriesMade, Given, ShutSoFar, Tally, Idle, Begun
  <2>4. Call' = Promised!NoCall /\ Call.kind = op.kind /\ Call.name = op.name
    BY <1>3, <2>1 DEF Call, Idle, Begun, Promised!NoCall, Promised!Called
  <2>5. CASE op.kind = "add"
    BY <2>1, <2>3, <2>4, <2>5 DEF Sim, Promised!Next, Promised!Fails, Promised!Returns,
          Entry, Unstopped
  <2>6. CASE op.kind = "update"
    <3>1. Entry' = [Entry EXCEPT ![op.name] = None] /\ Unstopped' = Unstopped \ {op.name}
      BY <1>1, <2>1, <2>2, <2>6 DEF Entry, Unstopped
    <3>. QED BY <2>1, <2>3, <2>4, <2>6, <3>1 DEF Sim, Promised!Next, Promised!Fails,
               Promised!Returns
  <2>. QED BY <1>3, <2>3, <2>5, <2>6
<1>. QED BY <1>1, <1>2, <1>3

\* The two booleans say how much of the configuration is there.
LEMMA StartReturnsMaps ==
    ASSUME Shape, PInv, StartReturns
    PROVE  PInv' /\ Tally' /\ (Tally => Sim)
<1>1. /\ op.kind = "start" /\ op.at = "each" /\ todo = {} /\ op' = Idle
      /\ ret' = (IF ~op.lost THEN "ok" ELSE IF op.won THEN "partial" ELSE "error")
      /\ UNCHANGED <<config, services, conf, http>>
  BY DEF StartReturns, At, Return
<1>2. PInv' /\ Tally'
  BY <1>1 DEF PInv, EntriesMade, Given, ShutSoFar, Tally, Idle, Begun
<1>3. ASSUME Tally
      PROVE  Sim
  <2>. DEFINE missing == {n \in Names : config[n] # None /\ Entry[n] = None}
              there == {n \in Names : Entry[n] # None}
  <2>1. op.lost <=> missing # {}
    <3>1. op.lost <=> \E n \in Names : config[n] # None /\ services[n] = Absent
      BY <1>1, <1>3 DEF Tally
    <3>. QED BY <3>1, EntryIsRegistered
  <2>2. op.won <=> there # {}
    <3>1. op.won <=> \E n \in Names : services[n] # Absent
      BY <1>1, <1>3 DEF Tally
    <3>. QED BY <3>1, EntryIsRegistered
  <2>3. ret' = (IF missing = {} THEN "ok" ELSE IF there # {} THEN "partial" ELSE "error")
    BY <1>1, <2>1, <2>2
  <2>4. Entry' = Entry /\ Unstopped' = Unstopped
    BY <1>1 DEF Entry, Unstopped
  <2>5. Call' = Promised!NoCall /\ Call.kind = "start"
    BY <1>1 DEF Call, Idle, Begun, Promised!NoCall, Promised!Called
  <2>6. Promised!StartEnds
    BY <1>1, <2>3, <2>4, <2>5 DEF Promised!StartEnds, Promised!Returns
  <2>. QED BY <2>6 DEF Sim, Promised!Next
<1>. QED BY <1>2, <1>3

-----------------------------------------------------------------------------
(* All the steps of the operation in hand, and what happens without it. *)

LEMMA InitMaps ==
    ASSUME RegInit
    PROVE  PInv /\ Tally /\ Promised!Init
<1>1. PInv /\ Tally
  BY DEF RegInit, PInv, EntriesMade, Given, ShutSoFar, Tally, Idle, Begun
<1>2. Entry = [n \in Names |-> None] /\ Unstopped = {} /\ Call = Promised!NoCall
  BY DEF RegInit, Entry, Unstopped, Call, Idle, Begun, Promised!NoCall, Promised!Called
<1>. QED BY <1>1, <1>2 DEF RegInit, Promised!Init

LEMMA InnerStepMaps ==
    ASSUME Shape, PInv, InnerStep
    PROVE  PInv' /\ (Tally => Tally' /\ Sim)
<1>1. CASE Stopped \/ NotStopped \/ CloseNode \/ Removed \/ OldClosed
  BY <1>1, StoppedMaps, NotStoppedMaps, NodeStepMaps, RemovedMaps
<1>2. CASE Listening \/ NotListening \/ HandlerFails \/ Serves
  BY <1>2, NodeStepMaps, ServesMaps
<1>3. CASE NotAuthorized \/ Abandoned \/ GaveUp
  BY <1>3, StartFailedMaps DEF NotAuthorized, Abandoned, GaveUp
<1>4. CASE \E n \in Names : StartNext(n) \/ ShutdownStops(n)
  BY <1>4, StartNextMaps, ShutdownStopsMaps
<1>. QED BY <1>1, <1>2, <1>3, <1>4 DEF InnerStep

\* A Close goroutine or a Serve goroutine returns.
LEMMA ElsewhereMaps ==
    ASSUME Shape, PInv, NEW i \in Inst, NodeClosed(i) \/ ServeFails(i)
    PROVE  PInv' /\ (Tally => Tally') /\ Sim
<1>1. /\ UNCHANGED <<config, services, conf, op, todo, ret>>
      /\ \/ UNCHANGED http
         \/ http[i] = "serving" /\ http' = [http EXCEPT ![i] = "dead"]
  BY DEF NodeClosed, ServeFails, regVars
<1>2. http \in [Inst -> HttpStates]
  BY DEF Shape, RegTypeOK
<1>. QED BY <1>1, <1>2, QuietStep DEF Sim
=============================================================================
