---------------------------- MODULE RegistryProofs ----------------------------
(***************************************************************************)
(* The safety properties of OrderlyRegistry, for every set of names and     *)
(* configurations and every number of instances.                           *)
(*                                                                         *)
(* None of them is inductive: that a handler is closed once depends on which *)
(* entries of r.services may already be stopped at each step of each         *)
(* operation, that no node leaks on how the two maps differ at that step.    *)
(* IInv says both, and what each step of an operation may rely on.          *)
(***************************************************************************)
EXTENDS OrderlyRegistry, PromiseProofs, FiniteSetTheorems

\* The steps between the stop of the old service and the return, and those at which the
\* two maps may differ for the service in hand.
Replacing == {"close", "wait", "listen", "abandon", "handler", "discard", "giveup"}
Starting == {"listen", "abandon", "handler", "discard", "giveup"}

\* Which steps each operation takes, and what it has in hand at each.
OpShape ==
    /\ op.kind = "none" <=> op.at = "idle"
    /\ op.kind = "none" => op = Idle
    /\ op.kind = "shutdown" => op.at = "each"
    /\ op.kind = "start" => op.at \in Starting \cup {"each"}
    /\ op.kind = "add" => op.at \in Starting
    /\ op.kind = "remove" => op.at \in {"stop", "close", "wait"}
    /\ op.kind = "update" => op.at \in Replacing \cup {"stop"} /\ op.cfg \in (Cfgs \ Rejected)
    /\ op.at \in Replacing \cup {"stop"} => op.name \in Names
    /\ op.at = "stop" => op.inst # Absent /\ services[op.name] = op.inst
                         /\ http[op.inst] # "stopped"
    /\ op.at \in {"handler", "discard"} =>
          op.inst # Absent /\ servers[op.name] = op.inst /\ http[op.inst] = "none"
    /\ op.at \in {"wait", "abandon", "giveup"} /\ op.inst # Absent => owner[op.inst] = op.name

\* How far the owner is, and what that says of the rest.
PhaseShape ==
    /\ phase = "new" => op.kind = "none" /\ \A n \in Names : services[n] = Absent
    /\ op.kind = "shutdown" <=> phase = "stopping" /\ op.kind # "none"
    /\ phase = "closing" => op.kind = "none" /\ \A n \in Names : servers[n] = Absent
    /\ phase \in {"stopping", "closing"} /\ op.kind = "none" =>
          \A i \in Inst : http[i] # "serving"
    /\ doomed # {} => phase = "closing"

\* An instance not made yet has nothing, one made has its service.
Fresh ==
    \A i \in Inst :
        /\ i > made => node[i] = "none"
        /\ node[i] = "none" => http[i] = "none"
        /\ node[i] # "none" => owner[i] \in Names

\* What an entry of either map stands for.
Entries ==
    \A n \in Names :
        /\ servers[n] # Absent => owner[servers[n]] = n /\ node[servers[n]] = "up"
        /\ services[n] # Absent => owner[services[n]] = n /\ http[services[n]] # "none"

\* The two maps agree but for the service in hand.
Agreement ==
    \A n \in Names :
        \/ servers[n] = services[n]
        \/ servers[n] = Absent /\ phase = "closing"
        \/ servers[n] = Absent /\ op.at \in {"wait", "listen", "abandon", "giveup"} /\ op.name = n
        \/ op.at \in {"handler", "discard"} /\ op.name = n

\* The node of the service in hand is out of the map before a new one is made.
NoneInMap ==
    op.at \in {"wait", "listen", "abandon", "giveup"} => servers[op.name] = Absent

\* A handler is closed when its server is stopped, and only then.
ClosedOnce ==
    /\ ~panicked
    /\ \A i \in Inst : i \in released <=> http[i] = "stopped"

\* Which entries of the registry may be stopped.
StoppedEntries ==
    \A n \in Names : services[n] # Absent /\ http[services[n]] = "stopped" =>
        \/ op.kind \in {"remove", "update"} /\ op.at \in Replacing /\ op.name = n
        \/ op.kind = "shutdown" /\ n \notin todo
        \/ op.kind = "none" /\ phase \in {"stopping", "closing"}

\* What startService overwrites: nothing, or a service that has been stopped.
Overwritten ==
    /\ op.at \in Replacing =>
          services[op.name] = Absent \/ http[services[op.name]] = "stopped"
    /\ op.kind = "add" => services[op.name] = Absent
    /\ op.kind = "update" => services[op.name] # Absent
    /\ op.kind = "start" =>
          /\ \A n \in todo : services[n] = Absent
          /\ op.at # "each" => op.name \notin todo /\ services[op.name] = Absent

\* What Shutdown has done so far.
ShutDown ==
    op.kind = "shutdown" =>
        \A n \in Names :
            IF n \in todo THEN services[n] # Absent
            ELSE services[n] = Absent \/ http[services[n]] \in {"stopped", "draining"}

\* Who waits for a node that is closing; Close takes one node of each service.
Closers ==
    /\ \A i \in Inst : node[i] = "closing" =>
          i \in doomed \/ (op.at \in {"wait", "abandon", "giveup"} /\ op.inst = i)
    /\ \A i, j \in doomed : owner[i] = owner[j] => i = j

\* The gauge, outside StartServices, which sets it at its end.
Counted == Metrics /\ op.kind # "start" => gauge = Cardinality(Registered(services))

IInv ==
    /\ TypeOK /\ OpShape /\ PhaseShape /\ Fresh /\ Entries /\ Agreement /\ NoneInMap
    /\ ClosedOnce /\ StoppedEntries /\ Overwritten /\ ShutDown /\ Closers /\ Counted
    /\ NoOrphan /\ NoNodeLeak
-----------------------------------------------------------------------------
(* The steps, one lemma for each: what the action does, then the parts of IInv. *)

USE TsAssumption, RegistryAssumption DEF Inst, Absent

\* len(r.services) is a number.
LEMMA CountIsNat ==
    \A svcs \in [Names -> Inst \cup {Absent}] : Cardinality(Registered(svcs)) \in Nat
<1>1. SUFFICES ASSUME NEW svcs \in [Names -> Inst \cup {Absent}]
               PROVE  Cardinality(Registered(svcs)) \in Nat
  OBVIOUS
<1>2. IsFiniteSet(Registered(svcs))
  BY FS_Subset DEF Registered
<1>. QED BY <1>2, FS_CardinalityType

\* The operation that StartServices is between two services.
LEMMA BetweenStarts ==
    ASSUME NEW w \in BOOLEAN, NEW l \in BOOLEAN, NEW o,
           o = [Begun("start", "each", None, None, Absent) EXCEPT !.won = w, !.lost = l]
    PROVE  o \in Ops /\ o.kind = "start" /\ o.at = "each"
<1>1. o.kind = "start" /\ o.at = "each"
  BY DEF Begun
<1>2. o = [kind |-> "start", at |-> "each", name |-> None, cfg |-> None, inst |-> 0,
           won |-> w, lost |-> l]
  BY DEF Begun
<1>3. [kind |-> "start", at |-> "each", name |-> None, cfg |-> None, inst |-> 0,
       won |-> w, lost |-> l] \in Ops
  BY DEF Ops, Kinds, Steps
<1>4. o \in Ops
  BY <1>2, <1>3, Zenon
<1>. QED BY <1>1, <1>4, Zenon

\* No operation is one of the operations.
LEMMA IdleIsOp == Idle \in Ops /\ Idle.kind = "none" /\ Idle.at = "idle"
  BY DEF Idle, Begun, Ops, Kinds, Steps

\* A wait for a node ends: it was closed, or is overdue now.
LEMMA WaitEnded ==
    ASSUME TypeOK, Waited
    PROVE  /\ node' \in [Inst -> NodeStates] /\ UNCHANGED <<servers, owner, made, doomed>>
           /\ \A i \in Inst : \/ node'[i] = node[i] /\ (i = op.inst => node[i] = "closed")
                              \/ node[i] = "closing" /\ node'[i] = "overdue"
<1>1. op.inst \in Inst \cup {Absent} /\ node \in [Inst -> NodeStates]
  BY DEF TypeOK, RegTypeOK, TsTypeOK, Ops
<1>. QED BY <1>1 DEF Waited, WaitEnds, NodeStates

\* What the caller of startService does with its error.
LEMMA StartHasFailed ==
    ASSUME TypeOK, op.kind \in {"start", "add", "update"}, StartFailed
    PROVE  /\ \/ op.kind = "start" /\ op' \in Ops /\ op'.kind = "start" /\ op'.at = "each"
              \/ op.kind # "start" /\ op' \in Ops /\ op' = Idle
                 /\ op'.kind = "none" /\ op'.at = "idle"
           /\ services' = IF op.kind = "update" THEN [services EXCEPT ![op.name] = Absent]
                          ELSE services
           /\ gauge' = IF op.kind = "update" /\ Metrics THEN Cardinality(Registered(services'))
                       ELSE gauge
           /\ ret' \in {"none", "ok", "partial", "error"}
<1>1. op.won \in BOOLEAN /\ op.lost \in BOOLEAN /\ ret \in {"none", "ok", "partial", "error"}
  BY DEF TypeOK, RegTypeOK, Ops
<1>2. CASE op.kind = "start"
  <2>1. op' = [Begun("start", "each", None, None, Absent) EXCEPT !.won = op.won, !.lost = TRUE]
        /\ UNCHANGED <<services, gauge, ret>>
    BY <1>2 DEF StartFailed
  <2>. QED BY <1>1, <1>2, <2>1, BetweenStarts
<1>3. CASE op.kind # "start"
  BY <1>3, IdleIsOp DEF StartFailed, Return, SetActive
<1>. QED BY <1>2, <1>3

\* StartServices, the first call: nothing is registered yet.
LEMMA StartServicesStep ==
    ASSUME IInv, StartServices, phase = "new", phase' = "running"
    PROVE  IInv'
<1>1. /\ TypeOK /\ op.kind = "none" /\ op.at = "idle"
      /\ \A n \in Names : services[n] = Absent
  BY DEF IInv, StartServices, Enter, Idle, Begun, PhaseShape
<1>2. /\ op' \in Ops /\ op'.kind = "start" /\ op'.at = "each"
      /\ op'.name = None /\ op'.cfg = None /\ op'.inst = Absent
  BY DEF StartServices, Enter, Begun, Idle, IInv, Ops, Kinds, Steps,
        TypeOK, RegTypeOK, TsTypeOK
<1>3. /\ todo' = {n \in Names : config[n] # None} /\ ret' = "none"
      /\ UNCHANGED <<servers, owner, node, made, doomed>>
      /\ UNCHANGED <<config, services, http, conf, released, panicked, gauge>>
  BY DEF StartServices, Enter, tsVars
<1>. USE <1>1, <1>2, <1>3 DEF IInv, TypeOK, RegTypeOK, TsTypeOK
<1>4. TypeOK'
  BY DEF HttpStates, NodeStates, Phases
<1>5. OpShape' /\ PhaseShape'
  BY DEF OpShape, Replacing, Starting, Idle, Begun, Ops, Kinds, Steps, PhaseShape
<1>6. Fresh' /\ Entries'
  BY DEF Fresh, Entries
<1>7. Agreement' /\ NoneInMap'
  BY DEF Agreement, NoneInMap
<1>8. ClosedOnce' /\ StoppedEntries'
  BY DEF ClosedOnce, StoppedEntries, Entries, Replacing
<1>9. Overwritten' /\ ShutDown'
  BY DEF Overwritten, Replacing, StoppedEntries, ShutDown
<1>10. NoOrphan' /\ NoNodeLeak'
  BY DEF NoOrphan, NoNodeLeak
<1>11. Closers'
  BY DEF Closers
<1>12. Counted'
  BY DEF Counted, Registered
<1>. QED BY <1>4, <1>5, <1>6, <1>7, <1>8, <1>9, <1>10, <1>11, <1>12

\* AddService finds the name free.
LEMMA AddServiceStep ==
    ASSUME IInv, NEW n \in Names, NEW c \in Cfgs, AddService(n, c),
           phase = "running", UNCHANGED phase
    PROVE  IInv'
<1>1. /\ TypeOK /\ op.kind = "none" /\ op.at = "idle"
      /\ services[n] = Absent
  BY DEF IInv, AddService, Enter, Idle, Begun
<1>2. /\ op' \in Ops /\ op'.kind = "add" /\ op'.at = "listen"
      /\ op'.name = n /\ op'.cfg = c /\ op'.inst = Absent
  BY DEF AddService, Enter, Begun, Idle, IInv, Ops, Kinds, Steps,
        TypeOK, RegTypeOK, TsTypeOK
<1>3. /\ ret' = "none" /\ UNCHANGED <<servers, owner, node, made, doomed>>
      /\ UNCHANGED <<config, services, http, conf, released, panicked, gauge, todo>>
  BY DEF AddService, Enter, tsVars
<1>. USE <1>1, <1>2, <1>3 DEF IInv, TypeOK, RegTypeOK, TsTypeOK
<1>4. TypeOK'
  BY DEF HttpStates, NodeStates, Phases
<1>5. OpShape' /\ PhaseShape'
  BY DEF OpShape, Replacing, Starting, Idle, Begun, Ops, Kinds, Steps, PhaseShape
<1>6. Fresh' /\ Entries'
  BY DEF Fresh, Entries
<1>7. Agreement' /\ NoneInMap'
  BY DEF Agreement, NoneInMap
<1>8. ClosedOnce' /\ StoppedEntries'
  BY DEF ClosedOnce, StoppedEntries, Entries, Replacing
<1>9. Overwritten' /\ ShutDown'
  BY DEF Overwritten, Replacing, StoppedEntries, ShutDown
<1>10. NoOrphan' /\ NoNodeLeak'
  BY DEF NoOrphan, NoNodeLeak
<1>11. Closers'
  BY DEF Closers
<1>12. Counted'
  BY DEF Counted, Registered
<1>. QED BY <1>4, <1>5, <1>6, <1>7, <1>8, <1>9, <1>10, <1>11, <1>12

\* RemoveService finds a service, which nobody has stopped before.
LEMMA RemoveServiceStep ==
    ASSUME IInv, NEW n \in Names, RemoveService(n), phase = "running", UNCHANGED phase
    PROVE  IInv'
<1>1. /\ TypeOK /\ op.kind = "none" /\ op.at = "idle"
      /\ services[n] # Absent
  BY DEF IInv, RemoveService, Enter, Idle, Begun
<1>2. /\ op' \in Ops /\ op'.kind = "remove" /\ op'.at = "stop"
      /\ op'.name = n /\ op'.cfg = None /\ op'.inst = services[n]
  BY <1>1 DEF RemoveService, Enter, Begun, Idle, IInv, Ops, Kinds, Steps,
        TypeOK, RegTypeOK, TsTypeOK
<1>3. /\ ret' = "none" /\ UNCHANGED <<servers, owner, node, made, doomed>>
      /\ UNCHANGED <<config, services, http, conf, released, panicked, gauge, todo>>
  BY DEF RemoveService, Enter, tsVars
<1>4. http[services[n]] # "stopped"
  BY <1>1 DEF IInv, StoppedEntries
<1>. USE <1>1, <1>2, <1>3, <1>4 DEF IInv, TypeOK, RegTypeOK, TsTypeOK
<1>5. TypeOK'
  BY DEF HttpStates, NodeStates, Phases
<1>6. OpShape' /\ PhaseShape'
  BY DEF OpShape, Replacing, Starting, Idle, Begun, Ops, Kinds, Steps, PhaseShape
<1>7. Fresh' /\ Entries'
  BY DEF Fresh, Entries
<1>8. Agreement' /\ NoneInMap'
  BY DEF Agreement, NoneInMap
<1>9. ClosedOnce' /\ StoppedEntries'
  BY DEF ClosedOnce, StoppedEntries, Entries, Replacing
<1>10. Overwritten' /\ ShutDown'
  BY DEF Overwritten, Replacing, StoppedEntries, ShutDown
<1>11. NoOrphan' /\ NoNodeLeak'
  BY DEF NoOrphan, NoNodeLeak
<1>12. Closers'
  BY DEF Closers
<1>13. Counted'
  BY DEF Counted, Registered
<1>. QED BY <1>5, <1>6, <1>7, <1>8, <1>9, <1>10, <1>11, <1>12, <1>13

\* UpdateService finds a service, and has validated the new configuration.
LEMMA UpdateServiceStep ==
    ASSUME IInv, NEW n \in Names, NEW c \in Cfgs, UpdateService(n, c),
           phase = "running", UNCHANGED phase
    PROVE  IInv'
<1>1. /\ TypeOK /\ op.kind = "none" /\ op.at = "idle"
      /\ services[n] # Absent /\ c \notin Rejected
  BY DEF IInv, UpdateService, Enter, Idle, Begun
<1>2. /\ op' \in Ops /\ op'.kind = "update" /\ op'.at = "stop"
      /\ op'.name = n /\ op'.cfg = c /\ op'.inst = services[n]
  BY <1>1 DEF UpdateService, Enter, Begun, Idle, IInv, Ops, Kinds, Steps,
        TypeOK, RegTypeOK, TsTypeOK
<1>3. /\ ret' = "none" /\ UNCHANGED <<servers, owner, node, made, doomed>>
      /\ UNCHANGED <<config, services, http, conf, released, panicked, gauge, todo>>
  BY DEF UpdateService, Enter, tsVars
<1>4. http[services[n]] # "stopped"
  BY <1>1 DEF IInv, StoppedEntries
<1>. USE <1>1, <1>2, <1>3, <1>4 DEF IInv, TypeOK, RegTypeOK, TsTypeOK
<1>5. TypeOK'
  BY DEF HttpStates, NodeStates, Phases
<1>6. OpShape' /\ PhaseShape'
  BY DEF OpShape, Replacing, Starting, Idle, Begun, Ops, Kinds, Steps, PhaseShape
<1>7. Fresh' /\ Entries'
  BY DEF Fresh, Entries
<1>8. Agreement' /\ NoneInMap'
  BY DEF Agreement, NoneInMap
<1>9. ClosedOnce' /\ StoppedEntries'
  BY DEF ClosedOnce, StoppedEntries, Entries, Replacing
<1>10. Overwritten' /\ ShutDown'
  BY DEF Overwritten, Replacing, StoppedEntries, ShutDown
<1>11. NoOrphan' /\ NoNodeLeak'
  BY DEF NoOrphan, NoNodeLeak
<1>12. Closers'
  BY DEF Closers
<1>13. Counted'
  BY DEF Counted, Registered
<1>. QED BY <1>5, <1>6, <1>7, <1>8, <1>9, <1>10, <1>11, <1>12, <1>13

\* An early return.
LEMMA RefuseStep ==
    ASSUME IInv, Refuse, UNCHANGED phase
    PROVE  IInv'
<1>1. /\ TypeOK /\ ret' = "error" /\ UNCHANGED <<servers, owner, node, made, doomed>>
      /\ UNCHANGED <<config, services, http, conf, released, panicked, gauge, op, todo>>
  BY DEF IInv, Refuse, tsVars
<1>. USE <1>1 DEF IInv, TypeOK, RegTypeOK, TsTypeOK
<1>2. TypeOK'
  BY DEF HttpStates, NodeStates, Phases
<1>3. OpShape' /\ PhaseShape'
  BY DEF OpShape, Replacing, Starting, Idle, Begun, Ops, Kinds, Steps, PhaseShape
<1>4. Fresh' /\ Entries'
  BY DEF Fresh, Entries
<1>5. Agreement' /\ NoneInMap'
  BY DEF Agreement, NoneInMap
<1>6. ClosedOnce' /\ StoppedEntries'
  BY DEF ClosedOnce, StoppedEntries, Entries, Replacing
<1>7. Overwritten' /\ ShutDown'
  BY DEF Overwritten, Replacing, StoppedEntries, ShutDown
<1>8. NoOrphan' /\ NoNodeLeak'
  BY DEF NoOrphan, NoNodeLeak
<1>9. Closers'
  BY DEF Closers
<1>10. Counted'
  BY DEF Counted, Registered
<1>. QED BY <1>2, <1>3, <1>4, <1>5, <1>6, <1>7, <1>8, <1>9, <1>10

\* Shutdown has everything registered still to stop.
LEMMA ShutdownStep ==
    ASSUME IInv, Shutdown, phase = "running", phase' = "stopping"
    PROVE  IInv'
<1>1. /\ TypeOK /\ op.kind = "none" /\ op.at = "idle"
  BY DEF IInv, Shutdown, Enter, Idle, Begun
<1>2. /\ op' \in Ops /\ op'.kind = "shutdown" /\ op'.at = "each"
      /\ op'.name = None /\ op'.cfg = None /\ op'.inst = Absent
  BY DEF Shutdown, Enter, Begun, Idle, IInv, Ops, Kinds, Steps,
        TypeOK, RegTypeOK, TsTypeOK
<1>3. /\ todo' = {n \in Names : services[n] # Absent} /\ ret' = "none"
      /\ UNCHANGED <<servers, owner, node, made, doomed>>
      /\ UNCHANGED <<config, services, http, conf, released, panicked, gauge>>
  BY DEF Shutdown, Enter, tsVars, Registered
<1>. USE <1>1, <1>2, <1>3 DEF IInv, TypeOK, RegTypeOK, TsTypeOK
<1>4. TypeOK'
  BY DEF HttpStates, NodeStates, Phases
<1>5. OpShape' /\ PhaseShape'
  BY DEF OpShape, Replacing, Starting, Idle, Begun, Ops, Kinds, Steps, PhaseShape
<1>6. Fresh' /\ Entries'
  BY DEF Fresh, Entries
<1>7. Agreement' /\ NoneInMap'
  BY DEF Agreement, NoneInMap
<1>8. ClosedOnce' /\ StoppedEntries'
  BY DEF ClosedOnce, StoppedEntries, Entries, Replacing
<1>9. Overwritten' /\ ShutDown'
  BY DEF Overwritten, Replacing, StoppedEntries, ShutDown
<1>10. NoOrphan' /\ NoNodeLeak'
  BY DEF NoOrphan, NoNodeLeak
<1>11. Closers'
  BY DEF Closers
<1>12. Counted'
  BY DEF Counted, Registered
<1>. QED BY <1>4, <1>5, <1>6, <1>7, <1>8, <1>9, <1>10, <1>11, <1>12

\* Close takes every node that is up out of the map.
LEMMA CloseAllStep ==
    ASSUME IInv, CloseAll,
           UNCHANGED regVars, op = Idle, phase = "stopping", phase' = "closing"
    PROVE  IInv'
<1>1. /\ TypeOK /\ op.kind = "none" /\ op.at = "idle" /\ doomed = {}
  BY DEF IInv, PhaseShape, Idle, Begun
<1>2. /\ doomed' = {i \in Inst : \E n \in Names : servers[n] = i}
      /\ servers' = [n \in Names |-> Absent] /\ UNCHANGED <<owner, node, made>>
      /\ UNCHANGED <<config, services, http, conf, released, panicked, gauge, op, todo, ret>>
  BY <1>1 DEF CloseAll, regVars
<1>. USE <1>1, <1>2 DEF IInv, TypeOK, RegTypeOK, TsTypeOK
<1>3. TypeOK'
  BY DEF HttpStates, NodeStates, Phases
<1>4. OpShape' /\ PhaseShape'
  BY DEF OpShape, Replacing, Starting, Idle, Begun, Ops, Kinds, Steps, PhaseShape
<1>5. Fresh' /\ Entries'
  BY DEF Fresh, Entries
<1>6. Agreement' /\ NoneInMap'
  BY DEF Agreement, NoneInMap
<1>7. ClosedOnce' /\ StoppedEntries'
  BY DEF ClosedOnce, StoppedEntries, Entries, Replacing
<1>8. Overwritten' /\ ShutDown'
  BY DEF Overwritten, Replacing, StoppedEntries, ShutDown
<1>9. NoOrphan' /\ NoNodeLeak'
  BY DEF NoOrphan, NoNodeLeak, Entries
<1>10. Closers'
  <2>1. \A i \in Inst : node'[i] # "closing"
    BY DEF Closers
  <2>2. \A i, j \in doomed' : owner'[i] = owner'[j] => i = j
    BY DEF Entries
  <2>. QED BY <2>1, <2>2 DEF Closers
<1>11. Counted'
  BY DEF Counted, Registered
<1>. QED BY <1>3, <1>4, <1>5, <1>6, <1>7, <1>8, <1>9, <1>10, <1>11

\* Close begins with the next node.
LEMMA CloseOneBeginsStep ==
    ASSUME IInv, NEW i \in Inst, CloseOneBegins(i),
           UNCHANGED regVars, phase = "closing", UNCHANGED phase
    PROVE  IInv'
<1>1. /\ TypeOK /\ op.kind = "none" /\ op.at = "idle" /\ i \in doomed
  BY DEF IInv, PhaseShape, OpShape, CloseOneBegins
<1>2. /\ node' = [node EXCEPT ![i] = "closing"]
      /\ UNCHANGED <<servers, owner, made, doomed>>
      /\ UNCHANGED <<config, services, http, conf, released, panicked, gauge, op, todo, ret>>
  BY DEF CloseOneBegins, regVars
<1>3. node[i] = "up" /\ \A n \in Names : servers[n] = Absent
  BY DEF CloseOneBegins, IInv, PhaseShape
<1>. USE <1>1, <1>2, <1>3 DEF IInv, TypeOK, RegTypeOK, TsTypeOK
<1>4. TypeOK'
  BY DEF HttpStates, NodeStates, Phases
<1>5. OpShape' /\ PhaseShape'
  BY DEF OpShape, Replacing, Starting, Idle, Begun, Ops, Kinds, Steps, PhaseShape
<1>6. Fresh' /\ Entries'
  BY DEF Fresh, Entries
<1>7. Agreement' /\ NoneInMap'
  BY DEF Agreement, NoneInMap
<1>8. ClosedOnce' /\ StoppedEntries'
  BY DEF ClosedOnce, StoppedEntries, Entries, Replacing
<1>9. Overwritten' /\ ShutDown'
  BY DEF Overwritten, Replacing, StoppedEntries, ShutDown
<1>10. NoOrphan' /\ NoNodeLeak'
  BY DEF NoOrphan, NoNodeLeak
<1>11. Closers'
  BY DEF Closers
<1>12. Counted'
  BY DEF Counted, Registered
<1>. QED BY <1>4, <1>5, <1>6, <1>7, <1>8, <1>9, <1>10, <1>11, <1>12

\* Close is done with a node, or has given up on it.
LEMMA CloseOneEndsStep ==
    ASSUME IInv, NEW i \in Inst, CloseOneEnds(i),
           UNCHANGED regVars, phase = "closing", UNCHANGED phase
    PROVE  IInv'
<1>1. /\ TypeOK /\ op.kind = "none" /\ op.at = "idle" /\ i \in doomed
  BY DEF IInv, PhaseShape, OpShape, CloseOneEnds
<1>2. /\ node[i] \in {"closing", "closed"} /\ node'[i] \in {"closed", "overdue"}
      /\ node' \in [Inst -> NodeStates] /\ \A j \in Inst \ {i} : node'[j] = node[j]
  BY <1>1 DEF CloseOneEnds, WaitEnds, TypeOK, RegTypeOK, TsTypeOK, NodeStates
<1>3. /\ doomed' = doomed \ {i} /\ UNCHANGED <<servers, owner, made>>
      /\ UNCHANGED <<config, services, http, conf, released, panicked, gauge, op, todo, ret>>
  BY DEF CloseOneEnds, regVars
<1>4. \A n \in Names : servers[n] = Absent
  BY DEF IInv, PhaseShape
<1>. USE <1>1, <1>2, <1>3, <1>4 DEF IInv, TypeOK, RegTypeOK, TsTypeOK
<1>5. TypeOK'
  BY DEF HttpStates, NodeStates, Phases
<1>6. OpShape' /\ PhaseShape'
  BY DEF OpShape, Replacing, Starting, Idle, Begun, Ops, Kinds, Steps, PhaseShape
<1>7. Fresh' /\ Entries'
  BY DEF Fresh, Entries
<1>8. Agreement' /\ NoneInMap'
  BY DEF Agreement, NoneInMap
<1>9. ClosedOnce' /\ StoppedEntries'
  BY DEF ClosedOnce, StoppedEntries, Entries, Replacing
<1>10. Overwritten' /\ ShutDown'
  BY DEF Overwritten, Replacing, StoppedEntries, ShutDown
<1>11. NoOrphan' /\ NoNodeLeak'
  BY DEF NoOrphan, NoNodeLeak
<1>12. Closers'
  BY DEF Closers
<1>13. Counted'
  BY DEF Counted, Registered
<1>. QED BY <1>5, <1>6, <1>7, <1>8, <1>9, <1>10, <1>11, <1>12, <1>13

\* The Close of a node returns, whoever waits for it.
LEMMA NodeClosesStep ==
    ASSUME IInv, NEW i \in Inst, NodeClosed(i), UNCHANGED phase
    PROVE  IInv'
<1>1. /\ TypeOK /\ node[i] \in {"closing", "overdue"}
      /\ node' = [node EXCEPT ![i] = "closed"] /\ UNCHANGED <<servers, owner, made, doomed>>
      /\ UNCHANGED <<config, services, http, conf, released, panicked, gauge, op, todo, ret>>
  BY DEF IInv, NodeClosed, NodeCloses, regVars
<1>. USE <1>1 DEF IInv, TypeOK, RegTypeOK, TsTypeOK
<1>2. TypeOK'
  BY DEF HttpStates, NodeStates, Phases
<1>3. OpShape' /\ PhaseShape'
  BY DEF OpShape, Replacing, Starting, Idle, Begun, Ops, Kinds, Steps, PhaseShape
<1>4. Fresh' /\ Entries'
  BY DEF Fresh, Entries
<1>5. Agreement' /\ NoneInMap'
  BY DEF Agreement, NoneInMap
<1>6. ClosedOnce' /\ StoppedEntries'
  BY DEF ClosedOnce, StoppedEntries, Entries, Replacing
<1>7. Overwritten' /\ ShutDown'
  BY DEF Overwritten, Replacing, StoppedEntries, ShutDown
<1>8. NoOrphan' /\ NoNodeLeak'
  BY DEF NoOrphan, NoNodeLeak
<1>9. Closers'
  BY DEF Closers
<1>10. Counted'
  BY DEF Counted, Registered
<1>. QED BY <1>2, <1>3, <1>4, <1>5, <1>6, <1>7, <1>8, <1>9, <1>10

\* A Serve goroutine ends.
LEMMA ServeFailsStep ==
    ASSUME IInv, NEW i \in Inst, ServeFails(i), UNCHANGED phase
    PROVE  IInv'
<1>1. /\ TypeOK /\ http[i] = "serving" /\ http' = [http EXCEPT ![i] = "dead"]
      /\ UNCHANGED <<servers, owner, node, made, doomed>>
      /\ UNCHANGED <<config, services, conf, released, panicked, gauge, op, todo, ret>>
  BY DEF IInv, ServeFails, tsVars
<1>. USE <1>1 DEF IInv, TypeOK, RegTypeOK, TsTypeOK
<1>2. TypeOK'
  BY DEF HttpStates, NodeStates, Phases
<1>3. OpShape' /\ PhaseShape'
  BY DEF OpShape, Replacing, Starting, Idle, Begun, Ops, Kinds, Steps, PhaseShape
<1>4. Fresh' /\ Entries'
  BY DEF Fresh, Entries
<1>5. Agreement' /\ NoneInMap'
  BY DEF Agreement, NoneInMap
<1>6. ClosedOnce' /\ StoppedEntries'
  BY DEF ClosedOnce, StoppedEntries, Entries, Replacing
<1>7. Overwritten' /\ ShutDown'
  BY DEF Overwritten, Replacing, StoppedEntries, ShutDown
<1>8. NoOrphan' /\ NoNodeLeak'
  BY DEF NoOrphan, NoNodeLeak
<1>9. Closers'
  BY DEF Closers
<1>10. Counted'
  BY DEF Counted, Registered
<1>. QED BY <1>2, <1>3, <1>4, <1>5, <1>6, <1>7, <1>8, <1>9, <1>10

\* A stop that succeeds: the entry was not stopped, so its handler was not closed.
LEMMA StoppedStep ==
    ASSUME IInv, Stopped, UNCHANGED phase
    PROVE  IInv'
<1>1. TypeOK /\ op.at = "stop" /\ op.kind \in {"remove", "update"}
  BY DEF IInv, Stopped, At
<1>2. /\ op.inst \in Inst /\ op.name \in Names /\ services[op.name] = op.inst
      /\ http[op.inst] \notin {"stopped", "none"} 
      /\ op.inst \notin released /\ owner[op.inst] = op.name
  BY <1>1 DEF IInv, OpShape, Entries, ClosedOnce, TypeOK, RegTypeOK, TsTypeOK, Ops,
        Replacing
<1>3. /\ op' \in Ops /\ op'.kind = op.kind /\ op'.at = "close"
      /\ op'.name = op.name /\ op'.cfg = op.cfg /\ op'.inst = op.inst
  BY <1>1 DEF Stopped, TypeOK, RegTypeOK, Ops, Steps
<1>4. /\ http' = [http EXCEPT ![op.inst] = "stopped"]
      /\ released' = released \cup {op.inst} /\ panicked' = FALSE
      /\ UNCHANGED <<servers, owner, node, made, doomed>>
      /\ UNCHANGED <<config, services, conf, gauge, todo, ret>>
  BY <1>1, <1>2 DEF Stopped, StopSucceeds, CloseHandler, IInv, ClosedOnce, TypeOK,
        RegTypeOK, tsVars
<1>. USE <1>1, <1>2, <1>3, <1>4 DEF IInv, TypeOK, RegTypeOK, TsTypeOK
<1>5. TypeOK'
  BY DEF HttpStates, NodeStates, Phases
<1>6. OpShape' /\ PhaseShape'
  BY DEF OpShape, Replacing, Starting, Idle, Begun, Ops, Kinds, Steps, PhaseShape
<1>7. Fresh' /\ Entries'
  BY DEF Fresh, Entries
<1>8. Agreement' /\ NoneInMap'
  BY DEF Agreement, NoneInMap
<1>9. ClosedOnce' /\ StoppedEntries'
  BY DEF ClosedOnce, StoppedEntries, Entries, Replacing
<1>10. Overwritten' /\ ShutDown'
  BY DEF Overwritten, Replacing, StoppedEntries, ShutDown
<1>11. NoOrphan' /\ NoNodeLeak'
  BY DEF NoOrphan, NoNodeLeak
<1>12. Closers'
  BY DEF Closers
<1>13. Counted'
  BY DEF Counted, Registered
<1>. QED BY <1>5, <1>6, <1>7, <1>8, <1>9, <1>10, <1>11, <1>12, <1>13

\* A stop that times out: everything keeps its place.
LEMMA NotStoppedStep ==
    ASSUME IInv, NotStopped, UNCHANGED phase
    PROVE  IInv'
<1>1. TypeOK /\ op.at = "stop" /\ op.kind \in {"remove", "update"}
  BY DEF IInv, NotStopped, At
<1>2. /\ op.inst \in Inst /\ op.name \in Names /\ services[op.name] = op.inst
      /\ http[op.inst] \notin {"stopped", "none"} 
      /\ op.inst \notin released /\ owner[op.inst] = op.name
  BY <1>1 DEF IInv, OpShape, Entries, ClosedOnce, TypeOK, RegTypeOK, TsTypeOK, Ops,
        Replacing
<1>3. op' = Idle /\ op' \in Ops /\ op'.kind = "none" /\ op'.at = "idle"
  BY DEF NotStopped, Return, Idle, Begun, Ops, Kinds, Steps
<1>4. /\ http' = [http EXCEPT ![op.inst] = "draining"] /\ ret' = "error"
      /\ UNCHANGED <<servers, owner, node, made, doomed>>
      /\ UNCHANGED <<config, services, conf, released, panicked, gauge, todo>>
  BY <1>1, <1>2 DEF NotStopped, StopTimesOut, Return, tsVars
<1>. USE <1>1, <1>2, <1>3, <1>4 DEF IInv, TypeOK, RegTypeOK, TsTypeOK
<1>5. TypeOK'
  BY DEF HttpStates, NodeStates, Phases
<1>6. OpShape' /\ PhaseShape'
  BY DEF OpShape, Replacing, Starting, Idle, Begun, Ops, Kinds, Steps, PhaseShape
<1>7. Fresh' /\ Entries'
  BY DEF Fresh, Entries
<1>8. Agreement' /\ NoneInMap'
  BY DEF Agreement, NoneInMap
<1>9. ClosedOnce' /\ StoppedEntries'
  BY DEF ClosedOnce, StoppedEntries, Entries, Replacing
<1>10. Overwritten' /\ ShutDown'
  BY DEF Overwritten, Replacing, StoppedEntries, ShutDown
<1>11. NoOrphan' /\ NoNodeLeak'
  BY DEF NoOrphan, NoNodeLeak
<1>12. Closers'
  BY DEF Closers
<1>13. Counted'
  BY DEF Counted, Registered
<1>. QED BY <1>5, <1>6, <1>7, <1>8, <1>9, <1>10, <1>11, <1>12, <1>13

\* Shutdown stops one more service, or its stop times out.
LEMMA ShutdownStopsStep ==
    ASSUME IInv, NEW n \in Names, ShutdownStops(n), UNCHANGED phase
    PROVE  IInv'
<1>1. TypeOK /\ op.at = "each" /\ op.kind = "shutdown" /\ n \in todo /\ phase = "stopping"
  BY DEF IInv, ShutdownStops, At, PhaseShape
<1>2. /\ services[n] \in Inst /\ owner[services[n]] = n
      /\ http[services[n]] \notin {"stopped", "none"} /\ services[n] \notin released
  BY <1>1 DEF IInv, ShutDown, Entries, StoppedEntries, ClosedOnce, TypeOK,
        RegTypeOK, TsTypeOK
<1>3. /\ op' \in Ops /\ op'.kind = op.kind /\ op'.at = op.at
      /\ op'.name = op.name /\ op'.cfg = op.cfg /\ op'.inst = op.inst
  BY <1>1 DEF ShutdownStops, TypeOK, RegTypeOK, Ops
<1>4. /\ \/ /\ http' = [http EXCEPT ![services[n]] = "stopped"]
            /\ released' = released \cup {services[n]} /\ panicked' = FALSE
         \/ /\ http' = [http EXCEPT ![services[n]] = "draining"]
            /\ UNCHANGED <<released, panicked>>
      /\ todo' = todo \ {n} /\ UNCHANGED <<servers, owner, node, made, doomed>>
      /\ UNCHANGED <<config, services, conf, gauge, ret>>
  BY <1>1, <1>2 DEF ShutdownStops, StopSucceeds, StopTimesOut, CloseHandler, IInv,
        ClosedOnce, TypeOK, RegTypeOK, tsVars
<1>. USE <1>1, <1>2, <1>3, <1>4 DEF IInv, TypeOK, RegTypeOK, TsTypeOK
<1>5. TypeOK'
  BY DEF HttpStates, NodeStates, Phases
<1>6. OpShape' /\ PhaseShape'
  BY DEF OpShape, Replacing, Starting, Idle, Begun, Ops, Kinds, Steps, PhaseShape
<1>7. Fresh' /\ Entries'
  <2>1. Fresh'
    BY DEF Fresh
  <2>2. \A i \in Inst : http[i] # "none" => http'[i] # "none"
    BY <1>2, <1>4
  <2>3. Entries'
    BY <2>2, <1>4 DEF Entries
  <2>. QED BY <2>1, <2>3
<1>8. Agreement' /\ NoneInMap'
  BY DEF Agreement, NoneInMap
<1>9. ClosedOnce' /\ StoppedEntries'
  BY DEF ClosedOnce, StoppedEntries, Entries, Replacing
<1>10. Overwritten'
  BY DEF Overwritten, Replacing, StoppedEntries
<1>11. ShutDown'
  BY DEF ShutDown, Entries
<1>12. NoOrphan' /\ NoNodeLeak'
  BY DEF NoOrphan, NoNodeLeak
<1>13. Closers'
  BY DEF Closers
<1>14. Counted'
  BY DEF Counted, Registered
<1>. QED BY <1>5, <1>6, <1>7, <1>8, <1>9, <1>10, <1>11, <1>12, <1>13, <1>14

\* Shutdown returns when every service has been stopped or has timed out.
LEMMA ShutdownReturnsStep ==
    ASSUME IInv, ShutdownReturns, UNCHANGED phase
    PROVE  IInv'
<1>1. TypeOK /\ op.at = "each" /\ op.kind = "shutdown" /\ todo = {} /\ phase = "stopping"
  BY DEF IInv, ShutdownReturns, At, PhaseShape
<1>2. /\ op' = Idle /\ op' \in Ops /\ op'.kind = "none" /\ op'.at = "idle" /\ ret' \in {"ok", "error"}
      /\ UNCHANGED <<servers, owner, node, made, doomed>>
      /\ UNCHANGED <<config, services, http, conf, released, panicked, gauge, todo>>
  BY DEF ShutdownReturns, Return, Idle, Begun, Ops, Kinds, Steps, tsVars
<1>. USE <1>1, <1>2 DEF IInv, TypeOK, RegTypeOK, TsTypeOK
<1>3. TypeOK'
  BY DEF HttpStates, NodeStates, Phases
<1>4. OpShape' /\ PhaseShape'
  BY DEF OpShape, Replacing, Starting, Idle, Begun, Ops, Kinds, Steps, PhaseShape,
        ShutDown, NoOrphan
<1>5. Fresh' /\ Entries'
  BY DEF Fresh, Entries
<1>6. Agreement' /\ NoneInMap'
  BY DEF Agreement, NoneInMap
<1>7. ClosedOnce' /\ StoppedEntries'
  BY DEF ClosedOnce, StoppedEntries, Entries, Replacing
<1>8. Overwritten' /\ ShutDown'
  BY DEF Overwritten, Replacing, StoppedEntries, ShutDown
<1>9. NoOrphan' /\ NoNodeLeak'
  BY DEF NoOrphan, NoNodeLeak
<1>10. Closers'
  BY DEF Closers
<1>11. Counted'
  BY DEF Counted, Registered
<1>. QED BY <1>3, <1>4, <1>5, <1>6, <1>7, <1>8, <1>9, <1>10, <1>11

\* CloseService, from either of its callers, takes the node out of the map.
LEMMA CloseNodeStep ==
    ASSUME IInv, CloseNode, UNCHANGED phase
    PROVE  IInv'
<1>1. /\ TypeOK /\ op.at \in {"close", "discard"} /\ op.name \in Names
      /\ op.kind # "none" /\ phase # "closing" /\ doomed = {}
  BY DEF IInv, CloseNode, OpShape, PhaseShape, Replacing
<1>2. /\ op'.kind = op.kind /\ op'.at = IF op.at = "close" THEN "wait" ELSE "giveup"
      /\ op'.name = op.name /\ op'.cfg = op.cfg /\ op'.inst = servers[op.name] /\ op' \in Ops
  BY <1>1 DEF CloseNode, TypeOK, RegTypeOK, TsTypeOK, Ops, Steps
<1>3. /\ servers' = [servers EXCEPT ![op.name] = Absent] /\ UNCHANGED <<owner, made, doomed>>
      /\ node' = IF servers[op.name] = Absent THEN node
                ELSE [node EXCEPT ![servers[op.name]] = "closing"]
  BY <1>1 DEF CloseNode, DetachNode, tsVars, TypeOK, RegTypeOK, TsTypeOK
<1>4. UNCHANGED <<config, services, http, conf, released, panicked, gauge, todo, ret>>
  BY DEF CloseNode
<1>5. servers[op.name] # Absent => owner[servers[op.name]] = op.name /\ node[servers[op.name]] = "up"
  BY <1>1 DEF IInv, Entries
<1>. USE <1>1, <1>2, <1>3, <1>4, <1>5 DEF IInv, TypeOK, RegTypeOK, TsTypeOK
<1>6. TypeOK'
  BY DEF HttpStates, NodeStates, Phases
<1>7. OpShape' /\ PhaseShape'
  BY DEF OpShape, Replacing, Starting, Idle, Begun, Ops, Kinds, Steps, PhaseShape
<1>8. Fresh' /\ Entries'
  BY DEF Fresh, Entries
<1>9. Agreement' /\ NoneInMap'
  BY DEF Agreement, NoneInMap
<1>10. ClosedOnce' /\ StoppedEntries'
  BY DEF ClosedOnce, StoppedEntries, Entries, Replacing
<1>11. Overwritten' /\ ShutDown'
  BY DEF Overwritten, Replacing, StoppedEntries, ShutDown
<1>12. NoOrphan' /\ NoNodeLeak'
  BY DEF NoOrphan, NoNodeLeak
<1>13. Closers'
  BY DEF Closers, OpShape, Entries
<1>14. Counted'
  BY DEF Counted, Registered
<1>. QED BY <1>6, <1>7, <1>8, <1>9, <1>10, <1>11, <1>12, <1>13, <1>14

\* RemoveService returns: a stopped service leaves the registry, its node the map.
LEMMA RemovedStep ==
    ASSUME IInv, Removed, UNCHANGED phase
    PROVE  IInv'
<1>1. /\ TypeOK /\ op.at = "wait" /\ op.kind = "remove"
      /\ op.name \in Names /\ phase # "closing" /\ doomed = {} /\ servers[op.name] = Absent
  BY DEF IInv, Removed, At, OpShape, PhaseShape, Replacing, NoneInMap
<1>2. op' = Idle /\ op' \in Ops /\ op'.kind = "none" /\ op'.at = "idle" /\ ret' = "ok"
  BY DEF Removed, Return, Idle, Begun, Ops, Kinds, Steps
<1>3. /\ node' \in [Inst -> NodeStates] /\ UNCHANGED <<servers, owner, made, doomed>>
      /\ \A i \in Inst : \/ node'[i] = node[i] /\ (i = op.inst => node[i] = "closed")
                         \/ node[i] = "closing" /\ node'[i] = "overdue"
  BY <1>1, WaitEnded DEF Removed
<1>4. /\ services' = [services EXCEPT ![op.name] = Absent]
      /\ gauge' = IF Metrics THEN Cardinality(Registered(services')) ELSE gauge
      /\ UNCHANGED <<config, http, conf, released, panicked, todo>>
  BY DEF Removed, SetActive
<1>5. gauge' \in Nat
  BY <1>1, <1>4, CountIsNat DEF TypeOK, RegTypeOK
<1>. USE <1>1, <1>2, <1>3, <1>4, <1>5 DEF IInv, TypeOK, RegTypeOK, TsTypeOK
<1>6. TypeOK'
  BY DEF HttpStates, NodeStates, Phases
<1>7. OpShape' /\ PhaseShape'
  BY DEF OpShape, Replacing, Starting, Idle, Begun, Ops, Kinds, Steps, PhaseShape
<1>8. Fresh'
  BY DEF Fresh, Entries
<1>9. Entries'
  BY DEF Entries
<1>10. Agreement' /\ NoneInMap'
  BY DEF Agreement, NoneInMap
<1>11. ClosedOnce' /\ StoppedEntries'
  BY DEF ClosedOnce, StoppedEntries, Entries, Replacing
<1>12. Overwritten' /\ ShutDown'
  BY DEF Overwritten, Replacing, StoppedEntries, ShutDown
<1>13. NoOrphan'
  BY DEF NoOrphan, Overwritten, Replacing
<1>14. NoNodeLeak'
  BY DEF NoNodeLeak
<1>15. Closers'
  BY DEF Closers
<1>16. Counted'
  BY DEF Counted
<1>. QED BY <1>6, <1>7, <1>8, <1>9, <1>10, <1>11, <1>12, <1>13, <1>14, <1>15, <1>16

\* UpdateService goes on to start the new service; the old node is out of the map.
LEMMA OldClosedStep ==
    ASSUME IInv, OldClosed, UNCHANGED phase
    PROVE  IInv'
<1>1. /\ TypeOK /\ op.at = "wait" /\ op.kind = "update"
      /\ op.name \in Names /\ phase # "closing" /\ doomed = {} /\ servers[op.name] = Absent
  BY DEF IInv, OldClosed, At, OpShape, PhaseShape, Replacing, NoneInMap
<1>2. /\ op' \in Ops /\ op'.kind = op.kind /\ op'.at = "listen"
      /\ op'.name = op.name /\ op'.cfg = op.cfg /\ op'.inst = Absent
  BY <1>1 DEF OldClosed, TypeOK, RegTypeOK, Ops, Steps
<1>3. /\ node' \in [Inst -> NodeStates] /\ UNCHANGED <<servers, owner, made, doomed>>
      /\ \A i \in Inst : \/ node'[i] = node[i] /\ (i = op.inst => node[i] = "closed")
                         \/ node[i] = "closing" /\ node'[i] = "overdue"
  BY <1>1, WaitEnded DEF OldClosed
<1>4. UNCHANGED <<config, services, http, conf, released, panicked, gauge, todo, ret>>
  BY DEF OldClosed
<1>. USE <1>1, <1>2, <1>3, <1>4 DEF IInv, TypeOK, RegTypeOK, TsTypeOK
<1>5. TypeOK'
  BY DEF HttpStates, NodeStates, Phases
<1>6. OpShape' /\ PhaseShape'
  BY DEF OpShape, Replacing, Starting, Idle, Begun, Ops, Kinds, Steps, PhaseShape
<1>7. Fresh'
  BY DEF Fresh, Entries
<1>8. Entries'
  BY DEF Entries
<1>9. Agreement' /\ NoneInMap'
  BY DEF Agreement, NoneInMap
<1>10. ClosedOnce' /\ StoppedEntries'
  BY DEF ClosedOnce, StoppedEntries, Entries, Replacing
<1>11. Overwritten' /\ ShutDown'
  BY DEF Overwritten, Replacing, StoppedEntries, ShutDown
<1>12. NoOrphan' /\ NoNodeLeak'
  BY DEF NoOrphan, NoNodeLeak
<1>13. Closers'
  BY DEF Closers
<1>14. Counted'
  BY DEF Counted, Registered
<1>. QED BY <1>5, <1>6, <1>7, <1>8, <1>9, <1>10, <1>11, <1>12, <1>13, <1>14

\* StartServices goes on to the next service, which is not there yet.
LEMMA StartNextStep ==
    ASSUME IInv, NEW n \in Names, StartNext(n), UNCHANGED phase
    PROVE  IInv'
<1>1. /\ TypeOK /\ op.at = "each" /\ op.kind = "start" /\ n \in todo
      /\ services[n] = Absent /\ servers[n] = Absent
  BY DEF IInv, StartNext, At, Overwritten, Agreement
<1>2. /\ op' \in Ops /\ op'.kind = op.kind /\ op'.at = "listen"
      /\ op'.name = n /\ op'.cfg = config[n] /\ op'.inst = op.inst
  BY <1>1 DEF StartNext, TypeOK, RegTypeOK, Ops, Steps
<1>3. /\ todo' = todo \ {n} /\ UNCHANGED <<servers, owner, node, made, doomed>>
      /\ UNCHANGED <<config, services, http, conf, released, panicked, gauge, ret>>
  BY DEF StartNext, tsVars
<1>. USE <1>1, <1>2, <1>3 DEF IInv, TypeOK, RegTypeOK, TsTypeOK
<1>4. TypeOK'
  BY DEF HttpStates, NodeStates, Phases
<1>5. OpShape' /\ PhaseShape'
  BY DEF OpShape, Replacing, Starting, Idle, Begun, Ops, Kinds, Steps, PhaseShape
<1>6. Fresh' /\ Entries'
  BY DEF Fresh, Entries
<1>7. Agreement' /\ NoneInMap'
  BY DEF Agreement, NoneInMap
<1>8. ClosedOnce' /\ StoppedEntries'
  BY DEF ClosedOnce, StoppedEntries, Entries, Replacing
<1>9. Overwritten' /\ ShutDown'
  BY DEF Overwritten, Replacing, StoppedEntries, ShutDown
<1>10. NoOrphan' /\ NoNodeLeak'
  BY DEF NoOrphan, NoNodeLeak
<1>11. Closers'
  BY DEF Closers
<1>12. Counted'
  BY DEF Counted, Registered
<1>. QED BY <1>4, <1>5, <1>6, <1>7, <1>8, <1>9, <1>10, <1>11, <1>12

\* startService has a new node: the map held none under that name.
LEMMA ListeningStep ==
    ASSUME IInv, Listening, UNCHANGED phase
    PROVE  IInv'
<1>1. /\ TypeOK /\ op.at = "listen" /\ op.kind \in {"start", "add", "update"}
      /\ op.name \in Names /\ phase # "closing" /\ doomed = {} /\ servers[op.name] = Absent
      /\ made + 1 \in Inst /\ node[made + 1] = "none" /\ http[made + 1] = "none"
  BY DEF IInv, Listening, ListenSucceeds, Make, OpShape,
        PhaseShape, Replacing, Starting, Kinds, Ops, NoneInMap, Fresh, TypeOK, RegTypeOK,
        TsTypeOK
<1>2. /\ op' \in Ops /\ op'.kind = op.kind /\ op'.at = "handler"
      /\ op'.name = op.name /\ op'.cfg = op.cfg /\ op'.inst = made + 1
  BY <1>1 DEF Listening, TypeOK, RegTypeOK, Ops, Steps
<1>3. /\ made' = made + 1 /\ owner' = [owner EXCEPT ![made + 1] = op.name] /\ doomed' = doomed
      /\ node' = [node EXCEPT ![made + 1] = "up"] /\ servers' = [servers EXCEPT ![op.name] = made + 1]
      /\ UNCHANGED <<config, services, http, conf, released, panicked, gauge, todo, ret>>
  BY DEF Listening, ListenSucceeds, Make
<1>4. \A n \in Names : servers[n] # made + 1 /\ services[n] # made + 1
  BY <1>1 DEF IInv, Entries
<1>. USE <1>1, <1>2, <1>3, <1>4 DEF IInv, TypeOK, RegTypeOK, TsTypeOK
<1>5. TypeOK'
  BY DEF HttpStates, NodeStates, Phases
<1>6. OpShape' /\ PhaseShape'
  BY DEF OpShape, Replacing, Starting, Idle, Begun, Ops, Kinds, Steps, PhaseShape
<1>7. Fresh' /\ Entries'
  BY DEF Fresh, Entries
<1>8. Agreement' /\ NoneInMap'
  BY DEF Agreement, NoneInMap
<1>9. ClosedOnce' /\ StoppedEntries'
  BY DEF ClosedOnce, StoppedEntries, Entries, Replacing
<1>10. Overwritten' /\ ShutDown'
  BY DEF Overwritten, Replacing, StoppedEntries, ShutDown
<1>11. NoOrphan' /\ NoNodeLeak'
  BY DEF NoOrphan, NoNodeLeak
<1>12. Closers'
  BY DEF Closers
<1>13. Counted'
  BY DEF Counted, Registered
<1>. QED BY <1>5, <1>6, <1>7, <1>8, <1>9, <1>10, <1>11, <1>12, <1>13

\* Listen fails: its node was in the map for as long as s.mu was held, and is being closed.
LEMMA NotListeningStep ==
    ASSUME IInv, NotListening, UNCHANGED phase
    PROVE  IInv'
<1>1. /\ TypeOK /\ op.at = "listen" /\ op.kind \in {"start", "add", "update"}
      /\ op.name \in Names /\ phase # "closing" /\ doomed = {} /\ servers[op.name] = Absent
      /\ made + 1 \in Inst /\ node[made + 1] = "none" /\ http[made + 1] = "none"
  BY DEF IInv, NotListening, ListenFails, Make, OpShape,
        PhaseShape, Replacing, Starting, Kinds, Ops, NoneInMap, Fresh, TypeOK, RegTypeOK,
        TsTypeOK
<1>2. /\ op' \in Ops /\ op'.kind = op.kind /\ op'.at = "abandon"
      /\ op'.name = op.name /\ op'.cfg = op.cfg /\ op'.inst = made + 1
  BY <1>1 DEF NotListening, TypeOK, RegTypeOK, Ops, Steps
<1>3. /\ made' = made + 1 /\ owner' = [owner EXCEPT ![made + 1] = op.name] /\ doomed' = doomed
      /\ node' = [node EXCEPT ![made + 1] = "closing"] /\ UNCHANGED servers
      /\ UNCHANGED <<config, services, http, conf, released, panicked, gauge, todo, ret>>
  BY <1>1 DEF NotListening, ListenFails, Make, TypeOK, RegTypeOK, TsTypeOK
<1>4. \A n \in Names : servers[n] # made + 1 /\ services[n] # made + 1
  BY <1>1 DEF IInv, Entries
<1>. USE <1>1, <1>2, <1>3, <1>4 DEF IInv, TypeOK, RegTypeOK, TsTypeOK
<1>5. TypeOK'
  BY DEF HttpStates, NodeStates, Phases
<1>6. OpShape' /\ PhaseShape'
  BY DEF OpShape, Replacing, Starting, Idle, Begun, Ops, Kinds, Steps, PhaseShape
<1>7. Fresh' /\ Entries'
  BY DEF Fresh, Entries
<1>8. Agreement' /\ NoneInMap'
  BY DEF Agreement, NoneInMap
<1>9. ClosedOnce' /\ StoppedEntries'
  BY DEF ClosedOnce, StoppedEntries, Entries, Replacing
<1>10. Overwritten' /\ ShutDown'
  BY DEF Overwritten, Replacing, StoppedEntries, ShutDown
<1>11. NoOrphan' /\ NoNodeLeak'
  BY DEF NoOrphan, NoNodeLeak
<1>12. Closers'
  BY DEF Closers
<1>13. Counted'
  BY DEF Counted, Registered
<1>. QED BY <1>5, <1>6, <1>7, <1>8, <1>9, <1>10, <1>11, <1>12, <1>13

\* CreateHandler fails: CloseService will find the node in the map.
LEMMA HandlerFailsStep ==
    ASSUME IInv, HandlerFails, UNCHANGED phase
    PROVE  IInv'
<1>1. TypeOK /\ op.at = "handler"
  BY DEF IInv, HandlerFails
<1>2. /\ op' \in Ops /\ op'.kind = op.kind /\ op'.at = "discard"
      /\ op'.name = op.name /\ op'.cfg = op.cfg /\ op'.inst = op.inst
  BY <1>1 DEF HandlerFails, TypeOK, RegTypeOK, Ops, Steps
<1>3. /\ UNCHANGED <<servers, owner, node, made, doomed>>
      /\ UNCHANGED <<config, services, http, conf, released, panicked, gauge, todo, ret>>
  BY DEF HandlerFails, tsVars
<1>. USE <1>1, <1>2, <1>3 DEF IInv, TypeOK, RegTypeOK, TsTypeOK
<1>4. TypeOK'
  BY DEF HttpStates, NodeStates, Phases
<1>5. OpShape' /\ PhaseShape'
  BY DEF OpShape, Replacing, Starting, Idle, Begun, Ops, Kinds, Steps, PhaseShape
<1>6. Fresh' /\ Entries'
  BY DEF Fresh, Entries
<1>7. Agreement' /\ NoneInMap'
  BY DEF Agreement, NoneInMap
<1>8. ClosedOnce' /\ StoppedEntries'
  BY DEF ClosedOnce, StoppedEntries, Entries, Replacing
<1>9. Overwritten' /\ ShutDown'
  BY DEF Overwritten, Replacing, StoppedEntries, ShutDown
<1>10. NoOrphan' /\ NoNodeLeak'
  BY DEF NoOrphan, NoNodeLeak
<1>11. Closers'
  BY DEF Closers
<1>12. Counted'
  BY DEF Counted, Registered
<1>. QED BY <1>4, <1>5, <1>6, <1>7, <1>8, <1>9, <1>10, <1>11, <1>12

\* startService stores the service: it overwrites nothing, or a stopped service.
LEMMA ServesStep ==
    ASSUME IInv, Serves, UNCHANGED phase
    PROVE  IInv'
<1>1. /\ TypeOK /\ op.at = "handler" /\ op.kind \in {"start", "add", "update"}
      /\ op.name \in Names /\ phase # "closing" /\ phase # "stopping" /\ phase # "new" /\ op.inst \in Inst
      /\ servers[op.name] = op.inst /\ http[op.inst] = "none"
  BY DEF IInv, Serves, OpShape, PhaseShape, Replacing, Starting, Kinds, Ops, TypeOK,
        RegTypeOK, TsTypeOK, Phases
<1>2. /\ owner[op.inst] = op.name /\ node[op.inst] = "up"
      /\ \A n \in Names : services[n] # op.inst
      /\ services[op.name] = Absent \/ http[services[op.name]] = "stopped"
  BY <1>1 DEF IInv, Entries, Overwritten, Replacing
<1>3. \/ /\ op.kind = "start" /\ op' \in Ops /\ op'.kind = "start" /\ op'.at = "each"
      \/ /\ op.kind # "start" /\ op' \in Ops /\ op' = Idle /\ op'.kind = "none" /\ op'.at = "idle"
  <2>1. CASE op.kind = "start"
    <3>1. /\ op' = [Begun("start", "each", None, None, Absent) EXCEPT !.won = TRUE, !.lost = op.lost]
          /\ op.lost \in BOOLEAN
      BY <1>1, <2>1 DEF Serves, TypeOK, RegTypeOK, Ops
    <3>. QED BY <2>1, <3>1, BetweenStarts
  <2>2. CASE op.kind # "start"
    BY <2>2, IdleIsOp DEF Serves, Return
  <2>. QED BY <2>1, <2>2
<1>4. /\ services' = [services EXCEPT ![op.name] = op.inst]
      /\ http' = [http EXCEPT ![op.inst] = "serving"] /\ conf' = [conf EXCEPT ![op.inst] = op.cfg]
      /\ UNCHANGED <<servers, owner, node, made, doomed>>
      /\ UNCHANGED <<config, released, panicked, todo>>
  BY DEF Serves, tsVars
<1>5. /\ op.kind = "add" => gauge' = IF Metrics THEN Cardinality(Registered(services')) ELSE gauge
      /\ op.kind # "add" => gauge' = gauge
      /\ ret' \in {"none", "ok", "partial", "error"}
  BY <1>1 DEF Serves, SetActive, Return, TypeOK, RegTypeOK
<1>6. gauge' \in Nat
  BY <1>1, <1>4, <1>5, CountIsNat DEF TypeOK, RegTypeOK
<1>7. op.kind = "update" => Registered(services') = Registered(services)
  BY <1>1, <1>4 DEF IInv, Overwritten, Registered, TypeOK, RegTypeOK, TsTypeOK
<1>. USE <1>1, <1>2, <1>3, <1>4, <1>5, <1>6, <1>7 DEF IInv, TypeOK, RegTypeOK, TsTypeOK
<1>8. TypeOK'
  BY DEF HttpStates, NodeStates, Phases, Ops
<1>9. OpShape' /\ PhaseShape'
  BY DEF OpShape, Replacing, Starting, Idle, Begun, Ops, Kinds, Steps, PhaseShape
<1>10. Fresh' /\ Entries'
  BY DEF Fresh, Entries
<1>11. Agreement' /\ NoneInMap'
  BY DEF Agreement, NoneInMap
<1>12. ClosedOnce' /\ StoppedEntries'
  BY DEF ClosedOnce, StoppedEntries, Entries
<1>13. Overwritten' /\ ShutDown'
  BY DEF Overwritten, Replacing, StoppedEntries, ShutDown
<1>14. NoOrphan' /\ NoNodeLeak'
  BY DEF NoOrphan, NoNodeLeak
<1>15. Closers'
  BY DEF Closers
<1>16. Counted'
  BY DEF Counted
<1>. QED BY <1>8, <1>9, <1>10, <1>11, <1>12, <1>13, <1>14, <1>15, <1>16

\* There is no auth key: a new service is not there, an updated one leaves the registry.
LEMMA NotAuthorizedStep ==
    ASSUME IInv, NotAuthorized, UNCHANGED phase
    PROVE  IInv'
<1>1. /\ TypeOK /\ op.at = "listen" /\ op.kind \in {"start", "add", "update"}
      /\ op.name \in Names /\ phase # "closing" /\ doomed = {} /\ servers[op.name] = Absent
      /\ made + 1 \in Inst /\ node[made + 1] = "none" /\ http[made + 1] = "none"
  BY DEF IInv, NotAuthorized, ListenNoAuth, Make,
        OpShape, PhaseShape, Replacing, Starting, Kinds, Ops, NoneInMap, Fresh, TypeOK,
        RegTypeOK, TsTypeOK
<1>2. \/ /\ op.kind = "start" /\ op' \in Ops /\ op'.kind = "start" /\ op'.at = "each"
      \/ /\ op.kind # "start" /\ op' \in Ops /\ op' = Idle /\ op'.kind = "none" /\ op'.at = "idle"
  BY <1>1, StartHasFailed DEF NotAuthorized
<1>3. /\ services' = IF op.kind = "update" THEN [services EXCEPT ![op.name] = Absent] ELSE services
      /\ gauge' = IF op.kind = "update" /\ Metrics THEN Cardinality(Registered(services')) ELSE gauge
      /\ ret' \in {"none", "ok", "partial", "error"}
  BY <1>1, StartHasFailed DEF NotAuthorized
<1>4. /\ made' = made + 1 /\ owner' = [owner EXCEPT ![made + 1] = op.name] /\ doomed' = doomed
      /\ node'[made + 1] = "unstarted" /\ node' \in [Inst -> NodeStates]
      /\ \A i \in Inst \ {made + 1} : node'[i] = node[i]
      /\ UNCHANGED servers /\ UNCHANGED <<config, http, conf, released, panicked, todo>>
  BY <1>1 DEF NotAuthorized, ListenNoAuth, Make, TypeOK, RegTypeOK,
        TsTypeOK, NodeStates
<1>5. gauge' \in Nat
  BY <1>1, <1>3, CountIsNat DEF TypeOK, RegTypeOK
<1>6. \A n \in Names : servers[n] # made + 1 /\ services[n] # made + 1
  BY <1>1 DEF IInv, Entries
<1>. USE <1>1, <1>2, <1>3, <1>4, <1>5, <1>6 DEF IInv, TypeOK, RegTypeOK, TsTypeOK
<1>7. TypeOK'
  BY DEF HttpStates, NodeStates, Phases
<1>8. OpShape' /\ PhaseShape'
  BY DEF OpShape, Replacing, Starting, Idle, Begun, Ops, Kinds, Steps, PhaseShape
<1>9. Fresh' /\ Entries'
  BY DEF Fresh, Entries
<1>10. Agreement' /\ NoneInMap'
  BY DEF Agreement, Overwritten, NoneInMap
<1>11. ClosedOnce' /\ StoppedEntries'
  BY DEF ClosedOnce, StoppedEntries, Entries, Overwritten
<1>12. Overwritten' /\ ShutDown'
  BY DEF Overwritten, Replacing, StoppedEntries, ShutDown
<1>13. NoOrphan'
  BY DEF NoOrphan, Overwritten, Replacing
<1>14. NoNodeLeak'
  BY DEF NoNodeLeak
<1>15. Closers'
  BY DEF Closers
<1>16. Counted'
  BY DEF Counted
<1>. QED BY <1>7, <1>8, <1>9, <1>10, <1>11, <1>12, <1>13, <1>14, <1>15, <1>16

\* CreateHandler has failed and the node is given up, or Listen has and its Close has returned.
LEMMA GaveUpStep ==
    ASSUME IInv, GaveUp \/ Abandoned, UNCHANGED phase
    PROVE  IInv'
<1>1. /\ TypeOK /\ op.at \in {"giveup", "abandon"} /\ op.kind \in {"start", "add", "update"}
      /\ op.name \in Names /\ phase # "closing" /\ doomed = {} /\ servers[op.name] = Absent
  BY DEF IInv, GaveUp, Abandoned, OpShape, PhaseShape, Replacing, Starting, Kinds, Ops,
        NoneInMap, TypeOK, RegTypeOK
<1>2. \/ /\ op.kind = "start" /\ op' \in Ops /\ op'.kind = "start" /\ op'.at = "each"
      \/ /\ op.kind # "start" /\ op' \in Ops /\ op' = Idle /\ op'.kind = "none" /\ op'.at = "idle"
  BY <1>1, StartHasFailed DEF GaveUp, Abandoned
<1>3. /\ services' = IF op.kind = "update" THEN [services EXCEPT ![op.name] = Absent] ELSE services
      /\ gauge' = IF op.kind = "update" /\ Metrics THEN Cardinality(Registered(services')) ELSE gauge
      /\ ret' \in {"none", "ok", "partial", "error"}
  BY <1>1, StartHasFailed DEF GaveUp, Abandoned
<1>4. /\ node' \in [Inst -> NodeStates] /\ UNCHANGED <<servers, owner, made, doomed>>
      /\ \A i \in Inst : \/ node'[i] = node[i] /\ (i = op.inst => node[i] = "closed")
                         \/ node[i] = "closing" /\ node'[i] = "overdue"
  <2>1. CASE GaveUp
    BY <1>1, <2>1, WaitEnded DEF GaveUp
  <2>2. CASE Abandoned
    BY <1>1, <2>2 DEF Abandoned, ListenFailed, tsVars, TypeOK, RegTypeOK, TsTypeOK
  <2>. QED BY <2>1, <2>2
<1>5. gauge' \in Nat /\ UNCHANGED <<config, http, conf, released, panicked, todo>>
  BY <1>1, <1>3, CountIsNat DEF GaveUp, Abandoned, TypeOK, RegTypeOK
<1>. USE <1>1, <1>2, <1>3, <1>4, <1>5 DEF IInv, TypeOK, RegTypeOK, TsTypeOK
<1>6. TypeOK'
  BY DEF HttpStates, NodeStates, Phases
<1>7. OpShape' /\ PhaseShape'
  BY DEF OpShape, Replacing, Starting, Idle, Begun, Ops, Kinds, Steps, PhaseShape
<1>8. Fresh'
  BY DEF Fresh, Entries
<1>9. Entries'
  BY DEF Entries
<1>10. Agreement' /\ NoneInMap'
  BY DEF Agreement, Overwritten, NoneInMap
<1>11. ClosedOnce' /\ StoppedEntries'
  BY DEF ClosedOnce, StoppedEntries, Entries, Overwritten
<1>12. Overwritten' /\ ShutDown'
  BY DEF Overwritten, Replacing, StoppedEntries, ShutDown
<1>13. NoOrphan'
  BY DEF NoOrphan, Overwritten, Replacing
<1>14. NoNodeLeak'
  BY DEF NoNodeLeak
<1>15. Closers'
  BY DEF Closers
<1>16. Counted'
  BY DEF Counted
<1>. QED BY <1>6, <1>7, <1>8, <1>9, <1>10, <1>11, <1>12, <1>13, <1>14, <1>15, <1>16

\* StartServices counts what it has started.
LEMMA StartReturnsStep ==
    ASSUME IInv, StartReturns, UNCHANGED phase
    PROVE  IInv'
<1>1. TypeOK /\ op.at = "each" /\ op.kind = "start" /\ todo = {}
  BY DEF IInv, StartReturns, At
<1>2. /\ op' = Idle /\ op' \in Ops /\ op'.kind = "none" /\ op'.at = "idle"
      /\ ret' \in {"ok", "partial", "error"}
  BY DEF StartReturns, Return, Idle, Begun, Ops, Kinds, Steps
<1>3. /\ gauge' = IF Metrics THEN Cardinality(Registered(services)) ELSE gauge
      /\ UNCHANGED <<servers, owner, node, made, doomed>>
      /\ UNCHANGED <<config, services, http, conf, released, panicked, todo>>
  BY DEF StartReturns, SetActive, tsVars
<1>4. gauge' \in Nat
  BY <1>1, <1>3, CountIsNat DEF TypeOK, RegTypeOK
<1>. USE <1>1, <1>2, <1>3, <1>4 DEF IInv, TypeOK, RegTypeOK, TsTypeOK
<1>5. TypeOK'
  BY DEF HttpStates, NodeStates, Phases
<1>6. OpShape' /\ PhaseShape'
  BY DEF OpShape, Replacing, Starting, Idle, Begun, Ops, Kinds, Steps, PhaseShape
<1>7. Fresh' /\ Entries'
  BY DEF Fresh, Entries
<1>8. Agreement' /\ NoneInMap'
  BY DEF Agreement, NoneInMap
<1>9. ClosedOnce' /\ StoppedEntries'
  BY DEF ClosedOnce, StoppedEntries, Entries, Replacing
<1>10. Overwritten' /\ ShutDown'
  BY DEF Overwritten, Replacing, StoppedEntries, ShutDown
<1>11. NoOrphan' /\ NoNodeLeak'
  BY DEF NoOrphan, NoNodeLeak
<1>12. Closers'
  BY DEF Closers
<1>13. Counted'
  BY DEF Counted, Registered
<1>. QED BY <1>5, <1>6, <1>7, <1>8, <1>9, <1>10, <1>11, <1>12, <1>13

-----------------------------------------------------------------------------
(* The inductive invariant. *)

\* A new registry is empty.
LEMMA InitIInv == Init => IInv
<1>. SUFFICES ASSUME Init PROVE IInv
  OBVIOUS
<1>1. TypeOK
  BY IdleIsOp DEF Init, RegInit, TsInit, TypeOK, RegTypeOK, TsTypeOK, Phases,
        HttpStates, NodeStates
<1>2. OpShape /\ PhaseShape /\ Fresh /\ Entries /\ Agreement /\ NoneInMap /\ ClosedOnce
  BY <1>1, IdleIsOp DEF Init, RegInit, TsInit, OpShape, PhaseShape, Fresh, Entries,
        Agreement,
        NoneInMap, ClosedOnce, Replacing, Starting, TypeOK, RegTypeOK, TsTypeOK
<1>3. StoppedEntries /\ Overwritten /\ ShutDown /\ Closers /\ NoOrphan /\ NoNodeLeak
  BY <1>1, IdleIsOp DEF Init, RegInit, TsInit, StoppedEntries, Overwritten,
        ShutDown, Closers,
        NoOrphan, NoNodeLeak, Replacing
<1>4. Registered(services) = {}
  BY DEF Init, RegInit, Registered
<1>5. Counted
  BY <1>4, FS_EmptySet DEF Init, RegInit, Counted
<1>. QED BY <1>1, <1>2, <1>3, <1>5 DEF IInv

\* Every step keeps it.
LEMMA StepIInv == IInv /\ [Next]_vars => IInv'
<1>. SUFFICES ASSUME IInv, [Next]_vars PROVE IInv'
  OBVIOUS
<1>1. CASE UNCHANGED vars
  BY <1>1 DEF vars, tsVars, regVars, IInv, TypeOK, RegTypeOK, TsTypeOK, OpShape,
        PhaseShape,
        Fresh, Entries, Agreement, NoneInMap, ClosedOnce, StoppedEntries, Overwritten, ShutDown,
        Closers, Counted, NoOrphan, NoNodeLeak
<1>2. CASE Startup
  BY <1>2, StartServicesStep DEF Startup
<1>3. CASE Change
  BY <1>3, AddServiceStep, UpdateServiceStep, RemoveServiceStep, RefuseStep
     DEF Change, AddRefused, UpdateRefused, RemoveRefused
<1>4. CASE Stopping
  BY <1>4, ShutdownStep DEF Stopping
<1>5. CASE Closing
  BY <1>5, CloseAllStep DEF Closing
<1>6. CASE CloseStep
  BY <1>6, CloseOneBeginsStep, CloseOneEndsStep DEF CloseStep
<1>7. CASE Elsewhere
  BY <1>7, NodeClosesStep, ServeFailsStep DEF Elsewhere
<1>8. CASE Working
  <2>1. CASE Stopped \/ NotStopped \/ CloseNode \/ Removed \/ OldClosed
    BY <1>8, <2>1, StoppedStep, NotStoppedStep, CloseNodeStep, RemovedStep, OldClosedStep
       DEF Working
  <2>2. CASE Listening \/ NotAuthorized \/ NotListening \/ Abandoned
    BY <1>8, <2>2, ListeningStep, NotAuthorizedStep, NotListeningStep, GaveUpStep DEF Working
  <2>5. CASE HandlerFails \/ Serves \/ GaveUp
    BY <1>8, <2>5, HandlerFailsStep, ServesStep, GaveUpStep DEF Working
  <2>3. CASE \E n \in Names : StartNext(n) \/ ShutdownStops(n)
    BY <1>8, <2>3, StartNextStep, ShutdownStopsStep DEF Working
  <2>4. CASE StartReturns \/ ShutdownReturns
    BY <1>8, <2>4, StartReturnsStep, ShutdownReturnsStep DEF Working
  <2>. QED BY <1>8, <2>1, <2>2, <2>3, <2>4, <2>5 DEF Working, OpStep, InnerStep
<1>. QED BY <1>1, <1>2, <1>3, <1>4, <1>5, <1>6, <1>7, <1>8 DEF Next

LEMMA Inductive == Safety => []IInv
<1>. QED BY InitIInv, StepIInv, PTL DEF Safety

-----------------------------------------------------------------------------
(* The theorems. *)

\* The state of the registry, of its nodes and of the operation in hand is always one of
\* those service.go and tailscale.go have a case for.
THEOREM TypeCorrect == Safety => []TypeOK
<1>1. IInv => TypeOK
  BY DEF IInv
<1>. QED BY <1>1, Inductive, PTL

\* Whatever calls are made and whatever fails, Remove, Update and Shutdown can reach every
\* http.Server that may still answer requests (service.go, r.services).
THEOREM NoServiceIsLost == Safety => []NoOrphan
<1>1. IInv => NoOrphan
  BY DEF IInv
<1>. QED BY <1>1, Inductive, PTL

\* Every node that is up is one that CloseService or Close will find (tailscale.go,
\* s.serviceServers).
THEOREM NoNodeIsLost == Safety => []NoNodeLeak
<1>1. IInv => NoNodeLeak
  BY DEF IInv
<1>. QED BY <1>1, Inductive, PTL

\* r.services and s.serviceServers agree between operations, until Close.
THEOREM TheMapsAgree == Safety => []MapsAgree
<1>1. ASSUME IInv, op = Idle, phase # "closing"
      PROVE  servers = services
  <2>1. \A n \in Names : servers[n] = services[n]
    BY <1>1, IdleIsOp DEF IInv, Agreement
  <2>2. servers \in [Names -> Inst \cup {Absent}] /\ services \in [Names -> Inst \cup {Absent}]
    BY <1>1 DEF IInv, TypeOK, RegTypeOK, TsTypeOK
  <2>. QED BY <2>1, <2>2
<1>2. IInv => MapsAgree
  BY <1>1 DEF MapsAgree
<1>. QED BY <1>2, Inductive, PTL

\* No service accepts requests on a node that is being closed: the stop comes first.
THEOREM StoppedBeforeClosed == Safety => []ServingNodeUp
<1>1. ASSUME IInv, NEW i \in Inst, http[i] = "serving"
      PROVE  node[i] = "up"
  <2>1. PICK n \in Names : owner[i] = n /\ services[n] = i
    BY <1>1 DEF IInv, NoOrphan
  <2>2. phase # "closing"
    BY <1>1 DEF IInv, PhaseShape
  <2>3. op.at \in Replacing => op.name # n
    BY <1>1, <2>1 DEF IInv, Overwritten
  <2>. QED BY <1>1, <2>1, <2>2, <2>3 DEF IInv, Agreement, Entries, Replacing
<1>2. IInv => ServingNodeUp
  BY <1>1 DEF ServingNodeUp
<1>. QED BY <1>2, Inductive, PTL

\* Two nodes of one service live at once only when the older one's Close has outlasted its
\* timeout (closeServerWithTimeout).
THEOREM OneNodeAtATime == Safety => []OneLiveNode
<1>1. ASSUME IInv, NEW i \in Inst, NEW j \in Inst, owner[i] = owner[j],
             node[i] \in {"up", "closing"}, node[j] \in {"up", "closing"}
      PROVE  i = j
  <2>1. owner[i] \in Names /\ node[i] # "none"
    BY <1>1 DEF IInv, Fresh
  <2>2. CASE i \in doomed \/ j \in doomed
    BY <1>1, <2>1, <2>2 DEF IInv, PhaseShape, OpShape, Closers, NoNodeLeak
  <2>3. CASE i \notin doomed /\ j \notin doomed
    <3>1. \A k \in {i, j} : \/ servers[owner[k]] = k
                            \/ /\ op.at \in {"wait", "abandon", "giveup"} /\ op.inst = k
                               /\ op.name = owner[k] /\ servers[op.name] = Absent
      BY <1>1, <2>3 DEF IInv, NoNodeLeak, Closers, OpShape, NoneInMap
    <3>. QED BY <1>1, <3>1
  <2>. QED BY <2>2, <2>3
<1>2. IInv => OneLiveNode
  BY <1>1 DEF OneLiveNode, Live
<1>. QED BY <1>2, Inductive, PTL

\* Service.Stop closes the handler of each service once, whatever stops failed or were
\* repeated: with a metrics collector the second close would be of a closed channel.
THEOREM HandlersCloseOnce == Safety => []NoDoubleClose
<1>1. IInv => NoDoubleClose
  BY DEF IInv, ClosedOnce, NoDoubleClose
<1>. QED BY <1>1, Inductive, PTL

\* Close finds every node that is still up in s.serviceServers, whatever failed operations
\* left there (tailscale.go, Server.Close).
THEOREM CloseMissesNothing == Safety => []NothingLeftUp
<1>1. ASSUME IInv, phase = "closing", doomed = {}, NEW i \in Inst
      PROVE  node[i] # "up"
  BY <1>1 DEF IInv, PhaseShape, NoNodeLeak
<1>2. IInv => NothingLeftUp
  BY <1>1 DEF NothingLeftUp
<1>. QED BY <1>2, Inductive, PTL

\* Whenever the lock is free the active services gauge is the size of r.services.
THEOREM TheGaugeCounts == Safety => []GaugeCounts
<1>1. IInv => GaugeCounts
  BY IdleIsOp DEF IInv, Counted, GaugeCounts
<1>. QED BY <1>1, Inductive, PTL

\* A service stops accepting requests only by an operation on it, by Shutdown or by itself;
\* an update that validateServiceConfig refuses leaves it alone.
THEOREM OnlyWhenAsked == Safety => StopsOnlyWhenAsked
<1>. DEFINE Asked == \A i \in Inst : http[i] = "serving" /\ http'[i] \notin {"serving", "dead"} =>
                \/ op.kind = "shutdown"
                \/ op.kind = "remove" /\ op.name = owner[i]
                \/ op.kind = "update" /\ op.name = owner[i] /\ op.cfg \notin Rejected
<1>1. ASSUME IInv, Stopped \/ NotStopped
      PROVE  Asked
  <2>1. /\ op.kind \in {"remove", "update"} /\ op.at = "stop"
        /\ \A i \in Inst : i # op.inst => http'[i] = http[i]
    BY <1>1 DEF Stopped, NotStopped, At, StopSucceeds, StopTimesOut, IInv, TypeOK,
          RegTypeOK
  <2>2. owner[op.inst] = op.name /\ (op.kind = "update" => op.cfg \notin Rejected)
    BY <1>1, <2>1 DEF IInv, OpShape, Entries, Replacing
  <2>. QED BY <2>1, <2>2
<1>2. ASSUME IInv, NEW n \in Names, ShutdownStops(n)
      PROVE  Asked
  BY <1>2 DEF ShutdownStops, At
<1>3. ASSUME IInv, Serves
      PROVE  Asked
  BY <1>3 DEF Serves, IInv, TypeOK, RegTypeOK
<1>4. ASSUME IInv, NEW i \in Inst, ServeFails(i)
      PROVE  Asked
  BY <1>4 DEF ServeFails, IInv, TypeOK, RegTypeOK
<1>5. ASSUME IInv, Next, ~(Stopped \/ NotStopped), ~Serves,
             \A n \in Names : ~ShutdownStops(n), \A i \in Inst : ~ServeFails(i)
      PROVE  UNCHANGED http
  BY <1>5 DEF Next, Startup, Change, Stopping, Closing, CloseStep, Elsewhere,
        Working, OpStep,
        InnerStep, NotAuthorized, Abandoned, StartServices, AddService, AddRefused, RemoveService, RemoveRefused,
        UpdateService, UpdateRefused, Refuse, Shutdown, ShutdownReturns, CloseNode, Removed,
        OldClosed, StartNext, Listening, NotListening, HandlerFails, GaveUp, StartReturns,
        NodeClosed, regVars
<1>6. IInv /\ [Next]_vars => [Asked]_vars
  BY <1>1, <1>2, <1>3, <1>4, <1>5
<1>. QED BY <1>6, Inductive, PTL DEF Safety, StopsOnlyWhenAsked

-----------------------------------------------------------------------------
(* OrderlyRegistry implements ServiceSet: the steps are those of PromiseProofs. *)

LEMMA IInvIsShape ==
    ASSUME IInv
    PROVE  Shape
<1>1. RegTypeOK /\ op.kind \in Kinds /\ op.at \in Steps /\ todo \subseteq Names
  BY DEF IInv, TypeOK, RegTypeOK, Ops
<1>2. /\ op.at \notin {"idle", "each"} => op.name \in Names
      /\ op.at \in {"listen", "abandon", "handler", "discard", "giveup"} =>
            op.kind \in {"start", "add", "update"}
      /\ op.at = "stop" => op.inst # Absent /\ services[op.name] = op.inst
  BY <1>1 DEF IInv, OpShape, Replacing, Starting, Kinds, Steps
<1>3. \A m, n \in Names : services[m] # Absent /\ services[m] = services[n] => m = n
  BY DEF IInv, Entries
<1>4. op.at = "handler" => op.inst # Absent /\ \A n \in Names : services[n] # op.inst
  BY DEF IInv, OpShape, Entries
<1>5. op.kind = "shutdown" => \A n \in todo : services[n] # Absent
  BY <1>1 DEF IInv, ShutDown
<1>. QED BY <1>1, <1>2, <1>3, <1>4, <1>5 DEF Shape

LEMMA StepMaps == IInv /\ PInv /\ Tally /\ [Next]_vars => PInv' /\ Tally' /\ Sim
<1>. SUFFICES ASSUME IInv, PInv, Tally, [Next]_vars PROVE PInv' /\ Tally' /\ Sim
  OBVIOUS
<1>0. Shape
  BY IInvIsShape
<1>1. CASE UNCHANGED regVars
  BY <1>0, <1>1, QuietStep DEF regVars, Sim
<1>2. CASE Startup
  <2>1. \A n \in Names : services[n] = Absent
    BY <1>2 DEF Startup, IInv, PhaseShape
  <2>. QED BY <1>0, <1>2, <2>1, StartServicesMaps DEF Startup
<1>3. CASE Change
  <2>1. \/ Refuse
        \/ \E n \in Names, c \in Cfgs : AddService(n, c) \/ UpdateService(n, c)
        \/ \E n \in Names : RemoveService(n)
    BY <1>3 DEF Change, AddRefused, UpdateRefused, RemoveRefused
  <2>2. ASSUME NEW n \in Names, RemoveService(n)
        PROVE  PInv' /\ Tally' /\ Sim
    BY <1>0, <2>2, RemoveServiceMaps
  <2>3. ASSUME NEW n \in Names, NEW c \in Cfgs, AddService(n, c) \/ UpdateService(n, c)
        PROVE  PInv' /\ Tally' /\ Sim
    BY <1>0, <2>3, ChangeMaps
  <2>. QED BY <1>0, <2>1, <2>2, <2>3, RefuseMaps
<1>4. CASE Stopping
  BY <1>0, <1>4, ShutdownMaps DEF Stopping
<1>5. CASE Elsewhere
  BY <1>0, <1>5, ElsewhereMaps DEF Elsewhere
<1>6. CASE Working
  BY <1>0, <1>6, InnerStepMaps, StartReturnsMaps, ShutdownReturnsMaps DEF Working, OpStep
<1>. QED BY <1>1, <1>2, <1>3, <1>4, <1>5, <1>6 DEF Next, Closing, CloseStep, vars

\* The registry implements ServiceSet: each of its operations (service.go, StartServices to
\* UpdateService) changes the set as its return value says, whatever fails on the way, and
\* between operations nothing changes.
THEOREM ThePromiseIsKept == Safety => KeepsItsPromise
<1>1. IInv /\ PInv /\ Tally /\ [Next]_vars => PInv' /\ Tally' /\ [Promised!Next]_(Promised!vars)
  BY StepMaps DEF Sim
<1>2. Init => PInv /\ Tally /\ Promised!Init
  BY InitMaps DEF Init
<1>3. Safety => [](PInv /\ Tally)
  BY <1>1, <1>2, Inductive, PTL DEF Safety
<1>. QED BY <1>1, <1>2, <1>3, Inductive, PTL DEF Safety, KeepsItsPromise, Promised!Spec
=============================================================================
