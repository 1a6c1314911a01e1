------------------------------ MODULE AppProofs ------------------------------
(***************************************************************************)
(* The safety properties of App, for every set of services, configurations *)
(* and nodes, and any number of reloads: starter, watcher and closer take  *)
(* their steps in any order, and meet at r.mu.                             *)
(*                                                                         *)
(* What the lock protects holds whoever comes first (Entries, InHand,      *)
(* Ahead, Callers, Plans).  The rest holds until a configuration overtakes *)
(* the start (InOrder): then StartServices finds services it does not      *)
(* expect.                                                                 *)
(***************************************************************************)
EXTENDS App, FiniteSetTheorems, TLAPS

\* The steps between the stop of the old service and the return, and those of startService.
Starting == {"listen", "abandon", "handler", "discard", "giveup"}
Replacing == {"close", "wait"} \cup Starting
Reloading == {"add", "remove", "update"}

\* What the maps point to has been made, and for that name.
Entries ==
    \A n \in Names :
        /\ services[n] <= made /\ servers[n] <= made
        /\ services[n] # Absent => owner[services[n]] = n

\* Which steps each operation takes, and what it has in hand at each.
InHand ==
    /\ op.kind = "none" => op = Idle
    /\ op.kind = "start" => op.at \in Starting \cup {"each"}
    /\ op.kind = "add" => op.at \in Starting
    /\ op.kind = "remove" => op.at \in {"stop", "close", "wait"}
    /\ op.kind = "update" => op.at \in Replacing \cup {"stop"}
    /\ op.kind = "shutdown" => op.at = "each" /\ \A n \in todo : services[n] # Absent
    /\ op.at \in Replacing \cup {"stop"} => op.name \in Names
    /\ op.kind = "start" /\ op.at # "each" => op.cfg = config[op.name]
    /\ op.inst <= made
    /\ op.at = "stop" => op.inst # Absent /\ services[op.name] = op.inst
    /\ op.at \in {"handler", "discard"} =>
          /\ op.inst # Absent /\ owner[op.inst] = op.name
          /\ servers[op.name] \in {Absent, op.inst}
    /\ op.at = "abandon" => op.inst # Absent
    /\ op.at \in {"wait", "abandon", "giveup"} => servers[op.name] = Absent
    /\ op.at = "listen" /\ op.kind # "start" => servers[op.name] = Absent
    /\ op.at \in Replacing /\ op.kind # "start" =>
          services[op.name] = Absent \/ http[services[op.name]] = "stopped"

\* A node in the map is its service's, or is being made for it.
Ahead ==
    \A n \in Names : servers[n] # Absent =>
        \/ servers[n] = services[n]
        \/ op.at \in {"handler", "discard"} /\ op.name = n

\* Which goroutine an operation works for, and what it was called with.
Callers ==
    /\ starter = "created" => watcher = "none"
    /\ op.kind = "start" <=> starter = "starting"
    /\ op.kind \in Reloading =>
          /\ watcher = "reloading"
          /\ op.name \notin plan.remove \cup plan.add \cup plan.update
          /\ pending[op.name] # cfg[op.name]
    /\ op.kind = "remove" => pending[op.name] = None
    /\ op.kind \in {"add", "update"} => op.cfg = pending[op.name]

\* What a reload has still to do is a difference between the two configurations.
Plans ==
    watcher = "reloading" =>
        /\ \A n \in plan.remove : cfg[n] # None /\ pending[n] = None
        /\ \A n \in plan.add : cfg[n] = None /\ pending[n] # None
        /\ \A n \in plan.update : cfg[n] # None /\ pending[n] # None /\ cfg[n] # pending[n]

\* StartServices finds nothing of the services it has still to start, and no reload runs
\* before it is through.
Untouched ==
    /\ starter # "up" => watcher # "reloading"
    /\ starter \in {"created", "watching", "metrics"} => \A n \in Names : services[n] = Absent
    /\ op.kind = "start" =>
          /\ \A n \in todo : services[n] = Absent
          /\ op.at # "each" => op.name \notin todo /\ services[op.name] = Absent

\* What runs under a name for which nothing has failed.
AsConfigured(n) ==
    /\ starter # "up" => cfg = config /\ watcher # "reloading"
    /\ starter = "starting" =>
          RunningCfg(n) = cfg[n] \/ n \in todo \/ (op.at # "each" /\ op.name = n)
    /\ starter = "up" =>
          IF watcher # "reloading" \/ n \in plan.remove \cup plan.add \cup plan.update
          THEN RunningCfg(n) = cfg[n]
          ELSE RunningCfg(n) = pending[n] \/ (op.kind \in Reloading /\ op.name = n)

InOrder ==
    ~raced => /\ Untouched /\ NoOrphan /\ NoNodeLeak
              /\ \A n \in Names \ faulty : AsConfigured(n)

IInv == TypeOK /\ Entries /\ InHand /\ Ahead /\ Callers /\ Plans /\ InOrder

-----------------------------------------------------------------------------
(* Facts about the operation and the registry *)

USE TsAssumption, RegistryAssumption, AppAssumption DEF Inst, Absent

LEMMA IdleIsOp == Idle \in Ops /\ Idle.kind = "none" /\ Idle.at = "idle" /\ Idle.inst = Absent
BY DEF Idle, Begun, Ops, Kinds, Steps

LEMMA OpTyped ==
    ASSUME TypeOK
    PROVE  /\ op.kind \in Kinds /\ op.at \in Steps /\ op.name \in Names \cup {None}
           /\ op.cfg \in Cfgs \cup {None} /\ op.inst \in Inst \cup {Absent}
           /\ op.won \in BOOLEAN /\ op.lost \in BOOLEAN
BY DEF TypeOK, RegTypeOK, Ops

\* len(r.services) is a number.
LEMMA CountIsNat ==
    ASSUME NEW svcs
    PROVE  Cardinality(Registered(svcs)) \in Nat
<1>1. IsFiniteSet(Registered(svcs))
  BY FS_Subset DEF Registered
<1> QED  BY <1>1, FS_CardinalityType

\* StartServices between two services.
LEMMA BetweenStarts ==
    ASSUME NEW w \in BOOLEAN, NEW l \in BOOLEAN, NEW o,
           o = [Begun("start", "each", None, None, Absent) EXCEPT !.won = w, !.lost = l]
    PROVE  o \in Ops /\ o.kind = "start" /\ o.at = "each" /\ o.inst = Absent
<1>1. o.kind = "start" /\ o.at = "each" /\ o.inst = Absent
  BY DEF Begun
<1>2. o = [kind |-> "start", at |-> "each", name |-> None, cfg |-> None, inst |-> 0,
           won |-> w, lost |-> l]
  BY DEF Begun
<1>3. [kind |-> "start", at |-> "each", name |-> None, cfg |-> None, inst |-> 0,
       won |-> w, lost |-> l] \in Ops
  BY DEF Ops, Kinds, Steps
<1>4. o \in Ops
  BY <1>2, <1>3, Zenon
<1> QED  BY <1>1, <1>4, Zenon

\* A wait for a node ends: it is closed, or is overdue now.
LEMMA WaitEnded ==
    ASSUME TypeOK, Waited
    PROVE  /\ node' \in [Inst -> NodeStates] /\ UNCHANGED <<servers, owner, made, doomed>>
           /\ \A i \in Inst : node'[i] = "up" => node[i] = "up"
<1>1. op.inst \in Inst \cup {Absent} /\ node \in [Inst -> NodeStates]
  BY OpTyped DEF TypeOK, RegTypeOK, TsTypeOK
<1> QED  BY <1>1 DEF Waited, WaitEnds, NodeStates

\* What the caller of startService does with its error.
LEMMA StartHasFailed ==
    ASSUME TypeOK, op.kind \in {"start", "add", "update"}, StartFailed
    PROVE  /\ op' \in Ops /\ op'.inst = Absent
           /\ \/ op.kind = "start" /\ op'.kind = "start" /\ op'.at = "each"
              \/ op.kind # "start" /\ op' = Idle /\ op'.kind = "none" /\ op'.at = "idle"
           /\ services' = IF op.kind = "update" THEN [services EXCEPT ![op.name] = Absent]
                          ELSE services
           /\ gauge' \in Nat
           /\ ret' \in {"none", "ok", "partial", "error"}
<1>1. op.won \in BOOLEAN /\ op.lost \in BOOLEAN /\ ret \in {"none", "ok", "partial", "error"}
      /\ gauge \in Nat
  BY OpTyped DEF TypeOK, RegTypeOK
<1>2. CASE op.kind = "start"
  <2>1. op' = [Begun("start", "each", None, None, Absent) EXCEPT !.won = op.won, !.lost = TRUE]
        /\ UNCHANGED <<services, gauge, ret>>
    BY <1>2 DEF StartFailed
  <2>2. op' \in Ops /\ op'.kind = "start" /\ op'.at = "each" /\ op'.inst = Absent
    <3>1. PICK w \in BOOLEAN, l \in BOOLEAN :
             op' = [Begun("start", "each", None, None, Absent) EXCEPT !.won = w, !.lost = l]
      BY <1>1, <2>1
    <3> QED  BY ONLY <3>1, BetweenStarts
  <2> QED  BY <1>1, <1>2, <2>1, <2>2
<1>3. CASE op.kind # "start"
  BY <1>1, <1>3, IdleIsOp, CountIsNat DEF StartFailed, Return, SetActive
<1> QED  BY <1>2, <1>3

-----------------------------------------------------------------------------
(* Steps that leave registry and nodes alone *)

LEMMA RegistryAlone ==
    ASSUME IInv, UNCHANGED <<tsVars, regVars>>
    PROVE  /\ RegTypeOK' /\ Entries' /\ InHand' /\ Ahead'
           /\ NoOrphan => NoOrphan'
           /\ NoNodeLeak => NoNodeLeak'
           /\ \A n \in Names : RunningCfg(n)' = RunningCfg(n)
           /\ UNCHANGED <<config, services, op, todo>>
<1>. USE DEF IInv, tsVars, regVars
<1>1. RegTypeOK'
  BY DEF TypeOK, RegTypeOK, TsTypeOK
<1>2. Entries' /\ Ahead'
  BY DEF Entries, Ahead
<1>3. InHand'
  BY DEF InHand, Idle, Begun
<1>4. (NoOrphan => NoOrphan') /\ (NoNodeLeak => NoNodeLeak')
  BY DEF NoOrphan, NoNodeLeak
<1>5. \A n \in Names : RunningCfg(n)' = RunningCfg(n)
  BY DEF RunningCfg
<1> QED  BY <1>1, <1>2, <1>3, <1>4, <1>5

\* Start's own steps, signals and the end: what they change is read by no reload.
LEMMA AsideStep ==
    ASSUME IInv,
           \/ StartWatch \/ StartMetrics \/ ExitFailed \/ WatcherGone \/ Signal \/ Exit
           \/ UNCHANGED vars
    PROVE  IInv'
<1>1. /\ UNCHANGED <<tsVars, regVars>>
      /\ UNCHANGED <<cfg, pending, plan, erred, outcome, reloads, faulty, raced>>
      /\ closer' \in {"none", "services", "stopping", "nodes", "closing", "exited"}
      /\ cancelled' \in BOOLEAN
      /\ watcher' = watcher \/ (watcher # "reloading" /\ watcher' # "reloading")
      /\ watcher' \in {"none", "waiting", "gone", "reloading"}
      /\ \/ UNCHANGED starter
         \/ /\ starter \in {"created", "watching"}
            /\ starter' \in {"watching", "metrics", "failed"}
      /\ starter' = "created" => UNCHANGED <<starter, watcher>>
  <2>1. starter = "created" => watcher = "none"
    BY DEF IInv, Callers
  <2> QED  BY <2>1 DEF IInv, TypeOK, StartWatch, StartMetrics, ExitFailed, WatcherGone, Signal, Exit,
                vars, appVars
<1>2. /\ RegTypeOK' /\ Entries' /\ InHand' /\ Ahead'
      /\ \A n \in Names : RunningCfg(n)' = RunningCfg(n)
      /\ UNCHANGED <<config, services, op, todo>>
  BY <1>1, RegistryAlone
<1>3. TypeOK'
  BY <1>1, <1>2 DEF IInv, TypeOK
<1>4. Callers' /\ Plans'
  BY <1>1, <1>2 DEF IInv, Callers, Plans, Reloading
<1>5. ASSUME ~raced'
      PROVE  Untouched' /\ NoOrphan' /\ NoNodeLeak' /\ \A n \in Names \ faulty' : AsConfigured(n)'
  <2>1. ~raced /\ Untouched /\ NoOrphan /\ NoNodeLeak /\ \A n \in Names \ faulty : AsConfigured(n)
    BY <1>1, <1>5 DEF IInv, InOrder
  <2>2. Untouched'
    BY <1>1, <1>2, <2>1 DEF Untouched, IInv, Callers
  <2>3. NoOrphan' /\ NoNodeLeak'
    BY <1>1, <2>1, RegistryAlone
  <2>4. ASSUME NEW n \in Names \ faulty
        PROVE  AsConfigured(n)'
    BY <1>1, <1>2, <2>1 DEF AsConfigured
  <2> QED  BY <1>1, <2>2, <2>3, <2>4
<1> QED  BY <1>2, <1>3, <1>4, <1>5 DEF IInv, InOrder

\* A configuration arrives.
LEMMA ReceiveStep ==
    ASSUME IInv, NEW new \in Configs, Receive(new)
    PROVE  IInv'
<1>1. /\ UNCHANGED <<tsVars, regVars>>
      /\ UNCHANGED <<cfg, starter, closer, cancelled, faulty>>
      /\ watcher = "waiting" /\ watcher' = "reloading"
      /\ pending' = new /\ new \in [Names -> Cfgs \cup {None}]
      /\ plan' = [remove |-> findServicesToRemove(cfg, new), add |-> findServicesToAdd(cfg, new),
                  update |-> findServicesToUpdate(cfg, new)]
      /\ raced' = (raced \/ starter # "up")
      /\ reloads' \in 0 .. MaxReloads /\ erred' = FALSE /\ outcome' = "none"
  BY DEF Receive, IInv, TypeOK
<1>2. /\ RegTypeOK' /\ Entries' /\ InHand' /\ Ahead'
      /\ \A n \in Names : RunningCfg(n)' = RunningCfg(n)
      /\ UNCHANGED <<config, services, op, todo>>
  BY <1>1, RegistryAlone
<1>3. op.kind \notin Reloading /\ starter # "created"
  BY <1>1 DEF IInv, Callers
<1>4. /\ plan'.remove = {n \in Names : cfg[n] # None /\ new[n] = None}
      /\ plan'.add = {n \in Names : cfg[n] = None /\ new[n] # None}
      /\ plan'.update = {n \in Names : cfg[n] # None /\ new[n] # None /\ cfg[n] # new[n]}
  BY <1>1 DEF findServicesToRemove, findServicesToAdd, findServicesToUpdate
<1>5. TypeOK'
  <2>1. plan' \in [remove : SUBSET Names, add : SUBSET Names, update : SUBSET Names]
    BY <1>1 DEF findServicesToRemove, findServicesToAdd, findServicesToUpdate
  <2> QED  BY <1>1, <1>2, <2>1 DEF IInv, TypeOK
<1>6. Callers' /\ Plans'
  BY <1>1, <1>2, <1>3, <1>4 DEF IInv, Callers, Plans, Reloading
<1>7. ASSUME ~raced'
      PROVE  Untouched' /\ NoOrphan' /\ NoNodeLeak' /\ \A n \in Names \ faulty' : AsConfigured(n)'
  <2>1. /\ ~raced /\ Untouched /\ NoOrphan /\ NoNodeLeak /\ starter = "up"
        /\ \A n \in Names \ faulty : AsConfigured(n)
    BY <1>1, <1>7 DEF IInv, InOrder, TypeOK
  <2>2. Untouched'
    BY <1>1, <1>2, <2>1 DEF Untouched
  <2>3. NoOrphan' /\ NoNodeLeak'
    BY <1>1, <2>1, RegistryAlone
  <2>4. ASSUME NEW n \in Names \ faulty
        PROVE  AsConfigured(n)'
    <3>1. RunningCfg(n)' = cfg[n]
      BY <1>1, <1>2, <2>1, <2>4 DEF AsConfigured
    <3>2. n \notin plan'.remove \cup plan'.add \cup plan'.update => cfg[n] = pending'[n]
      BY <1>1, <1>4
    <3> QED  BY <1>1, <1>2, <2>1, <3>1, <3>2 DEF AsConfigured
  <2> QED  BY <1>1, <2>2, <2>3, <2>4
<1> QED  BY <1>2, <1>5, <1>6, <1>7 DEF IInv, InOrder

\* a.cfg becomes what was applied.
LEMMA ReloadReturnsStep ==
    ASSUME IInv, ReloadReturns
    PROVE  IInv'
<1>1. /\ UNCHANGED <<tsVars, regVars>>
      /\ UNCHANGED <<starter, closer, cancelled, pending, plan, erred, reloads, faulty, raced>>
      /\ watcher = "reloading" /\ watcher' = "waiting" /\ op.kind \notin Reloading
      /\ plan = Nothing /\ cfg' = pending /\ outcome' \in {"ok", "error"}
  BY DEF ReloadReturns, Reloading
<1>2. /\ RegTypeOK' /\ Entries' /\ InHand' /\ Ahead'
      /\ \A n \in Names : RunningCfg(n)' = RunningCfg(n)
      /\ UNCHANGED <<config, services, op, todo>>
  BY <1>1, RegistryAlone
<1>3. TypeOK'
  BY <1>1, <1>2 DEF IInv, TypeOK
<1>4. Callers' /\ Plans'
  BY <1>1, <1>2 DEF IInv, Callers, Plans, Reloading
<1>5. ASSUME ~raced'
      PROVE  Untouched' /\ NoOrphan' /\ NoNodeLeak' /\ \A n \in Names \ faulty' : AsConfigured(n)'
  <2>1. ~raced /\ Untouched /\ NoOrphan /\ NoNodeLeak /\ \A n \in Names \ faulty : AsConfigured(n)
    BY <1>1, <1>5 DEF IInv, InOrder
  <2>2. Untouched'
    BY <1>1, <1>2, <2>1 DEF Untouched
  <2>3. NoOrphan' /\ NoNodeLeak'
    BY <1>1, <2>1, RegistryAlone
  <2>4. ASSUME NEW n \in Names \ faulty
        PROVE  AsConfigured(n)'
    <3>1. starter = "up" /\ RunningCfg(n) = pending[n]
      BY <1>1, <2>1, <2>4 DEF AsConfigured, Nothing
    <3> QED  BY <1>1, <1>2, <3>1 DEF AsConfigured
  <2> QED  BY <1>1, <2>2, <2>3, <2>4
<1> QED  BY <1>2, <1>3, <1>4, <1>5 DEF IInv, InOrder

-----------------------------------------------------------------------------
(* Calls and returns: r.mu is taken or given back *)

\* Nothing but the operation, and what it counts, changes.
LEMMA LockOnly ==
    ASSUME IInv, UNCHANGED <<tsVars, config, services, http, conf, released, panicked>>,
           op' \in Ops, todo' \subseteq Names, gauge' \in Nat,
           ret' \in {"none", "ok", "partial", "error"}
    PROVE  /\ RegTypeOK' /\ Entries'
           /\ op.at \notin {"handler", "discard"} => Ahead'
           /\ NoOrphan => NoOrphan'
           /\ NoNodeLeak => NoNodeLeak'
           /\ \A n \in Names : RunningCfg(n)' = RunningCfg(n)
           /\ UNCHANGED <<servers, owner, node, made, doomed>>
<1>. USE DEF IInv, tsVars
<1>1. RegTypeOK'
  BY DEF TypeOK, RegTypeOK, TsTypeOK
<1>2. Entries' /\ (op.at \notin {"handler", "discard"} => Ahead')
  BY DEF Entries, Ahead
<1>3. (NoOrphan => NoOrphan') /\ (NoNodeLeak => NoNodeLeak')
  BY DEF NoOrphan, NoNodeLeak
<1>4. \A n \in Names : RunningCfg(n)' = RunningCfg(n)
  BY DEF RunningCfg
<1> QED  BY <1>1, <1>2, <1>3, <1>4

\* A new operation is one of the operations.
LEMMA BegunIsOp ==
    ASSUME NEW k \in Kinds, NEW at \in Steps, NEW n \in Names \cup {None},
           NEW c \in Cfgs \cup {None}, NEW i \in Inst \cup {Absent}
    PROVE  LET o == Begun(k, at, n, c, i)
           IN /\ o \in Ops
              /\ o.kind = k /\ o.at = at /\ o.name = n /\ o.cfg = c /\ o.inst = i
BY DEF Begun, Ops

\* An operation begins only when none is under way.
LEMMA Entering ==
    ASSUME IInv, NEW o, Enter(o)
    PROVE  op' = o /\ ret' = "none" /\ op.kind = "none" /\ op.at = "idle"
BY IdleIsOp DEF Enter

LEMMA CallStartServicesStep ==
    ASSUME IInv, CallStartServices
    PROVE  IInv'
<1>1. /\ UNCHANGED <<cfg, watcher, closer, cancelled, pending, plan, erred, outcome, reloads,
                     faulty, raced>>
      /\ UNCHANGED <<tsVars, config, services, http, conf, released, panicked, gauge>>
      /\ starter = "metrics" /\ starter' = "starting"
      /\ todo' = {n \in Names : config[n] # None}
      /\ Enter(Begun("start", "each", None, None, Absent))
  BY DEF CallStartServices, StartServices
<1>2. op.kind = "none" /\ op.at = "idle" /\ ret' = "none"
      /\ op' = Begun("start", "each", None, None, Absent)
  BY <1>1, Entering
<1>3. op' \in Ops /\ op'.kind = "start" /\ op'.at = "each" /\ op'.inst = Absent
  BY <1>2, BegunIsOp DEF Kinds, Steps
<1>4. todo' \subseteq Names /\ gauge' \in Nat /\ made \in Nat
  BY <1>1 DEF IInv, TypeOK, RegTypeOK, TsTypeOK
<1>5. /\ RegTypeOK' /\ Entries' /\ Ahead'
      /\ NoOrphan => NoOrphan'
      /\ NoNodeLeak => NoNodeLeak'
      /\ \A n \in Names : RunningCfg(n)' = RunningCfg(n)
      /\ UNCHANGED <<servers, owner, node, made, doomed>>
  BY <1>1, <1>2, <1>3, <1>4, LockOnly
<1>6. TypeOK'
  BY <1>1, <1>5 DEF IInv, TypeOK
<1>7. InHand'
  BY <1>3, <1>4, <1>5 DEF InHand, Starting, Replacing
<1>8. Callers' /\ Plans'
  BY <1>1, <1>2, <1>3 DEF IInv, Callers, Plans, Reloading
<1>9. ASSUME ~raced'
      PROVE  Untouched' /\ \A n \in Names \ faulty' : AsConfigured(n)'
  <2>1. ~raced /\ Untouched /\ \A n \in Names \ faulty : AsConfigured(n)
    BY <1>1, <1>9 DEF IInv, InOrder
  <2>2. \A n \in Names : services[n] = Absent
    BY <1>1, <2>1 DEF Untouched
  <2>3. ASSUME NEW n \in Names \ faulty
        PROVE  AsConfigured(n)'
    <3>1. cfg = config /\ watcher # "reloading"
      BY <1>1, <2>1 DEF AsConfigured
    <3>2. RunningCfg(n)' = None
      BY <1>5, <2>2 DEF RunningCfg
    <3> QED  BY <1>1, <3>1, <3>2 DEF AsConfigured
  <2>4. watcher # "reloading"
    BY <1>1, <2>1 DEF Untouched
  <2> QED  BY <1>1, <1>3, <2>2, <2>3, <2>4 DEF Untouched
<1> QED  BY <1>1, <1>5, <1>6, <1>7, <1>8, <1>9 DEF IInv, InOrder

LEMMA StartedStep ==
    ASSUME IInv, Started
    PROVE  IInv'
<1>1. /\ UNCHANGED <<cfg, watcher, closer, cancelled, pending, plan, erred, outcome, reloads,
                     faulty, raced>>
      /\ UNCHANGED <<tsVars, config, services, http, conf, released, panicked, todo>>
      /\ op.kind = "start" /\ op.at = "each" /\ todo = {} /\ op' = Idle
      /\ ret' \in {"ok", "partial", "error"} /\ starter' \in {"up", "failed"}
  BY DEF Started, StartReturns, At, Return
<1>2. gauge' \in Nat /\ made \in Nat /\ todo' \subseteq Names
  BY <1>1, CountIsNat DEF Started, StartReturns, SetActive, IInv, TypeOK, RegTypeOK, TsTypeOK
<1>3. op' \in Ops /\ op'.kind = "none" /\ op'.at = "idle" /\ op'.inst = Absent
  BY <1>1, IdleIsOp
<1>4. /\ RegTypeOK' /\ Entries' /\ Ahead'
      /\ NoOrphan => NoOrphan'
      /\ NoNodeLeak => NoNodeLeak'
      /\ \A n \in Names : RunningCfg(n)' = RunningCfg(n)
      /\ UNCHANGED <<servers, owner, node, made, doomed>>
  BY <1>1, <1>2, <1>3, LockOnly
<1>5. TypeOK'
  BY <1>1, <1>4 DEF IInv, TypeOK
<1>6. InHand'
  BY <1>1, <1>2, <1>3, <1>4 DEF InHand, Starting, Replacing, Idle, Begun
<1>7. Callers' /\ Plans'
  BY <1>1, <1>3 DEF IInv, Callers, Plans, Reloading
<1>8. ASSUME ~raced'
      PROVE  Untouched' /\ \A n \in Names \ faulty' : AsConfigured(n)'
  <2>1. /\ ~raced /\ starter = "starting" /\ Untouched
        /\ \A n \in Names \ faulty : AsConfigured(n)
    BY <1>1, <1>8 DEF IInv, InOrder, Callers
  <2>2. ASSUME NEW n \in Names \ faulty
        PROVE  AsConfigured(n)'
    <3>1. cfg = config /\ watcher # "reloading" /\ RunningCfg(n) = cfg[n]
      BY <1>1, <2>1 DEF AsConfigured
    <3> QED  BY <1>1, <1>4, <3>1 DEF AsConfigured
  <2>3. watcher # "reloading"
    BY <1>1, <2>1 DEF Untouched
  <2> QED  BY <1>1, <1>3, <2>2, <2>3 DEF Untouched
<1> QED  BY <1>1, <1>4, <1>5, <1>6, <1>7, <1>8 DEF IInv, InOrder

\* Shutdown takes the lock and gives it back; what it has stopped stays registered.
LEMMA ShutdownStep ==
    ASSUME IInv, CallShutdown \/ ServicesStopped
    PROVE  IInv'
<1>1. /\ UNCHANGED <<cfg, starter, watcher, cancelled, pending, plan, erred, outcome, reloads,
                     faulty, raced>>
      /\ UNCHANGED <<tsVars, config, services, http, conf, released, panicked, gauge>>
      /\ closer' \in {"stopping", "nodes"} /\ todo' \subseteq Names
      /\ ret' \in {"none", "ok", "partial", "error"}
  BY DEF CallShutdown, Shutdown, ServicesStopped, ShutdownReturns, Enter, Return, Registered,
         IInv, TypeOK, RegTypeOK
<1>2. /\ op.kind \in {"none", "shutdown"} /\ op.at \in {"idle", "each"}
      /\ op' \in Ops /\ op'.inst = Absent
      /\ \/ op'.kind = "none" /\ op'.at = "idle" /\ op' = Idle
         \/ op'.kind = "shutdown" /\ op'.at = "each" /\ todo' = Registered(services)
  <2>1. CASE CallShutdown
    <3>1. /\ op.kind = "none" /\ op.at = "idle"
          /\ op' = Begun("shutdown", "each", None, None, Absent)
      BY <2>1, Entering DEF CallShutdown, Shutdown
    <3> QED  BY <2>1, <3>1, BegunIsOp DEF CallShutdown, Shutdown, Kinds, Steps
  <2>2. CASE ServicesStopped
    BY <2>2, IdleIsOp DEF ServicesStopped, ShutdownReturns, At, Return
  <2> QED  BY <2>1, <2>2
<1>3. gauge' \in Nat /\ made \in Nat
  BY <1>1 DEF IInv, TypeOK, RegTypeOK, TsTypeOK
<1>4. /\ RegTypeOK' /\ Entries' /\ Ahead'
      /\ NoOrphan => NoOrphan'
      /\ NoNodeLeak => NoNodeLeak'
      /\ \A n \in Names : RunningCfg(n)' = RunningCfg(n)
      /\ UNCHANGED <<servers, owner, node, made, doomed>>
  BY <1>1, <1>2, <1>3, LockOnly
<1>5. TypeOK'
  BY <1>1, <1>4 DEF IInv, TypeOK
<1>6. InHand'
  BY <1>1, <1>2, <1>3, <1>4 DEF InHand, Starting, Replacing, Registered, Idle, Begun
<1>7. Callers' /\ Plans'
  BY <1>1, <1>2 DEF IInv, Callers, Plans, Reloading
<1>8. ASSUME ~raced'
      PROVE  Untouched' /\ \A n \in Names \ faulty' : AsConfigured(n)'
  <2>1. ~raced /\ Untouched /\ starter # "starting" /\ \A n \in Names \ faulty : AsConfigured(n)
    BY <1>1, <1>2, <1>8 DEF IInv, InOrder, Callers
  <2>2. Untouched'
    BY <1>1, <1>2, <2>1 DEF Untouched
  <2>3. ASSUME NEW n \in Names \ faulty
        PROVE  AsConfigured(n)'
    BY <1>1, <1>2, <1>4, <2>1 DEF AsConfigured, Reloading
  <2> QED  BY <1>1, <2>2, <2>3
<1> QED  BY <1>1, <1>4, <1>5, <1>6, <1>7, <1>8 DEF IInv, InOrder

\* A service is in the part of the plan that says what has to be done with it, and in no
\* other; the call takes it out of that.
LEMMA PlanShrinks ==
    ASSUME IInv, watcher = "reloading", NEW n \in Names, Planned(n), Called(n)
    PROVE  /\ plan' \in [remove : SUBSET Names, add : SUBSET Names, update : SUBSET Names]
           /\ plan'.remove = plan.remove \ {n} /\ plan'.add = plan.add \ {n}
           /\ plan'.update = plan.update \ {n}
           /\ n \in plan.remove \cup plan.add \cup plan.update
           /\ plan.remove # {} => n \in plan.remove
           /\ plan.remove = {} /\ plan.add # {} => n \in plan.add
           /\ plan.remove = {} /\ plan.add = {} => n \in plan.update
<1>1. plan \in [remove : SUBSET Names, add : SUBSET Names, update : SUBSET Names]
  BY DEF IInv, TypeOK
<1>2. /\ n \in plan.remove => n \notin plan.add \cup plan.update
      /\ n \in plan.add => n \notin plan.remove \cup plan.update
      /\ n \in plan.update => n \notin plan.remove \cup plan.add
  BY DEF IInv, Plans
<1> QED  BY <1>1, <1>2 DEF Planned, Called

LEMMA ReloadCallsStep ==
    ASSUME IInv, NEW n \in Names, ReloadCalls(n)
    PROVE  IInv'
<1>1. /\ UNCHANGED <<cfg, starter, watcher, closer, cancelled, pending, erred, outcome, reloads,
                     faulty, raced>>
      /\ UNCHANGED <<tsVars, config, services, http, conf, released, panicked, gauge, todo>>
      /\ watcher = "reloading" /\ Planned(n) /\ Called(n)
  BY DEF ReloadCalls, AddService, RemoveService, UpdateService
<1>2. /\ plan' \in [remove : SUBSET Names, add : SUBSET Names, update : SUBSET Names]
      /\ plan'.remove = plan.remove \ {n} /\ plan'.add = plan.add \ {n}
      /\ plan'.update = plan.update \ {n}
      /\ n \in plan.remove \cup plan.add \cup plan.update
  BY <1>1, PlanShrinks
<1>3. /\ pending[n] \in Cfgs \cup {None} /\ services[n] \in Inst \cup {Absent}
      /\ made \in Nat /\ gauge \in Nat /\ todo \subseteq Names
  BY DEF IInv, TypeOK, RegTypeOK, TsTypeOK
<1>4. /\ op.kind = "none" /\ op.at = "idle" /\ ret' = "none" /\ op' \in Ops /\ op'.name = n
      /\ \/ /\ op'.kind = "remove" /\ op'.at = "stop" /\ op'.inst = services[n]
            /\ services[n] # Absent /\ pending[n] = None
         \/ /\ op'.kind = "add" /\ op'.at = "listen" /\ op'.inst = Absent
            /\ services[n] = Absent /\ op'.cfg = pending[n]
         \/ /\ op'.kind = "update" /\ op'.at = "stop" /\ op'.inst = services[n]
            /\ services[n] # Absent /\ op'.cfg = pending[n]
  <2>1. CASE plan.remove # {}
    <3>1. RemoveService(n) /\ n \in plan.remove
      BY <1>1, <2>1, PlanShrinks DEF ReloadCalls
    <3>2. /\ op.kind = "none" /\ op.at = "idle" /\ ret' = "none" /\ services[n] # Absent
          /\ op' = Begun("remove", "stop", n, None, services[n])
      BY <3>1, Entering DEF RemoveService
    <3>3. /\ op' \in Ops /\ op'.kind = "remove" /\ op'.at = "stop" /\ op'.name = n
          /\ op'.inst = services[n]
      BY <1>3, <3>2 DEF Begun, Ops, Kinds, Steps
    <3>4. pending[n] = None
      BY <1>1, <3>1 DEF IInv, Plans
    <3> QED  BY <3>2, <3>3, <3>4
  <2>2. CASE plan.remove = {} /\ plan.add # {}
    <3>1. AddService(n, pending[n])
      BY <2>2 DEF ReloadCalls
    <3>2. /\ op.kind = "none" /\ op.at = "idle" /\ ret' = "none" /\ services[n] = Absent
          /\ op' = Begun("add", "listen", n, pending[n], Absent)
      BY <3>1, Entering DEF AddService
    <3> QED  BY <1>3, <3>2, BegunIsOp DEF Kinds, Steps
  <2>3. CASE plan.remove = {} /\ plan.add = {}
    <3>1. UpdateService(n, pending[n])
      BY <2>3 DEF ReloadCalls
    <3>2. /\ op.kind = "none" /\ op.at = "idle" /\ ret' = "none" /\ services[n] # Absent
          /\ op' = Begun("update", "stop", n, pending[n], services[n])
      BY <3>1, Entering DEF UpdateService
    <3>3. /\ op' \in Ops /\ op'.kind = "update" /\ op'.at = "stop" /\ op'.name = n
          /\ op'.inst = services[n] /\ op'.cfg = pending[n]
      BY <1>3, <3>2 DEF Begun, Ops, Kinds, Steps
    <3> QED  BY <3>2, <3>3
  <2> QED  BY <2>1, <2>2, <2>3
<1>5. /\ RegTypeOK' /\ Entries' /\ Ahead'
      /\ NoOrphan => NoOrphan'
      /\ NoNodeLeak => NoNodeLeak'
      /\ \A m \in Names : RunningCfg(m)' = RunningCfg(m)
      /\ UNCHANGED <<servers, owner, node, made, doomed>>
  BY <1>1, <1>3, <1>4, LockOnly
<1>6. TypeOK'
  BY <1>1, <1>2, <1>5 DEF IInv, TypeOK
<1>7. InHand'
  <2>1. services[n] = Absent => servers[n] = Absent
    BY <1>4 DEF IInv, Ahead
  <2>2. services[n] <= made
    BY DEF IInv, Entries
  <2> QED  BY <1>1, <1>3, <1>4, <1>5, <2>1, <2>2 DEF InHand, Starting, Replacing
<1>8. Callers' /\ Plans'
  <2>1. pending[n] # cfg[n]
    BY <1>1, <1>2 DEF IInv, Plans
  <2> QED  BY <1>1, <1>2, <1>4, <2>1 DEF IInv, Callers, Plans, Reloading
<1>9. ASSUME ~raced'
      PROVE  Untouched' /\ \A m \in Names \ faulty' : AsConfigured(m)'
  <2>1. ~raced /\ Untouched /\ \A m \in Names \ faulty : AsConfigured(m)
    BY <1>1, <1>9 DEF IInv, InOrder
  <2>2. Untouched'
    BY <1>1, <1>4, <2>1 DEF Untouched
  <2>3. ASSUME NEW m \in Names \ faulty
        PROVE  AsConfigured(m)'
    <3>1. CASE m = n
      BY <1>1, <1>2, <1>4, <1>5, <2>1, <3>1 DEF AsConfigured, Reloading
    <3>2. CASE m # n
      BY <1>1, <1>2, <1>4, <1>5, <2>1, <3>2 DEF AsConfigured, Reloading
    <3> QED  BY <3>1, <3>2
  <2> QED  BY <1>1, <2>2, <2>3
<1> QED  BY <1>1, <1>5, <1>6, <1>7, <1>8, <1>9 DEF IInv, InOrder

\* What is refused has failed, and nothing was touched.
LEMMA ReloadRefusedStep ==
    ASSUME IInv, NEW n \in Names, ReloadRefused(n)
    PROVE  IInv'
<1>1. /\ UNCHANGED <<cfg, starter, watcher, closer, cancelled, pending, outcome, reloads, raced>>
      /\ UNCHANGED <<tsVars, config, services, http, conf, released, panicked, gauge, op, todo>>
      /\ watcher = "reloading" /\ Planned(n) /\ Called(n)
      /\ erred' = TRUE /\ faulty' = faulty \cup {n} /\ ret' = "error" /\ op = Idle
  BY DEF ReloadRefused, AddRefused, RemoveRefused, UpdateRefused, Refuse
<1>2. /\ plan' \in [remove : SUBSET Names, add : SUBSET Names, update : SUBSET Names]
      /\ plan'.remove = plan.remove \ {n} /\ plan'.add = plan.add \ {n}
      /\ plan'.update = plan.update \ {n}
  BY <1>1, PlanShrinks
<1>3. op' \in Ops /\ op.kind = "none" /\ op.at = "idle" /\ gauge \in Nat /\ todo \subseteq Names
  BY <1>1, IdleIsOp DEF IInv, TypeOK, RegTypeOK
<1>4. /\ RegTypeOK' /\ Entries' /\ Ahead'
      /\ NoOrphan => NoOrphan'
      /\ NoNodeLeak => NoNodeLeak'
      /\ \A m \in Names : RunningCfg(m)' = RunningCfg(m)
      /\ UNCHANGED <<servers, owner, node, made, doomed>>
  BY <1>1, <1>3, LockOnly
<1>5. TypeOK'
  BY <1>1, <1>2, <1>4 DEF IInv, TypeOK
<1>6. InHand'
  BY <1>1, <1>4 DEF IInv, InHand, Idle, Begun
<1>7. Callers' /\ Plans'
  BY <1>1, <1>2, <1>3 DEF IInv, Callers, Plans, Reloading
<1>8. ASSUME ~raced'
      PROVE  Untouched' /\ \A m \in Names \ faulty' : AsConfigured(m)'
  <2>1. ~raced /\ Untouched /\ \A m \in Names \ faulty : AsConfigured(m)
    BY <1>1, <1>8 DEF IInv, InOrder
  <2>2. Untouched'
    BY <1>1, <2>1 DEF Untouched
  <2>3. ASSUME NEW m \in Names \ faulty'
        PROVE  AsConfigured(m)'
    <3>1. m \in Names \ faulty /\ m # n
      BY <1>1, <2>3
    <3> QED  BY <1>1, <1>2, <1>3, <1>4, <2>1, <3>1 DEF AsConfigured, Reloading
  <2> QED  BY <2>2, <2>3
<1> QED  BY <1>1, <1>4, <1>5, <1>6, <1>7, <1>8 DEF IInv, InOrder

-----------------------------------------------------------------------------
(* What happens without r.mu: Close, the nodes, and http.Servers that fail *)

\* Nodes change, but to be closed; what is taken out of the map is doomed.
LEMMA NodesOnly ==
    ASSUME IInv, UNCHANGED <<regVars, owner, made>>,
           node' \in [Inst -> NodeStates], doomed' \subseteq Inst,
           servers' = servers \/ servers' = [n \in Names |-> Absent],
           \A i \in Inst : node'[i] = "up" => node[i] = "up",
           \A i \in Inst : i \in doomed /\ node'[i] = "up" => i \in doomed',
           \A n \in Names : servers[n] \in {Absent, servers'[n]} \cup doomed',
           UNCHANGED <<cfg, starter, watcher, cancelled, pending, plan, erred, outcome, reloads,
                       faulty, raced>>,
           closer' \in {"none", "services", "stopping", "nodes", "closing", "exited"}
    PROVE  IInv'
<1>1. TypeOK'
  BY DEF IInv, TypeOK, RegTypeOK, TsTypeOK, regVars
<1>2. Entries' /\ Ahead'
  BY DEF IInv, Entries, Ahead, regVars, TypeOK, RegTypeOK, TsTypeOK
<1>3. InHand'
  BY DEF IInv, InHand, Idle, Begun, regVars, Replacing, Starting
<1>4. Callers' /\ Plans'
  BY DEF IInv, Callers, Plans, Reloading, regVars
<1>5. ASSUME ~raced'
      PROVE  Untouched' /\ NoOrphan' /\ NoNodeLeak' /\ \A m \in Names \ faulty' : AsConfigured(m)'
  <2>1. /\ ~raced /\ Untouched /\ NoOrphan /\ NoNodeLeak
        /\ \A m \in Names \ faulty : AsConfigured(m)
    BY <1>5 DEF IInv, InOrder
  <2>2. Untouched' /\ NoOrphan'
    BY <2>1 DEF Untouched, NoOrphan, regVars
  <2>3. NoNodeLeak'
    BY <2>1 DEF NoNodeLeak
  <2>4. ASSUME NEW m \in Names \ faulty
        PROVE  AsConfigured(m)'
    BY <2>1 DEF AsConfigured, RunningCfg, regVars
  <2> QED  BY <2>2, <2>3, <2>4
<1> QED  BY <1>1, <1>2, <1>3, <1>4, <1>5 DEF IInv, InOrder

LEMMA NodesStep ==
    ASSUME IInv, CloseNodes \/ CloseStep \/ ((\E i \in Inst : NodeClosed(i)) /\ UNCHANGED appVars)
    PROVE  IInv'
<1>. USE DEF appVars
<1>1. /\ servers \in [Names -> Inst \cup {Absent}] /\ node \in [Inst -> NodeStates]
      /\ doomed \subseteq Inst
      /\ closer \in {"none", "services", "stopping", "nodes", "closing", "exited"}
  BY DEF IInv, TypeOK, RegTypeOK, TsTypeOK
<1>2. CASE CloseNodes
  <2>1. /\ UNCHANGED <<regVars, owner, node, made>> /\ closer' = "closing"
        /\ UNCHANGED <<cfg, starter, watcher, cancelled, pending, plan, erred, outcome, reloads,
                       faulty, raced>>
        /\ doomed' = doomed \cup {i \in Inst : \E n \in Names : servers[n] = i}
        /\ servers' = [n \in Names |-> Absent]
    BY <1>2 DEF CloseNodes, CloseAll
  <2> QED  BY <1>1, <2>1, NodesOnly
<1>3. ASSUME NEW i \in Inst, CloseOneBegins(i), UNCHANGED <<regVars, appVars>>
      PROVE  IInv'
  <2>1. /\ node' = [node EXCEPT ![i] = "closing"] /\ UNCHANGED <<servers, owner, made, doomed>>
    BY <1>3 DEF CloseOneBegins
  <2>2. node' \in [Inst -> NodeStates]
    BY <1>1, <2>1 DEF NodeStates
  <2> QED  BY <1>1, <1>3, <2>1, <2>2, NodesOnly
<1>4. ASSUME NEW i \in Inst, CloseOneEnds(i), UNCHANGED <<regVars, appVars>>
      PROVE  IInv'
  <2>1. /\ UNCHANGED <<servers, owner, made>> /\ doomed' = doomed \ {i}
        /\ node[i] \in {"closed", "closing"}
        /\ node' = node \/ node' = [node EXCEPT ![i] = "overdue"]
        /\ node[i] = "closing" => node' = [node EXCEPT ![i] = "overdue"]
    BY <1>4 DEF CloseOneEnds, WaitEnds
  <2>2. node' \in [Inst -> NodeStates] /\ node'[i] # "up"
    BY <1>1, <2>1 DEF NodeStates
  <2> QED  BY <1>1, <1>4, <2>1, <2>2, NodesOnly
<1>5. ASSUME NEW i \in Inst, NodeClosed(i), UNCHANGED appVars
      PROVE  IInv'
  <2>1. /\ node' = [node EXCEPT ![i] = "closed"] /\ UNCHANGED <<servers, owner, made, doomed>>
        /\ UNCHANGED regVars
    BY <1>5 DEF NodeClosed, NodeCloses
  <2>2. node' \in [Inst -> NodeStates]
    BY <1>1, <2>1 DEF NodeStates
  <2> QED  BY <1>1, <1>5, <2>1, <2>2, NodesOnly
<1> QED  BY <1>2, <1>3, <1>4, <1>5 DEF CloseStep

\* A dead http.Server is registered as it was.
LEMMA ServeFailsStep ==
    ASSUME IInv, NEW i \in Inst, ServeFails(i), UNCHANGED appVars
    PROVE  IInv'
<1>1. /\ http[i] = "serving" /\ http' = [http EXCEPT ![i] = "dead"]
      /\ UNCHANGED <<tsVars, config, services, conf, released, panicked, gauge, op, todo, ret>>
  BY DEF ServeFails
<1>. USE <1>1 DEF IInv, tsVars, appVars
<1>2. TypeOK'
  BY DEF TypeOK, RegTypeOK, TsTypeOK, HttpStates
<1>3. Entries' /\ Ahead'
  BY DEF Entries, Ahead
<1>4. InHand'
  BY DEF InHand, Idle, Begun, Replacing, Starting, TypeOK, RegTypeOK
<1>5. Callers' /\ Plans'
  BY DEF Callers, Plans, Reloading
<1>6. ASSUME ~raced'
      PROVE  Untouched' /\ NoOrphan' /\ NoNodeLeak' /\ \A m \in Names \ faulty' : AsConfigured(m)'
  <2>1. /\ ~raced /\ Untouched /\ NoOrphan /\ NoNodeLeak
        /\ \A m \in Names \ faulty : AsConfigured(m)
    BY <1>6 DEF InOrder
  <2>2. Untouched' /\ NoNodeLeak'
    BY <2>1 DEF Untouched, NoNodeLeak
  <2>3. NoOrphan'
    BY <2>1 DEF NoOrphan, TypeOK, RegTypeOK
  <2>4. ASSUME NEW m \in Names \ faulty
        PROVE  AsConfigured(m)'
    BY <2>1 DEF AsConfigured, RunningCfg
  <2> QED  BY <2>2, <2>3, <2>4
<1> QED  BY <1>2, <1>3, <1>4, <1>5, <1>6 DEF InOrder

-----------------------------------------------------------------------------
(* The steps of the operation in hand *)

\* What Working does for its caller's part.
Reports ==
    /\ faulty' = IF CallFailed THEN faulty \cup {op.name} ELSE faulty
    /\ erred' = (erred \/ (CallFailed /\ op.kind # "start"))
    /\ UNCHANGED <<cfg, starter, watcher, closer, cancelled, pending, plan, outcome, reloads,
                   raced>>

\* An operation that goes on is its caller's still, and one that ends is nobody's;
\* StartServices ends elsewhere (Started).
LEMMA Reported ==
    ASSUME IInv, Reports, RegTypeOK',
           \/ /\ op'.kind = op.kind
              /\ op.kind # "start" => op'.name = op.name /\ op'.cfg = op.cfg
           \/ op.kind # "start" /\ op'.kind = "none"
    PROVE  /\ TypeOK' /\ Callers' /\ Plans'
           /\ faulty \subseteq faulty'
           /\ op.at \in {"stop", "listen", "abandon", "giveup"} /\ op'.at \in {"idle", "each"}
                  => op.name \in faulty'
<1>1. CallFailed => op.name \in Names
  BY DEF IInv, InHand, CallFailed, Replacing, Starting
<1>2. TypeOK'
  BY <1>1 DEF IInv, TypeOK, Reports
<1>3. Callers' /\ Plans'
  BY DEF IInv, Callers, Plans, Reports, Reloading
<1> QED  BY <1>2, <1>3 DEF Reports, CallFailed

\* Which operations take which steps.
LEMMA WhoseStep ==
    ASSUME IInv
    PROVE  /\ op.at \in {"stop", "close", "wait"} => op.kind \in {"remove", "update"}
           /\ op.at \in Starting => op.kind \in {"start", "add", "update"}
           /\ op.at \in {"stop", "close", "wait"} \cup Starting => op.name \in Names
<1>1. op.kind \in Kinds /\ (op.kind = "none" => op.at = "idle")
  BY OpTyped, IdleIsOp DEF IInv, InHand
<1> QED  BY <1>1 DEF IInv, InHand, Kinds, Replacing, Starting

\* The stop of the service in hand, done or timed out.
LEMMA StopStep ==
    ASSUME IInv, Reports, Stopped \/ NotStopped
    PROVE  IInv'
<1>1. /\ UNCHANGED <<tsVars, config, services, conf, gauge, todo>>
      /\ op.kind \in {"remove", "update"} /\ op.at = "stop"
      /\ op.inst \in Inst /\ op.name \in Names /\ services[op.name] = op.inst
      /\ ret' \in {"none", "ok", "partial", "error"}
  BY OpTyped DEF Stopped, NotStopped, At, Return, IInv, InHand, TypeOK, RegTypeOK
<1>2. /\ \/ http' = [http EXCEPT ![op.inst] = "stopped"] /\ op' = [op EXCEPT !.at = "close"]
         \/ http' = [http EXCEPT ![op.inst] = "draining"] /\ op' = Idle
      /\ released' \in {released, released \cup {op.inst}} /\ panicked' \in BOOLEAN
  BY DEF Stopped, NotStopped, StopSucceeds, StopTimesOut, CloseHandler, Return, IInv, TypeOK,
         RegTypeOK
<1>3. /\ op' \in Ops
      /\ \/ /\ op'.kind = op.kind /\ op'.at = "close" /\ op'.name = op.name
            /\ op'.cfg = op.cfg /\ op'.inst = op.inst
            /\ http' = [http EXCEPT ![op.inst] = "stopped"]
         \/ op' = Idle /\ op'.kind = "none" /\ op'.at = "idle" /\ op'.inst = Absent
  <2>1. CASE op' = [op EXCEPT !.at = "close"]
    <3>1. http' = [http EXCEPT ![op.inst] = "stopped"] \/ op' = Idle
      BY <1>2
    <3> QED  BY <2>1, <3>1, IdleIsOp DEF IInv, TypeOK, RegTypeOK, Ops, Steps
  <2>2. CASE op' = Idle
    BY <2>2, IdleIsOp
  <2> QED  BY <1>2, <2>1, <2>2
<1>4. RegTypeOK'
  <2>1. RegTypeOK
    BY DEF IInv, TypeOK
  <2>2. http' \in [Inst -> HttpStates]
    BY <1>2, <2>1 DEF RegTypeOK, HttpStates
  <2>3. released' \subseteq Inst /\ panicked' \in BOOLEAN
    BY <1>1, <1>2, <2>1 DEF RegTypeOK
  <2>4. TsTypeOK'
    BY <1>1, <2>1 DEF RegTypeOK, TsTypeOK, tsVars
  <2> QED  BY <1>1, <1>3, <2>1, <2>2, <2>3, <2>4 DEF RegTypeOK
<1>5. /\ TypeOK' /\ Callers' /\ Plans' /\ faulty \subseteq faulty'
      /\ op'.at = "idle" => op.name \in faulty'
  BY <1>1, <1>3, <1>4, Reported
<1>6. Entries' /\ Ahead'
  BY <1>1, <1>3 DEF IInv, Entries, Ahead, tsVars
<1>7. InHand'
  <2>1. http \in [Inst -> HttpStates] /\ made \in Nat
    BY DEF IInv, TypeOK, RegTypeOK, TsTypeOK
  <2> QED  BY <1>1, <1>3, <2>1 DEF IInv, InHand, Replacing, Starting, tsVars
<1>8. ASSUME ~raced'
      PROVE  Untouched' /\ NoOrphan' /\ NoNodeLeak' /\ \A n \in Names \ faulty' : AsConfigured(n)'
  <2>1. /\ ~raced /\ Untouched /\ NoOrphan /\ NoNodeLeak
        /\ \A n \in Names \ faulty : AsConfigured(n)
    BY <1>8 DEF IInv, InOrder, Reports
  <2>2. Untouched' /\ NoNodeLeak'
    BY <1>1, <1>3, <2>1 DEF Untouched, NoNodeLeak, tsVars, Reports
  <2>3. NoOrphan'
    <3>1. owner[op.inst] = op.name
      BY <1>1 DEF IInv, Entries
    <3> QED  BY <1>1, <1>2, <2>1, <3>1 DEF NoOrphan, tsVars, IInv, TypeOK, RegTypeOK
  <2>4. ASSUME NEW n \in Names \ faulty'
        PROVE  AsConfigured(n)'
    <3>1. n \notin faulty /\ RunningCfg(n)' = RunningCfg(n) /\ starter # "starting"
      BY <1>1, <1>5, <2>4 DEF RunningCfg, IInv, Callers
    <3> QED  BY <1>1, <1>3, <1>5, <2>1, <3>1 DEF AsConfigured, Reports, Reloading
  <2> QED  BY <2>2, <2>3, <2>4
<1> QED  BY <1>5, <1>6, <1>7, <1>8 DEF IInv, InOrder

\* Shutdown stops one service, or fails to.
LEMMA ShutdownStopsStep ==
    ASSUME IInv, Reports, NEW n \in Names, ShutdownStops(n)
    PROVE  IInv'
<1>1. /\ UNCHANGED <<tsVars, config, services, conf, gauge, ret>>
      /\ op.kind = "shutdown" /\ op.at = "each" /\ todo' = todo \ {n}
      /\ services[n] \in Inst /\ owner[services[n]] = n
  BY DEF ShutdownStops, At, IInv, InHand, Entries, TypeOK, RegTypeOK
<1>2. /\ http' \in {[http EXCEPT ![services[n]] = "stopped"],
                    [http EXCEPT ![services[n]] = "draining"]}
      /\ released' \in {released, released \cup {services[n]}} /\ panicked' \in BOOLEAN
      /\ op' \in {op, [op EXCEPT !.lost = TRUE]}
  BY DEF ShutdownStops, StopSucceeds, StopTimesOut, CloseHandler, IInv, TypeOK, RegTypeOK
<1>3. /\ op' \in Ops /\ op'.kind = "shutdown" /\ op'.at = "each" /\ op'.inst = op.inst
      /\ op'.name = op.name /\ op'.cfg = op.cfg
  <2>1. op \in Ops
    BY DEF IInv, TypeOK, RegTypeOK
  <2>2. CASE op' = [op EXCEPT !.lost = TRUE]
    BY <1>1, <2>1, <2>2 DEF Ops
  <2> QED  BY <1>1, <1>2, <2>1, <2>2
<1>4. RegTypeOK'
  BY <1>1, <1>2, <1>3 DEF IInv, TypeOK, RegTypeOK, TsTypeOK, tsVars, HttpStates
<1>5. TypeOK' /\ Callers' /\ Plans' /\ faulty \subseteq faulty'
  BY <1>1, <1>3, <1>4, Reported
<1>6. Entries' /\ Ahead' /\ InHand'
  BY <1>1, <1>3 DEF IInv, Entries, Ahead, InHand, Replacing, Starting, tsVars
<1>7. ASSUME ~raced'
      PROVE  Untouched' /\ NoOrphan' /\ NoNodeLeak' /\ \A m \in Names \ faulty' : AsConfigured(m)'
  <2>1. /\ ~raced /\ Untouched /\ NoOrphan /\ NoNodeLeak
        /\ \A m \in Names \ faulty : AsConfigured(m)
    BY <1>7 DEF IInv, InOrder, Reports
  <2>2. Untouched' /\ NoNodeLeak'
    BY <1>1, <1>3, <2>1 DEF Untouched, NoNodeLeak, tsVars, Reports
  <2>3. NoOrphan'
    BY <1>1, <1>2, <2>1 DEF NoOrphan, tsVars, IInv, TypeOK, RegTypeOK
  <2>4. ASSUME NEW m \in Names \ faulty'
        PROVE  AsConfigured(m)'
    <3>1. m \notin faulty /\ RunningCfg(m)' = RunningCfg(m) /\ starter # "starting"
      BY <1>1, <1>5, <2>4 DEF RunningCfg, IInv, Callers
    <3> QED  BY <1>1, <1>3, <2>1, <3>1 DEF AsConfigured, Reports, Reloading
  <2> QED  BY <2>2, <2>3, <2>4
<1> QED  BY <1>5, <1>6, <1>7 DEF IInv, InOrder

\* CloseService: the node leaves the map.
LEMMA CloseNodeStep ==
    ASSUME IInv, Reports, CloseNode
    PROVE  IInv'
<1>1. /\ UNCHANGED <<config, services, http, conf, released, panicked, gauge, todo, ret>>
      /\ UNCHANGED <<owner, made, doomed>>
      /\ op.at \in {"close", "discard"} /\ op.name \in Names
      /\ servers[op.name] \in Inst \cup {Absent} /\ servers[op.name] <= made
      /\ op.at = "close" => op.kind \in {"remove", "update"}
      /\ op.at = "discard" => op.kind \in {"start", "add", "update"}
  <2>1. UNCHANGED <<owner, made, doomed>>
    BY DEF CloseNode, DetachNode, tsVars
  <2>2. op.at \in {"close", "discard"}
    BY DEF CloseNode
  <2>3. op.name \in Names
    BY <2>2, WhoseStep DEF Starting
  <2> QED  BY <2>1, <2>2, <2>3, WhoseStep DEF CloseNode, Starting, IInv, Entries, TypeOK,
                                              RegTypeOK, TsTypeOK
<1>2. /\ servers' = [servers EXCEPT ![op.name] = Absent]
      /\ node' = IF servers[op.name] = Absent THEN node
                 ELSE [node EXCEPT ![servers[op.name]] = "closing"]
  BY <1>1 DEF CloseNode, DetachNode, tsVars, IInv, TypeOK, RegTypeOK, TsTypeOK
<1>3. /\ op' \in Ops /\ op'.kind = op.kind /\ op'.name = op.name /\ op'.cfg = op.cfg
      /\ op'.at = IF op.at = "close" THEN "wait" ELSE "giveup"
      /\ op'.inst = servers[op.name]
  BY <1>1 DEF CloseNode, IInv, TypeOK, RegTypeOK, Ops, Steps
<1>4. RegTypeOK'
  <2>1. servers' \in [Names -> Inst \cup {Absent}] /\ node' \in [Inst -> NodeStates]
    BY <1>1, <1>2 DEF IInv, TypeOK, RegTypeOK, TsTypeOK, NodeStates
  <2> QED  BY <1>1, <1>3, <2>1 DEF IInv, TypeOK, RegTypeOK, TsTypeOK
<1>5. TypeOK' /\ Callers' /\ Plans' /\ faulty \subseteq faulty'
  BY <1>3, <1>4, Reported
<1>6. Entries' /\ Ahead'
  BY <1>1, <1>2, <1>3 DEF IInv, Entries, Ahead, TypeOK, RegTypeOK, TsTypeOK
<1>7. InHand'
  <2>1. servers'[op.name] = Absent
    BY <1>1, <1>2 DEF IInv, TypeOK, RegTypeOK, TsTypeOK
  <2> QED  BY <1>1, <1>3, <2>1 DEF IInv, InHand, Replacing, Starting
<1>8. ASSUME ~raced'
      PROVE  Untouched' /\ NoOrphan' /\ NoNodeLeak' /\ \A n \in Names \ faulty' : AsConfigured(n)'
  <2>1. /\ ~raced /\ Untouched /\ NoOrphan /\ NoNodeLeak
        /\ \A n \in Names \ faulty : AsConfigured(n)
    BY <1>8 DEF IInv, InOrder, Reports
  <2>2. Untouched' /\ NoOrphan'
    BY <1>1, <1>3, <2>1 DEF Untouched, NoOrphan, Reports
  <2>3. NoNodeLeak'
    BY <1>1, <1>2, <2>1 DEF NoNodeLeak, IInv, TypeOK, RegTypeOK, TsTypeOK
  <2>4. ASSUME NEW n \in Names \ faulty'
        PROVE  AsConfigured(n)'
    <3>1. n \notin faulty /\ RunningCfg(n)' = RunningCfg(n)
      BY <1>1, <1>5, <2>4 DEF RunningCfg
    <3> QED  BY <1>1, <1>3, <2>1, <3>1 DEF AsConfigured, Reports, Reloading
  <2> QED  BY <2>2, <2>3, <2>4
<1> QED  BY <1>5, <1>6, <1>7, <1>8 DEF IInv, InOrder

\* RemoveService ends: the entry goes last.
LEMMA RemovedStep ==
    ASSUME IInv, Reports, Removed
    PROVE  IInv'
<1>1. /\ UNCHANGED <<config, http, conf, released, panicked, todo>>
      /\ op.kind = "remove" /\ op.at = "wait" /\ op.name \in Names
      /\ services' = [services EXCEPT ![op.name] = Absent] /\ op' = Idle /\ ret' = "ok"
      /\ servers[op.name] = Absent
      /\ services[op.name] = Absent \/ http[services[op.name]] = "stopped"
  BY DEF Removed, At, Return, IInv, InHand, Replacing
<1>2. /\ node' \in [Inst -> NodeStates] /\ UNCHANGED <<servers, owner, made, doomed>>
      /\ \A i \in Inst : node'[i] = "up" => node[i] = "up"
  BY WaitEnded DEF Removed, IInv
<1>3. gauge' \in Nat
  BY CountIsNat DEF Removed, SetActive, IInv, TypeOK, RegTypeOK
<1>4. op' \in Ops /\ op'.kind = "none" /\ op'.at = "idle" /\ op'.inst = Absent
  BY <1>1, IdleIsOp
<1>5. RegTypeOK'
  BY <1>1, <1>2, <1>3, <1>4 DEF IInv, TypeOK, RegTypeOK, TsTypeOK
<1>6. TypeOK' /\ Callers' /\ Plans' /\ faulty \subseteq faulty'
  BY <1>1, <1>4, <1>5, Reported
<1>7. /\ services'[op.name] = Absent
      /\ \A n \in Names : n # op.name => services'[n] = services[n]
  BY <1>1 DEF IInv, TypeOK, RegTypeOK
<1>8. Entries' /\ Ahead'
  <2>1. made \in Nat
    BY DEF IInv, TypeOK, RegTypeOK, TsTypeOK
  <2> QED  BY <1>1, <1>2, <1>4, <1>7, <2>1 DEF IInv, Entries, Ahead
<1>9. InHand'
  <2>1. made \in Nat
    BY DEF IInv, TypeOK, RegTypeOK, TsTypeOK
  <2> QED  BY <1>1, <1>2, <1>4, <2>1 DEF InHand, Replacing, Starting, Idle, Begun
<1>10. ASSUME ~raced'
       PROVE  Untouched' /\ NoOrphan' /\ NoNodeLeak' /\ \A n \in Names \ faulty' : AsConfigured(n)'
  <2>1. /\ ~raced /\ Untouched /\ NoOrphan /\ NoNodeLeak
        /\ \A n \in Names \ faulty : AsConfigured(n)
    BY <1>10 DEF IInv, InOrder, Reports
  <2>2. Untouched' /\ NoNodeLeak'
    BY <1>1, <1>2, <1>4, <1>7, <2>1 DEF Untouched, NoNodeLeak, Reports
  <2>3. NoOrphan'
    BY <1>1, <1>2, <1>7, <2>1 DEF NoOrphan
  <2>4. ASSUME NEW n \in Names \ faulty'
        PROVE  AsConfigured(n)'
    <3>1. AsConfigured(n)
      BY <1>6, <2>1, <2>4
    <3>2. starter # "starting" /\ watcher = "reloading" /\ pending[op.name] = None
          /\ op.name \notin plan.remove \cup plan.add \cup plan.update
      BY <1>1 DEF IInv, Callers, Reloading
    <3>3. CASE n = op.name
      BY <1>1, <1>4, <1>7, <3>1, <3>2, <3>3 DEF AsConfigured, RunningCfg, Reports
    <3>4. CASE n # op.name
      <4>1. RunningCfg(n)' = RunningCfg(n)
        BY <1>1, <1>7, <3>4 DEF RunningCfg
      <4> QED  BY <1>1, <1>4, <3>1, <3>2, <3>4, <4>1 DEF AsConfigured, Reports
    <3> QED  BY <3>3, <3>4
  <2> QED  BY <2>2, <2>3, <2>4
<1> QED  BY <1>6, <1>8, <1>9, <1>10 DEF IInv, InOrder

\* Steps that change only where the operation is.
LEMMA GoesOn ==
    ASSUME IInv, Reports,
           UNCHANGED <<config, services, http, conf, released, panicked, gauge, todo, ret>>,
           UNCHANGED <<servers, owner, made, doomed>>,
           node' \in [Inst -> NodeStates], \A i \in Inst : node'[i] = "up" => node[i] = "up",
           op' \in Ops, op'.kind = op.kind, op'.name = op.name, op'.cfg = op.cfg,
           op.kind # "none", op.at # "each", op'.at \in Replacing,
           op'.at = "discard" <=> op.at \in {"handler", "discard"}, op'.at # "handler",
           InHand'
    PROVE  IInv'
<1>1. RegTypeOK'
  BY DEF IInv, TypeOK, RegTypeOK, TsTypeOK
<1>2. TypeOK' /\ Callers' /\ Plans' /\ faulty \subseteq faulty'
  BY <1>1, Reported
<1>3. Entries' /\ Ahead'
  BY DEF IInv, Entries, Ahead
<1>4. ASSUME ~raced'
      PROVE  Untouched' /\ NoOrphan' /\ NoNodeLeak' /\ \A n \in Names \ faulty' : AsConfigured(n)'
  <2>1. /\ ~raced /\ Untouched /\ NoOrphan /\ NoNodeLeak
        /\ \A n \in Names \ faulty : AsConfigured(n)
    BY <1>4 DEF IInv, InOrder, Reports
  <2>2. Untouched' /\ NoOrphan' /\ NoNodeLeak'
    BY <2>1 DEF Untouched, NoOrphan, NoNodeLeak, Reports
  <2>3. ASSUME NEW n \in Names \ faulty'
        PROVE  AsConfigured(n)'
    <3>1. AsConfigured(n) /\ RunningCfg(n)' = RunningCfg(n)
      BY <1>2, <2>1, <2>3 DEF RunningCfg
    <3> QED  BY <3>1 DEF AsConfigured, Reports, Reloading, Replacing, Starting
  <2> QED  BY <2>2, <2>3
<1> QED  BY <1>2, <1>3, <1>4 DEF IInv, InOrder

\* The wait of an update, and a handler that cannot be built.
LEMMA GoesOnSteps ==
    ASSUME IInv, Reports, OldClosed \/ HandlerFails
    PROVE  IInv'
<1>1. UNCHANGED <<config, services, http, conf, released, panicked, gauge, todo, ret>>
      /\ op \in Ops /\ made \in Nat
  BY DEF OldClosed, HandlerFails, IInv, TypeOK, RegTypeOK, TsTypeOK
<1>2. CASE OldClosed
  <2>1. /\ op.kind = "update" /\ op.at = "wait"
        /\ op' = [op EXCEPT !.at = "listen", !.inst = Absent]
    BY <1>2 DEF OldClosed, At
  <2>2. /\ op' \in Ops /\ op'.kind = op.kind /\ op'.name = op.name /\ op'.cfg = op.cfg
        /\ op'.at = "listen" /\ op'.inst = Absent
    BY <1>1, <2>1 DEF Ops, Steps
  <2>3. /\ node' \in [Inst -> NodeStates] /\ UNCHANGED <<servers, owner, made, doomed>>
        /\ \A i \in Inst : node'[i] = "up" => node[i] = "up"
    BY <1>2, WaitEnded DEF OldClosed, IInv
  <2>4. InHand'
    BY <1>1, <2>1, <2>2, <2>3 DEF IInv, InHand, Replacing, Starting
  <2> QED  BY <1>1, <2>1, <2>2, <2>3, <2>4, GoesOn DEF Replacing, Starting
<1>3. CASE HandlerFails
  <2>1. op.at = "handler" /\ op' = [op EXCEPT !.at = "discard"] /\ UNCHANGED tsVars
    BY <1>3 DEF HandlerFails
  <2>2. /\ op' \in Ops /\ op'.kind = op.kind /\ op'.name = op.name /\ op'.cfg = op.cfg
        /\ op'.at = "discard" /\ op'.inst = op.inst
    BY <1>1, <2>1 DEF Ops, Steps
  <2>3. op.kind # "none" /\ node \in [Inst -> NodeStates]
    BY <2>1, WhoseStep DEF Starting, IInv, TypeOK, RegTypeOK, TsTypeOK
  <2>4. InHand'
    BY <1>1, <2>1, <2>2, <2>3 DEF IInv, InHand, Replacing, Starting, tsVars
  <2> QED  BY <1>1, <2>1, <2>2, <2>3, <2>4, GoesOn DEF Replacing, Starting, tsVars
<1> QED  BY <1>2, <1>3

\* StartServices takes the next service.
LEMMA StartNextStep ==
    ASSUME IInv, Reports, NEW n \in Names, StartNext(n)
    PROVE  IInv'
<1>1. /\ UNCHANGED <<tsVars, config, services, http, conf, released, panicked, gauge, ret>>
      /\ op.kind = "start" /\ op.at = "each" /\ n \in todo /\ todo' = todo \ {n}
      /\ op' = [op EXCEPT !.at = "listen", !.name = n, !.cfg = config[n]]
  BY DEF StartNext, At
<1>2. /\ op' \in Ops /\ op'.kind = "start" /\ op'.at = "listen" /\ op'.name = n
      /\ op'.cfg = config[n] /\ op'.inst = op.inst
  BY <1>1 DEF IInv, TypeOK, RegTypeOK, Ops, Steps
<1>3. todo' \subseteq Names /\ gauge' \in Nat /\ ret' \in {"none", "ok", "partial", "error"}
  BY <1>1 DEF IInv, TypeOK, RegTypeOK
<1>4. /\ RegTypeOK' /\ Entries' /\ Ahead'
      /\ NoOrphan => NoOrphan'
      /\ NoNodeLeak => NoNodeLeak'
      /\ \A m \in Names : RunningCfg(m)' = RunningCfg(m)
      /\ UNCHANGED <<servers, owner, node, made, doomed>>
  BY <1>1, <1>2, <1>3, LockOnly
<1>5. TypeOK' /\ Callers' /\ Plans' /\ faulty \subseteq faulty'
  BY <1>1, <1>2, <1>4, Reported
<1>6. InHand'
  BY <1>1, <1>2, <1>4 DEF IInv, InHand, Replacing, Starting
<1>7. ASSUME ~raced'
      PROVE  Untouched' /\ NoOrphan' /\ NoNodeLeak' /\ \A m \in Names \ faulty' : AsConfigured(m)'
  <2>1. /\ ~raced /\ Untouched /\ NoOrphan /\ NoNodeLeak
        /\ \A m \in Names \ faulty : AsConfigured(m)
    BY <1>7 DEF IInv, InOrder, Reports
  <2>2. Untouched'
    BY <1>1, <1>2, <2>1 DEF Untouched, Reports, IInv, Callers
  <2>3. ASSUME NEW m \in Names \ faulty'
        PROVE  AsConfigured(m)'
    <3>1. AsConfigured(m) /\ starter = "starting"
      BY <1>1, <1>5, <2>1, <2>3 DEF IInv, Callers
    <3> QED  BY <1>1, <1>2, <1>4, <3>1 DEF AsConfigured, Reports, Reloading
  <2> QED  BY <1>4, <2>1, <2>2, <2>3
<1> QED  BY <1>4, <1>5, <1>6, <1>7 DEF IInv, InOrder

-----------------------------------------------------------------------------
(* startService *)

\* The node of a service about to be started is in no map: nothing is overwritten.
LEMMA NoNodeBefore ==
    ASSUME IInv, op.at = "listen", ~raced
    PROVE  servers[op.name] = Absent
<1>1. CASE op.kind # "start"
  BY <1>1 DEF IInv, InHand
<1>2. CASE op.kind = "start"
  <2>1. services[op.name] = Absent
    BY <1>2 DEF IInv, InOrder, Untouched
  <2> QED  BY <2>1, WhoseStep DEF Starting, IInv, Ahead
<1> QED  BY <1>1, <1>2

\* The factory's new node, in whatever state it ends.
LEMMA NewNode ==
    ASSUME IInv, op.name \in Names, NEW state \in NodeStates, Make(op.name, state)
    PROVE  /\ made' = made + 1 /\ made' \in Inst /\ made \in Nat /\ UNCHANGED doomed
           /\ owner' \in [Inst -> Names \cup {None}] /\ node' \in [Inst -> NodeStates]
           /\ owner'[made'] = op.name /\ node'[made'] = state
           /\ \A i \in Inst \ {made'} : owner'[i] = owner[i] /\ node'[i] = node[i]
<1>1. /\ made \in Nat /\ made + 1 \in Inst
      /\ owner \in [Inst -> Names \cup {None}] /\ node \in [Inst -> NodeStates]
  BY DEF IInv, TypeOK, RegTypeOK, TsTypeOK, Make
<1> QED  BY <1>1 DEF Make

LEMMA ListeningStep ==
    ASSUME IInv, Reports, Listening
    PROVE  IInv'
<1>1. /\ UNCHANGED <<config, services, http, conf, released, panicked, gauge, todo, ret>>
      /\ op.at = "listen" /\ op.name \in Names /\ op.kind \in {"start", "add", "update"}
      /\ Make(op.name, "up") /\ servers' = [servers EXCEPT ![op.name] = made + 1]
      /\ op' = [op EXCEPT !.at = "handler", !.inst = made + 1]
  BY WhoseStep DEF Listening, ListenSucceeds, Starting
<1>2. /\ made' = made + 1 /\ made' \in Inst /\ made \in Nat /\ UNCHANGED doomed
      /\ owner' \in [Inst -> Names \cup {None}] /\ node' \in [Inst -> NodeStates]
      /\ owner'[made'] = op.name /\ node'[made'] = "up"
      /\ \A i \in Inst \ {made'} : owner'[i] = owner[i] /\ node'[i] = node[i]
  BY <1>1, NewNode DEF NodeStates
<1>3. /\ op' \in Ops /\ op'.kind = op.kind /\ op'.name = op.name /\ op'.cfg = op.cfg
      /\ op'.at = "handler" /\ op'.inst = made'
  BY <1>1, <1>2 DEF IInv, TypeOK, RegTypeOK, Ops, Steps
<1>4. /\ servers' \in [Names -> Inst \cup {Absent}] /\ servers'[op.name] = made'
      /\ \A n \in Names : n # op.name => servers'[n] = servers[n]
  BY <1>1, <1>2 DEF IInv, TypeOK, RegTypeOK, TsTypeOK
<1>5. RegTypeOK'
  BY <1>1, <1>2, <1>3, <1>4 DEF IInv, TypeOK, RegTypeOK, TsTypeOK
<1>6. TypeOK' /\ Callers' /\ Plans' /\ faulty \subseteq faulty'
  BY <1>3, <1>5, Reported
<1>7. \A n \in Names : /\ services[n] \in Inst \cup {Absent} /\ servers[n] \in Inst \cup {Absent}
                       /\ services[n] <= made /\ servers[n] <= made
                       /\ services[n] # made' /\ servers[n] # made'
  BY <1>2 DEF IInv, Entries, TypeOK, RegTypeOK, TsTypeOK
<1>8. Entries' /\ Ahead'
  BY <1>1, <1>2, <1>3, <1>4, <1>7 DEF IInv, Entries, Ahead
<1>9. InHand'
  BY <1>1, <1>2, <1>3, <1>4 DEF IInv, InHand, Replacing, Starting
<1>10. ASSUME ~raced'
       PROVE  Untouched' /\ NoOrphan' /\ NoNodeLeak' /\ \A n \in Names \ faulty' : AsConfigured(n)'
  <2>1. /\ ~raced /\ Untouched /\ NoOrphan /\ NoNodeLeak
        /\ \A n \in Names \ faulty : AsConfigured(n)
    BY <1>10 DEF IInv, InOrder, Reports
  <2>2. Untouched' /\ NoOrphan'
    BY <1>1, <1>2, <1>3, <1>7, <2>1 DEF Untouched, NoOrphan, Reports
  <2>3. NoNodeLeak'
    <3>1. servers[op.name] = Absent
      BY <1>1, <2>1, NoNodeBefore
    <3> QED  BY <1>1, <1>2, <1>4, <1>7, <2>1, <3>1 DEF NoNodeLeak
  <2>4. ASSUME NEW n \in Names \ faulty'
        PROVE  AsConfigured(n)'
    <3>1. AsConfigured(n) /\ RunningCfg(n)' = RunningCfg(n)
      BY <1>1, <1>6, <2>1, <2>4 DEF RunningCfg
    <3> QED  BY <1>1, <1>3, <3>1 DEF AsConfigured, Reports, Reloading
  <2> QED  BY <2>2, <2>3, <2>4
<1> QED  BY <1>6, <1>8, <1>9, <1>10 DEF IInv, InOrder

\* The node did not come up or has no listener: out of the map, and Listen waits for it.
LEMMA NotListeningStep ==
    ASSUME IInv, Reports, NotListening
    PROVE  IInv'
<1>1. /\ UNCHANGED <<config, services, http, conf, released, panicked, gauge, todo, ret>>
      /\ op.at = "listen" /\ op.name \in Names /\ op.kind \in {"start", "add", "update"}
      /\ Make(op.name, "closing") /\ servers' = [servers EXCEPT ![op.name] = Absent]
      /\ op' = [op EXCEPT !.at = "abandon", !.inst = made + 1]
  BY WhoseStep DEF NotListening, ListenFails, Starting
<1>2. /\ made' = made + 1 /\ made' \in Inst /\ made \in Nat /\ UNCHANGED doomed
      /\ owner' \in [Inst -> Names \cup {None}] /\ node' \in [Inst -> NodeStates]
      /\ owner'[made'] = op.name /\ node'[made'] = "closing"
      /\ \A i \in Inst \ {made'} : owner'[i] = owner[i] /\ node'[i] = node[i]
  BY <1>1, NewNode DEF NodeStates
<1>3. /\ op' \in Ops /\ op'.kind = op.kind /\ op'.name = op.name /\ op'.cfg = op.cfg
      /\ op'.at = "abandon" /\ op'.inst = made'
  BY <1>1, <1>2 DEF IInv, TypeOK, RegTypeOK, Ops, Steps
<1>4. /\ servers' \in [Names -> Inst \cup {Absent}] /\ servers'[op.name] = Absent
      /\ \A n \in Names : n # op.name => servers'[n] = servers[n]
  BY <1>1, <1>2 DEF IInv, TypeOK, RegTypeOK, TsTypeOK
<1>5. RegTypeOK'
  BY <1>1, <1>2, <1>3, <1>4 DEF IInv, TypeOK, RegTypeOK, TsTypeOK
<1>6. TypeOK' /\ Callers' /\ Plans' /\ faulty \subseteq faulty'
  BY <1>3, <1>5, Reported
<1>7. \A n \in Names : /\ services[n] \in Inst \cup {Absent} /\ servers[n] \in Inst \cup {Absent}
                       /\ services[n] <= made /\ servers[n] <= made
                       /\ services[n] # made' /\ servers[n] # made'
  BY <1>2 DEF IInv, Entries, TypeOK, RegTypeOK, TsTypeOK
<1>8. Entries' /\ Ahead'
  BY <1>1, <1>2, <1>3, <1>4, <1>7 DEF IInv, Entries, Ahead
<1>9. InHand'
  BY <1>1, <1>2, <1>3, <1>4 DEF IInv, InHand, Replacing, Starting
<1>10. ASSUME ~raced'
       PROVE  Untouched' /\ NoOrphan' /\ NoNodeLeak' /\ \A n \in Names \ faulty' : AsConfigured(n)'
  <2>1. /\ ~raced /\ Untouched /\ NoOrphan /\ NoNodeLeak
        /\ \A n \in Names \ faulty : AsConfigured(n)
    BY <1>10 DEF IInv, InOrder, Reports
  <2>2. Untouched' /\ NoOrphan'
    BY <1>1, <1>2, <1>3, <1>7, <2>1 DEF Untouched, NoOrphan, Reports
  <2>3. NoNodeLeak'
    <3>1. servers[op.name] = Absent
      BY <1>1, <2>1, NoNodeBefore
    <3> QED  BY <1>1, <1>2, <1>4, <1>7, <2>1, <3>1 DEF NoNodeLeak
  <2>4. ASSUME NEW n \in Names \ faulty'
        PROVE  AsConfigured(n)'
    <3>1. AsConfigured(n) /\ RunningCfg(n)' = RunningCfg(n)
      BY <1>1, <1>6, <2>1, <2>4 DEF RunningCfg
    <3> QED  BY <1>1, <1>3, <3>1 DEF AsConfigured, Reports, Reloading
  <2> QED  BY <2>2, <2>3, <2>4
<1> QED  BY <1>6, <1>8, <1>9, <1>10 DEF IInv, InOrder

\* What a start that failed has left of its node: nothing that is up.
LEMMA NodeGone ==
    ASSUME IInv, NotAuthorized \/ Abandoned \/ GaveUp, op.name \in Names
    PROVE  /\ made \in Nat /\ made' \in Inst \cup {Absent} /\ made <= made' /\ UNCHANGED doomed
           /\ owner' \in [Inst -> Names \cup {None}] /\ node' \in [Inst -> NodeStates]
           /\ servers' \in {servers, [servers EXCEPT ![op.name] = Absent]}
           /\ \A i \in Inst : i <= made => owner'[i] = owner[i]
           /\ \A i \in Inst : node'[i] = "up" => node[i] = "up" /\ owner'[i] = owner[i]
<1>1. /\ made \in Inst \cup {Absent} /\ doomed \subseteq Inst
      /\ owner \in [Inst -> Names \cup {None}]
  BY DEF IInv, TypeOK, RegTypeOK, TsTypeOK
<1>2. CASE GaveUp
  <2>1. /\ node' \in [Inst -> NodeStates] /\ UNCHANGED <<servers, owner, made, doomed>>
        /\ \A i \in Inst : node'[i] = "up" => node[i] = "up"
    BY <1>2, WaitEnded DEF GaveUp, IInv
  <2> QED  BY <1>1, <2>1
<1>3. CASE NotAuthorized
  <2>1. Make(op.name, "unstarted") /\ UNCHANGED servers
    BY <1>3 DEF NotAuthorized, ListenNoAuth
  <2>2. /\ made' = made + 1 /\ made' \in Inst /\ made \in Nat /\ UNCHANGED doomed
        /\ owner' \in [Inst -> Names \cup {None}] /\ node' \in [Inst -> NodeStates]
        /\ node'[made'] = "unstarted"
        /\ \A i \in Inst \ {made'} : owner'[i] = owner[i] /\ node'[i] = node[i]
    BY <2>1, NewNode DEF NodeStates
  <2> QED  BY <1>1, <2>1, <2>2
<1>4. CASE Abandoned
  <2>1. UNCHANGED tsVars /\ node \in [Inst -> NodeStates]
    BY <1>4 DEF Abandoned, ListenFailed, IInv, TypeOK, RegTypeOK, TsTypeOK
  <2> QED  BY <1>1, <2>1 DEF tsVars
<1> QED  BY <1>2, <1>3, <1>4

\* startService has failed, before its node was up or after that was closed again.
LEMMA FailedStep ==
    ASSUME IInv, Reports, NotAuthorized \/ Abandoned \/ GaveUp
    PROVE  IInv'
<1>1. /\ UNCHANGED <<config, http, conf, released, panicked, todo>> /\ StartFailed
      /\ op.at \in {"listen", "abandon", "giveup"} /\ op.name \in Names
      /\ op.kind \in {"start", "add", "update"}
  BY WhoseStep DEF NotAuthorized, Abandoned, GaveUp, Starting
<1>2. /\ made \in Nat /\ made' \in Inst \cup {Absent} /\ made <= made' /\ UNCHANGED doomed
      /\ owner' \in [Inst -> Names \cup {None}] /\ node' \in [Inst -> NodeStates]
      /\ servers' \in {servers, [servers EXCEPT ![op.name] = Absent]}
      /\ \A i \in Inst : i <= made => owner'[i] = owner[i]
      /\ \A i \in Inst : node'[i] = "up" => node[i] = "up" /\ owner'[i] = owner[i]
  BY <1>1, NodeGone
<1>3. /\ op' \in Ops /\ op'.inst = Absent
      /\ \/ op.kind = "start" /\ op'.kind = "start" /\ op'.at = "each"
         \/ op.kind # "start" /\ op' = Idle /\ op'.kind = "none" /\ op'.at = "idle"
      /\ services' = IF op.kind = "update" THEN [services EXCEPT ![op.name] = Absent]
                     ELSE services
      /\ gauge' \in Nat /\ ret' \in {"none", "ok", "partial", "error"}
  BY <1>1, StartHasFailed DEF IInv
<1>4. /\ servers' \in [Names -> Inst \cup {Absent}] /\ services' \in [Names -> Inst \cup {Absent}]
      /\ servers'[op.name] \in {servers[op.name], Absent}
      /\ services'[op.name] = IF op.kind = "update" THEN Absent ELSE services[op.name]
      /\ \A n \in Names : n # op.name => servers'[n] = servers[n] /\ services'[n] = services[n]
      /\ op.kind # "start" => servers[op.name] = Absent
  <2>1. op.kind # "start" => servers[op.name] = Absent
    BY <1>1 DEF IInv, InHand
  <2>2. /\ servers \in [Names -> Inst \cup {Absent}]
        /\ services \in [Names -> Inst \cup {Absent}]
    BY DEF IInv, TypeOK, RegTypeOK, TsTypeOK
  <2>3. /\ servers' \in [Names -> Inst \cup {Absent}]
        /\ servers'[op.name] \in {servers[op.name], Absent}
        /\ \A n \in Names : n # op.name => servers'[n] = servers[n]
    BY <1>1, <1>2, <2>2
  <2>4. /\ services' \in [Names -> Inst \cup {Absent}]
        /\ services'[op.name] = IF op.kind = "update" THEN Absent ELSE services[op.name]
        /\ \A n \in Names : n # op.name => services'[n] = services[n]
    BY <1>1, <1>3, <2>2
  <2> QED  BY <2>1, <2>3, <2>4
<1>5. RegTypeOK'
  BY <1>1, <1>2, <1>3, <1>4 DEF IInv, TypeOK, RegTypeOK, TsTypeOK
<1>6. TypeOK' /\ Callers' /\ Plans' /\ faulty \subseteq faulty' /\ op.name \in faulty'
  BY <1>1, <1>3, <1>5, Reported
<1>7. \A n \in Names : /\ services[n] \in Inst \cup {Absent} /\ servers[n] \in Inst \cup {Absent}
                       /\ services[n] <= made /\ servers[n] <= made
  BY DEF IInv, Entries, TypeOK, RegTypeOK, TsTypeOK
<1>8. Entries' /\ Ahead'
  <2>1. made' \in Nat
    BY <1>2
  <2>2. Entries'
    BY <1>1, <1>2, <1>4, <1>7, <2>1 DEF IInv, Entries
  <2>3. Ahead'
    BY <1>1, <1>3, <1>4 DEF IInv, Ahead
  <2> QED  BY <2>2, <2>3
<1>9. InHand'
  BY <1>1, <1>2, <1>3 DEF IInv, InHand, Replacing, Starting, Idle, Begun
<1>10. ASSUME ~raced'
       PROVE  Untouched' /\ NoOrphan' /\ NoNodeLeak' /\ \A n \in Names \ faulty' : AsConfigured(n)'
  <2>1. /\ ~raced /\ Untouched /\ NoOrphan /\ NoNodeLeak
        /\ \A n \in Names \ faulty : AsConfigured(n)
    BY <1>10 DEF IInv, InOrder, Reports
  <2>2. Untouched'
    BY <1>1, <1>3, <1>4, <2>1 DEF Untouched, Reports, IInv, Callers
  <2>3. NoOrphan'
    <3>1. op.kind # "start" => services[op.name] = Absent \/ http[services[op.name]] = "stopped"
      BY <1>1 DEF IInv, InHand, Replacing, Starting
    <3>2. \A n \in Names : services[n] \in Inst /\ http[services[n]] \in {"serving", "dead", "draining"}
                            => services'[n] = services[n]
      BY <1>1, <1>4, <3>1
    <3>3. ASSUME NEW i \in Inst, http'[i] \in {"serving", "dead", "draining"}
          PROVE  \E n \in Names : owner'[i] = n /\ services'[n] = i
      <4>1. PICK n \in Names : owner[i] = n /\ services[n] = i
        BY <1>1, <2>1, <3>3 DEF NoOrphan
      <4>2. i <= made /\ services'[n] = i
        BY <1>1, <1>7, <3>2, <3>3, <4>1
      <4> QED  BY <1>2, <4>1, <4>2
    <3> QED  BY <3>3 DEF NoOrphan
  <2>4. NoNodeLeak'
    <3>1. op.at = "listen" => servers[op.name] = Absent
      BY <2>1, NoNodeBefore
    <3>2. servers[op.name] = Absent
      BY <1>1, <3>1 DEF IInv, InHand
    <3> QED  BY <1>2, <1>4, <2>1, <3>2 DEF NoNodeLeak
  <2>5. ASSUME NEW n \in Names \ faulty'
        PROVE  AsConfigured(n)'
    <3>1. AsConfigured(n) /\ n # op.name
      BY <1>6, <2>1, <2>5
    <3>2. RunningCfg(n)' = RunningCfg(n)
      BY <1>1, <1>4, <2>5, <3>1 DEF RunningCfg
    <3> QED  BY <1>1, <1>3, <3>1, <3>2 DEF AsConfigured, Reports, Reloading
  <2> QED  BY <2>2, <2>3, <2>4, <2>5
<1> QED  BY <1>6, <1>8, <1>9, <1>10 DEF IInv, InOrder

\* The service is up, under its name and with its configuration.
LEMMA ServesStep ==
    ASSUME IInv, Reports, Serves
    PROVE  IInv'
<1>1. /\ UNCHANGED <<tsVars, config, released, panicked, todo>>
      /\ op.at = "handler" /\ op.name \in Names /\ op.kind \in {"start", "add", "update"}
      /\ op.inst \in Inst /\ op.inst <= made /\ owner[op.inst] = op.name
      /\ servers[op.name] \in {Absent, op.inst} /\ op.cfg \in Cfgs \cup {None}
      /\ http' = [http EXCEPT ![op.inst] = "serving"]
      /\ conf' = [conf EXCEPT ![op.inst] = op.cfg]
      /\ services' = [services EXCEPT ![op.name] = op.inst]
  BY WhoseStep, OpTyped DEF Serves, Starting, IInv, InHand
<1>2. /\ op' \in Ops /\ op'.inst = Absent
      /\ \/ op.kind = "start" /\ op'.kind = "start" /\ op'.at = "each"
         \/ op.kind # "start" /\ op' = Idle /\ op'.kind = "none" /\ op'.at = "idle"
      /\ gauge' \in Nat /\ ret' \in {"none", "ok", "partial", "error"}
  <2>1. gauge \in Nat /\ ret \in {"none", "ok", "partial", "error"} /\ op.lost \in BOOLEAN
    BY OpTyped DEF IInv, TypeOK, RegTypeOK
  <2>2. CASE op.kind = "start"
    <3>1. op' = [Begun("start", "each", None, None, Absent) EXCEPT !.won = TRUE, !.lost = op.lost]
          /\ UNCHANGED <<gauge, ret>>
      BY <2>2 DEF Serves
    <3>2. op' \in Ops /\ op'.kind = "start" /\ op'.at = "each" /\ op'.inst = Absent
      BY <2>1, <3>1, BetweenStarts
    <3> QED  BY <2>1, <2>2, <3>1, <3>2
  <2>3. CASE op.kind # "start"
    BY <2>1, <2>3, IdleIsOp, CountIsNat DEF Serves, Return, SetActive
  <2> QED  BY <2>2, <2>3
<1>3. /\ services \in [Names -> Inst \cup {Absent}] /\ http \in [Inst -> HttpStates]
      /\ conf \in [Inst -> Cfgs \cup {None}] /\ made \in Nat
      /\ servers \in [Names -> Inst \cup {Absent}]
  BY DEF IInv, TypeOK, RegTypeOK, TsTypeOK
<1>4. /\ services'[op.name] = op.inst /\ conf'[op.inst] = op.cfg
      /\ \A n \in Names : n # op.name => services'[n] = services[n]
      /\ \A n \in Names : n # op.name => services[n] # op.inst
      /\ \A i \in Inst : i # op.inst => http'[i] = http[i] /\ conf'[i] = conf[i]
  BY <1>1, <1>3 DEF IInv, Entries
<1>5. RegTypeOK'
  <2>1. /\ services' \in [Names -> Inst \cup {Absent}] /\ http' \in [Inst -> HttpStates]
        /\ conf' \in [Inst -> Cfgs \cup {None}]
    BY <1>1, <1>3 DEF HttpStates
  <2> QED  BY <1>1, <1>2, <2>1 DEF IInv, TypeOK, RegTypeOK, TsTypeOK, tsVars
<1>6. TypeOK' /\ Callers' /\ Plans' /\ faulty \subseteq faulty'
  BY <1>1, <1>2, <1>5, Reported
<1>7. Entries' /\ Ahead'
  BY <1>1, <1>2, <1>3, <1>4 DEF IInv, Entries, Ahead, tsVars
<1>8. InHand'
  BY <1>1, <1>2, <1>3 DEF IInv, InHand, Replacing, Starting, Idle, Begun, tsVars
<1>9. ASSUME ~raced'
      PROVE  Untouched' /\ NoOrphan' /\ NoNodeLeak' /\ \A n \in Names \ faulty' : AsConfigured(n)'
  <2>1. /\ ~raced /\ Untouched /\ NoOrphan /\ NoNodeLeak
        /\ \A n \in Names \ faulty : AsConfigured(n)
    BY <1>9 DEF IInv, InOrder, Reports
  <2>2. Untouched' /\ NoNodeLeak'
    <3>1. NoNodeLeak'
      BY <1>1, <2>1 DEF NoNodeLeak, tsVars
    <3>2. starter \notin {"created", "watching", "metrics"}
      BY <1>1, <2>1 DEF Untouched, IInv, Callers, Reloading
    <3>3. op'.kind = "start" => op'.at = "each" /\ op.kind = "start"
      BY <1>2
    <3>4. op.kind = "start" => op.name \notin todo /\ todo' = todo
      BY <1>1, <2>1 DEF Untouched
    <3>5. \A n \in todo : n \in Names
      BY DEF IInv, TypeOK, RegTypeOK
    <3>6. Untouched'
      BY <1>1, <1>4, <2>1, <3>2, <3>3, <3>4, <3>5 DEF Untouched, Reports
    <3> QED  BY <3>1, <3>6
  <2>3. NoOrphan'
    <3>1. services[op.name] = Absent \/ http[services[op.name]] = "stopped"
      BY <1>1, <2>1 DEF IInv, InHand, Untouched, Replacing, Starting
    <3> QED  BY <1>1, <1>3, <1>4, <2>1, <3>1 DEF NoOrphan, tsVars
  <2>4. ASSUME NEW n \in Names \ faulty'
        PROVE  AsConfigured(n)'
    <3>1. AsConfigured(n)
      BY <1>6, <2>1, <2>4
    <3>2. CASE n = op.name
      <4>1. RunningCfg(n)' = op.cfg
        BY <1>1, <1>4, <3>2 DEF RunningCfg
      <4>2. CASE op.kind = "start"
        <5>1. starter = "starting" /\ op.cfg = config[n]
          BY <1>1, <3>2, <4>2 DEF IInv, Callers, InHand
        <5> QED  BY <1>1, <1>2, <3>1, <4>1, <4>2, <5>1 DEF AsConfigured, Reports
      <4>3. CASE op.kind # "start"
        <5>1. /\ starter # "starting" /\ watcher = "reloading" /\ op.cfg = pending[n]
              /\ n \notin plan.remove \cup plan.add \cup plan.update
          BY <1>1, <3>2, <4>3 DEF IInv, Callers, Reloading
        <5> QED  BY <3>1, <4>1, <5>1 DEF AsConfigured, Reports
      <4> QED  BY <4>2, <4>3
    <3>3. CASE n # op.name
      <4>1. RunningCfg(n)' = RunningCfg(n)
        BY <1>1, <1>3, <1>4, <2>4, <3>3 DEF RunningCfg
      <4> QED  BY <1>1, <1>2, <3>1, <3>3, <4>1 DEF AsConfigured, Reports, Reloading
    <3> QED  BY <3>2, <3>3
  <2> QED  BY <2>2, <2>3, <2>4
<1> QED  BY <1>6, <1>7, <1>8, <1>9 DEF IInv, InOrder

-----------------------------------------------------------------------------
(* The invariant *)

LEMMA InitIInv == Init => IInv
<1> SUFFICES ASSUME Init PROVE IInv
  OBVIOUS
<1>1. /\ RegInit /\ config \in Configs /\ cfg = config /\ pending = config
      /\ starter = "created" /\ watcher = "none" /\ closer = "none" /\ cancelled = FALSE
      /\ plan = Nothing /\ erred = FALSE /\ outcome = "none" /\ reloads = 0 /\ faulty = {}
      /\ raced = FALSE
  BY DEF Init
<1>2. /\ servers = [n \in Names |-> Absent] /\ services = [n \in Names |-> Absent]
      /\ http = [i \in Inst |-> "none"] /\ node = [i \in Inst |-> "none"] /\ made = 0
      /\ op = Idle /\ todo = {}
  BY <1>1 DEF RegInit, TsInit
<1>3. TypeOK
  <2>1. RegTypeOK
    BY <1>1, <1>2, IdleIsOp DEF RegInit, TsInit, RegTypeOK, TsTypeOK, HttpStates, NodeStates
  <2>2. /\ cfg \in [Names -> Cfgs \cup {None}] /\ pending \in [Names -> Cfgs \cup {None}]
        /\ plan \in [remove : SUBSET Names, add : SUBSET Names, update : SUBSET Names]
        /\ reloads \in 0 .. MaxReloads
    BY <1>1 DEF Nothing, AppAssumption
  <2> QED  BY <1>1, <2>1, <2>2 DEF TypeOK
<1>4. Entries /\ Ahead /\ NoOrphan /\ NoNodeLeak
  BY <1>2 DEF Entries, Ahead, NoOrphan, NoNodeLeak
<1>5. InHand /\ Callers /\ Plans /\ Untouched
  BY <1>1, <1>2, IdleIsOp DEF InHand, Replacing, Starting, Callers, Plans, Reloading, Untouched
<1>6. \A n \in Names : AsConfigured(n)
  BY <1>1 DEF AsConfigured
<1> QED  BY <1>3, <1>4, <1>5, <1>6 DEF IInv, InOrder

LEMMA NextIInv == IInv /\ [Next]_vars => IInv'
<1> SUFFICES ASSUME IInv, [Next]_vars PROVE IInv'
  OBVIOUS
<1>1. CASE Starter
  BY <1>1, AsideStep, CallStartServicesStep, StartedStep DEF Starter
<1>2. CASE Watcher
  <2>1. ASSUME NEW new \in Configs, Receive(new) PROVE IInv'
    BY <2>1, ReceiveStep
  <2>2. ASSUME NEW n \in Names, ReloadCalls(n) \/ ReloadRefused(n) PROVE IInv'
    BY <2>2, ReloadCallsStep, ReloadRefusedStep
  <2>3. CASE ReloadReturns \/ WatcherGone
    BY <2>3, ReloadReturnsStep, AsideStep
  <2> QED  BY <1>2, <2>1, <2>2, <2>3 DEF Watcher, Reload
<1>3. CASE Signal
  BY <1>3, AsideStep
<1>4. CASE Closer
  <2>1. CASE CallShutdown \/ ServicesStopped
    BY <2>1, ShutdownStep
  <2>2. CASE CloseNodes \/ CloseStep
    BY <2>2, NodesStep
  <2>3. CASE Exit
    BY <2>3, AsideStep, Zenon
  <2> QED  BY <1>4, <2>1, <2>2, <2>3 DEF Closer
<1>5. CASE Working
  <2>1. Reports
    BY <1>5 DEF Working, Reports
  <2>2. ASSUME NEW n \in Names, StartNext(n) \/ ShutdownStops(n) PROVE IInv'
    BY <2>1, <2>2, StartNextStep, ShutdownStopsStep
  <2>3. CASE Stopped \/ NotStopped
    BY <2>1, <2>3, StopStep
  <2>4. CASE CloseNode \/ Removed
    BY <2>1, <2>4, CloseNodeStep, RemovedStep
  <2>5. CASE OldClosed \/ HandlerFails
    BY <2>1, <2>5, GoesOnSteps
  <2>6. CASE Listening \/ NotListening \/ Serves
    BY <2>1, <2>6, ListeningStep, NotListeningStep, ServesStep
  <2>7. CASE NotAuthorized \/ Abandoned \/ GaveUp
    BY <2>1, <2>7, FailedStep
  <2> QED  BY <1>5, <2>2, <2>3, <2>4, <2>5, <2>6, <2>7 DEF Working, InnerStep
<1>6. CASE Elsewhere
  <2>1. UNCHANGED appVars
    BY <1>6 DEF Elsewhere
  <2>2. ASSUME NEW i \in Inst, ServeFails(i) PROVE IInv'
    BY <2>1, <2>2, ServeFailsStep
  <2>3. ASSUME NEW i \in Inst, NodeClosed(i) PROVE IInv'
    BY <2>1, <2>3, NodesStep
  <2> QED  BY <1>6, <2>2, <2>3 DEF Elsewhere
<1>7. CASE UNCHANGED vars
  BY <1>7, AsideStep
<1> QED  BY <1>1, <1>2, <1>3, <1>4, <1>5, <1>6, <1>7 DEF Next

LEMMA Invariant == Safety => []IInv
BY InitIInv, NextIInv, PTL DEF Safety

-----------------------------------------------------------------------------
(* The theorems *)

\* Types of App's variables, whoever comes first at r.mu.
THEOREM AppTyped == Safety => []TypeOK
<1>1. IInv => TypeOK
  BY DEF IInv
<1> QED  BY <1>1, Invariant, PTL

\* reloadConfigWithRegistry (internal/app/reload.go) goes on after a failed call: the
\* services for which nothing failed run what a.cfg says all the same.
THEOREM FailuresStayHome == Safety => []FailuresStayLocal
<1>1. IInv => FailuresStayLocal
  BY DEF IInv, InOrder, AsConfigured, FailuresStayLocal
<1> QED  BY <1>1, Invariant, PTL

\* Whatever Registry and tailscale.Server bring up stays within reach of Shutdown and Close
\* while no configuration overtakes App.Start.
THEOREM NothingOutOfReach == Safety => []ReachableUnlessRaced
<1>1. IInv => ReachableUnlessRaced
  BY DEF IInv, InOrder, ReachableUnlessRaced
<1> QED  BY <1>1, Invariant, PTL

\* The calls of reloadConfigWithRegistry stop, of the servers that accept requests, only
\* those of services whose configuration differs.
THEOREM OthersAreLeftAlone == Safety => UnchangedUntouched
<1>. DEFINE Left == \A i \in Inst : http[i] = "serving" /\ http'[i] \notin {"serving", "dead"} =>
                \/ op.kind = "shutdown"
                \/ \E n \in Names : owner[i] = n /\ pending[n] # cfg[n]
<1>1. ASSUME IInv, Stopped \/ NotStopped
      PROVE  Left
  <2>1. /\ op.kind \in Reloading /\ op.at = "stop"
        /\ \A i \in Inst : i # op.inst => http'[i] = http[i]
    BY <1>1 DEF Stopped, NotStopped, At, StopSucceeds, StopTimesOut, IInv, TypeOK,
          RegTypeOK, Reloading
  <2>2. op.name \in Names /\ owner[op.inst] = op.name
    BY <2>1, <1>1 DEF IInv, InHand, Entries
  <2>3. pending[op.name] # cfg[op.name]
    BY <2>1, <1>1 DEF IInv, Callers
  <2> QED  BY <2>1, <2>2, <2>3
<1>2. ASSUME IInv, NEW n \in Names, ShutdownStops(n)
      PROVE  Left
  BY <1>2 DEF ShutdownStops, At
<1>3. ASSUME IInv, Serves
      PROVE  Left
  BY <1>3 DEF Serves, IInv, TypeOK, RegTypeOK
<1>4. ASSUME IInv, NEW i \in Inst, ServeFails(i)
      PROVE  Left
  BY <1>4 DEF ServeFails, IInv, TypeOK, RegTypeOK
<1>5. ASSUME IInv, Next, ~(Stopped \/ NotStopped), ~Serves,
             \A n \in Names : ~ShutdownStops(n), \A i \in Inst : ~ServeFails(i)
      PROVE  UNCHANGED http
  BY <1>5 DEF Next, Starter, StartWatch, StartMetrics, CallStartServices, Started, ExitFailed,
        Watcher, Receive, Reload, ReloadCalls, ReloadRefused, ReloadReturns, WatcherGone, Signal,
        Closer, CallShutdown, ServicesStopped, CloseNodes, CloseStep, Exit, Elsewhere, Working,
        InnerStep, StartServices, AddService, AddRefused, RemoveService, RemoveRefused,
        UpdateService, UpdateRefused, Refuse, Shutdown, ShutdownReturns, CloseNode, Removed,
        OldClosed, StartNext, Listening, NotAuthorized, NotListening, Abandoned, HandlerFails,
        GaveUp, StartReturns, NodeClosed, regVars
<1>6. IInv /\ [Next]_vars => [Left]_vars
  BY <1>1, <1>2, <1>3, <1>4, <1>5
<1> QED  BY <1>6, Invariant, PTL DEF Safety, UnchangedUntouched
=============================================================================
