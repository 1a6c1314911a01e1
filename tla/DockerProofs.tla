----------------------------- MODULE DockerProofs -----------------------------
(***************************************************************************)
(* What is proved of DockerProvider: its variables keep their types, every   *)
(* configuration anywhere in it holds services as their labels promise, and  *)
(* p.lastConfig stays in step with the app unless a send is given up or       *)
(* crosses another reload.                                                   *)
(***************************************************************************)
EXTENDS DockerProvider, ConfigurationProofs

-----------------------------------------------------------------------------
(* Configurations *)

LEMMA LoadedTyped ==
    ASSUME NEW shown \in Configs
    PROVE  Loaded(shown) \in Configs
BY DEF Loaded, Configs, Usable, Started

LEMMA RemovedTyped ==
    ASSUME NEW cfg \in Configs, NEW name
    PROVE  removeServiceByContainerName(cfg, name) \in Configs
BY DEF removeServiceByContainerName, Configs

LEMMA NobodyTyped == Nobody \in Configs
BY DEF Nobody, Configs

LEMMA ListsTyped ==
    ASSUME world \in Configs, ghost \in Configs, NEW shown \in Lists
    PROVE  shown \in Configs
BY DEF Lists, Configs

LEMMA ChangedTyped ==
    ASSUME NEW cfg \in Configs, NEW c \in Containers, NEW s \in Setups \cup {None}
    PROVE  [cfg EXCEPT ![c] = s] \in Configs
BY DEF Configs

LEMMA EmitTyped ==
    ASSUME events \in Seq(EventSet), NEW es \in Seq(EventSet), Emit(es)
    PROVE  events' \in Seq(EventSet)
BY DEF Emit

LEMMA Bounds == MaxChanges \in Nat /\ MaxFaults \in Nat
BY DockerAssumption

\* A configuration without services, or with fewer, is as truthful.
LEMMA FewerTruthful ==
    ASSUME NEW cfg \in Configs, Truthful(cfg), NEW less \in Configs,
           \A c \in Containers : less[c] \in {cfg[c], None}
    PROVE  Truthful(less)
BY Zenon DEF Truthful

LEMMA NobodyTruthful == Truthful(Nobody)
BY DEF Truthful, Nobody

\* What Load stores is truthful: Validate has accepted it.
LEMMA LoadedTruthful ==
    ASSUME NEW shown \in Acceptable
    PROVE  Truthful(Loaded(shown))
<1> DEFINE there == {c \in Containers : shown[c] # None}
           listing == [c \in there |-> Summary(c, shown[c])]
           global == SetGlobalDefaults(parseGlobalConfig(Self))
           services == Services(Self, listing)
           used == {c \in Containers : Loaded(shown)[c] # None}
<1>1. shown \in Configs /\ Accepted(Self, listing)
  BY DEF Acceptable
<1>2. /\ \A c \in DOMAIN services : validateService(services[c], global.oauth)
      /\ \A c, d \in DOMAIN services : services[c].name = services[d].name => c = d
  BY <1>1 DEF Accepted, Validate
<1>3. ASSUME NEW c \in used
      PROVE  /\ c \in Containers /\ shown[c] \in Setups /\ Loaded(shown)[c] = shown[c]
             /\ c \in DOMAIN services
             /\ services[c] = Service[<<c, shown[c]>>]
             /\ Service[<<c, shown[c]>>] = Processed(Self, Summary(c, shown[c]))
  <2>1. <<c, shown[c]>> \in Usable /\ Loaded(shown)[c] = shown[c]
    BY <1>3 DEF Loaded
  <2>2. c \in there /\ shown[c] \in Setups
    BY <1>1, <1>3, <2>1 DEF Configs
  <2>3. Parses(Summary(c, shown[c]))
    BY <2>1, <2>2 DEF Usable, Started
  <2>4. c \in DOMAIN services /\ services[c] = Processed(Self, Summary(c, shown[c]))
    BY <2>2, <2>3 DEF Services
  <2>5. Service[<<c, shown[c]>>] = Processed(Self, Summary(c, shown[c]))
    BY <2>2 DEF Service, Started
  <2> QED  BY <1>3, <2>1, <2>2, <2>4, <2>5
<1>4. global.oauth = Self.oauth
  BY DEF SetGlobalDefaults, parseGlobalConfig
<1> HIDE DEF there, listing, global, services, used
<1>5. ASSUME NEW c \in used
      PROVE  <<c, Loaded(shown)[c]>> \in Honouring
  <2> DEFINE made == Processed(Self, Summary(c, shown[c]))
  <2>0. services[c] = made /\ c \in DOMAIN services /\ Service[<<c, shown[c]>>] = made
        /\ c \in Containers /\ shown[c] \in Setups /\ Loaded(shown)[c] = shown[c]
    BY <1>3
  <2>1. validateService(made, Self.oauth)
    <3> HIDE DEF made
    <3> QED  BY <1>2, <1>4, <2>0
  <2>2. LET labels == Summary(c, shown[c]).labels
        IN Has(labels, "ephemeral") => labels["ephemeral"] \in BOOLEAN \cup {Garbled}
    BY <1>3, DockerAssumption DEF Summary
  <2>3. Honours(Self, Summary(c, shown[c]), made)
    BY <2>1, <2>2, LabelsAreKept
  <2>4. <<c, shown[c]>> \in Started
    BY <2>0 DEF Started
  <2> HIDE DEF made
  <2>5. <<c, shown[c]>> \in Honouring
    BY <2>0, <2>3, <2>4 DEF Honouring
  <2> QED  BY <2>0, <2>5
<1>6. ASSUME NEW c \in used, NEW d \in used,
             Service[<<c, Loaded(shown)[c]>>].name = Service[<<d, Loaded(shown)[d]>>].name
      PROVE  c = d
  <2>1. /\ c \in DOMAIN services /\ services[c] = Service[<<c, Loaded(shown)[c]>>]
        /\ d \in DOMAIN services /\ services[d] = Service[<<d, Loaded(shown)[d]>>]
    BY <1>3
  <2> QED  BY <1>2, <1>6, <2>1
<1>7. ASSUME NEW c \in used, Self.oauth
      PROVE  Service[<<c, Loaded(shown)[c]>>].set["tags"] \notin {None, <<>>}
  <2>1. validateService(Service[<<c, shown[c]>>], TRUE)
    BY <1>2, <1>3, <1>4, <1>7
  <2> QED  BY <1>3, <2>1 DEF validateService
<1> QED  BY <1>5, <1>6, <1>7 DEF Truthful, used

-----------------------------------------------------------------------------
(* The invariant of every provider: typed, and truthful wherever a configuration is *)
(* kept on its way to the app.                                                    *)

Tasks == [at : {"idle", "load", "send", "record"}, old : Configs, new : Configs]

TruthfulAll ==
    /\ Truthful(lastConfig) /\ Truthful(incoming)
    /\ Truthful(loop.old) /\ Truthful(loop.new)
    /\ \A r \in Reloaders : Truthful(reloader[r].old) /\ Truthful(reloader[r].new)

IInv == TypeOK /\ TruthfulAll

LEMMA InitIInv == Init => IInv
<1> SUFFICES ASSUME Init PROVE IInv
  OBVIOUS
<1>1. world \in Configs /\ Loaded(world) \in Configs /\ Truthful(Loaded(world))
  BY LoadedTyped, LoadedTruthful DEF Init, Acceptable
<1>2. TypeOK
  <2>1. <<>> \in Seq(EventSet)
    OBVIOUS
  <2>2. loop \in [at : {"connect", "reading", "load", "send", "record", "gone"},
                  old : Configs, new : Configs, who : Containers \cup {None}]
    BY NobodyTyped DEF Init, LoopAt
  <2>3. reloader \in [Reloaders -> Tasks]
    BY NobodyTyped DEF Init, Tasks, Resting
  <2>4. {cancelled, closed, panicked, lapsed} \subseteq BOOLEAN /\ stream \in BOOLEAN /\ armed \in BOOLEAN
    BY DEF Init
  <2>5. changes \in 0 .. MaxChanges /\ faults \in 0 .. MaxFaults
    BY Bounds DEF Init
  <2>6. /\ world \in Configs /\ ghost \in Configs /\ lastConfig \in Configs
        /\ incoming \in Configs /\ applied \in Configs
        /\ events \in Seq(EventSet) /\ app \in {"waiting", "applying", "gone"}
    BY <1>1, <2>1, NobodyTyped DEF Init
  <2> QED  BY <2>2, <2>3, <2>4, <2>5, <2>6 DEF TypeOK, Tasks
<1>3. TruthfulAll
  BY <1>1, NobodyTruthful DEF Init, TruthfulAll, LoopAt, Resting
<1> QED  BY <1>2, <1>3 DEF IInv

\* A reloader changes its task and nobody else's.
LEMMA NewTask ==
    ASSUME IInv, NEW r \in Reloaders, NEW task \in Tasks,
           Truthful(task.old), Truthful(task.new),
           reloader' = [reloader EXCEPT ![r] = task]
    PROVE  /\ reloader' \in [Reloaders -> Tasks]
           /\ \A q \in Reloaders : Truthful(reloader'[q].old) /\ Truthful(reloader'[q].new)
BY DEF IInv, TypeOK, TruthfulAll, Tasks

\* What Load stores can be used.
LEMMA LoadStores ==
    ASSUME TypeOK, NEW shown \in Lists, Load(shown)
    PROVE  /\ lastConfig' = Loaded(shown) /\ UNCHANGED faults
           /\ Loaded(shown) \in Configs /\ Truthful(Loaded(shown))
BY LoadedTyped, LoadedTruthful DEF Load, Acceptable

LEMMA RememberTyped == Remember => lapsed' \in BOOLEAN
<1> DEFINE seen == Overlap' \/ GivenUp \/ TakenOut \/ (lapsed /\ ~Delivered)
<1>1. seen \in BOOLEAN
  OBVIOUS
<1> HIDE DEF seen
<1>2. Remember => lapsed' = seen
  BY Zenon DEF Remember, seen
<1> QED  BY <1>1, <1>2

LEMMA DaemonIInv == IInv /\ lapsed' \in BOOLEAN /\ (Daemon \/ Settles) => IInv'
<1> SUFFICES ASSUME IInv, lapsed' \in BOOLEAN, Daemon \/ Settles PROVE IInv'
  OBVIOUS
<1> DEFINE Apart == UNCHANGED <<lastConfig, incoming, loop, reloader>>
<1>0. TypeOK
  BY DEF IInv
<1>1. ASSUME NEW c \in Containers, NEW s \in Setups, ContainerStarts(c, s)
      PROVE  TypeOK' /\ Apart
  <2>1. world' \in Configs /\ ghost' \in Configs
    BY <1>0, <1>1, ChangedTyped DEF ContainerStarts, TypeOK
  <2>2. events' \in Seq(EventSet)
    <3>1. <<[kind |-> "other", who |-> c]>> \in Seq(EventSet)
      BY DEF EventSet
    <3> QED  BY <1>0, <1>1, <3>1, EmitTyped DEF ContainerStarts, TypeOK
  <2> QED  BY <1>0, <1>1, <2>1, <2>2, Bounds DEF ContainerStarts, Changing, TypeOK, receiver, ctx
<1>2. ASSUME NEW c \in Containers, ContainerStops(c)
      PROVE  TypeOK' /\ Apart
  <2>1. world' \in Configs /\ ghost' \in Configs
    <3>1. world \in Configs /\ ghost \in Configs /\ world[c] \in Setups \cup {None}
      BY <1>0 DEF TypeOK, Configs
    <3>2. [world EXCEPT ![c] = None] \in Configs /\ [ghost EXCEPT ![c] = world[c]] \in Configs
      BY <3>1, ChangedTyped
    <3>3. ghost' \in {ghost, [ghost EXCEPT ![c] = world[c]]}
      BY <1>2, Zenon DEF ContainerStops
    <3> QED  BY <1>2, <3>1, <3>2, <3>3 DEF ContainerStops
  <2>2. events' \in Seq(EventSet)
    <3> DEFINE e == [kind |-> "gone", who |-> c]
    <3>1. e \in EventSet
      BY DEF EventSet
    <3> HIDE DEF e
    <3>2. <<e>> \in Seq(EventSet) /\ <<e, e>> \in Seq(EventSet)
      BY <3>1
    <3> QED  BY <1>0, <1>2, <3>2, EmitTyped DEF ContainerStops, TypeOK, e
  <2> QED  BY <1>0, <1>2, <2>1, <2>2, Bounds DEF ContainerStops, Changing, TypeOK, receiver, ctx
<1>3. ASSUME NEW c \in Containers, ContainerPauses(c)
      PROVE  TypeOK' /\ Apart
  <2>1. world' \in Configs /\ ghost' \in Configs
    BY <1>0, <1>3, ChangedTyped DEF ContainerPauses, TypeOK
  <2>2. events' \in Seq(EventSet)
    <3>1. <<[kind |-> "other", who |-> c]>> \in Seq(EventSet)
      BY DEF EventSet
    <3> QED  BY <1>0, <1>3, <3>1, EmitTyped DEF ContainerPauses, TypeOK
  <2> QED  BY <1>0, <1>3, <2>1, <2>2, Bounds DEF ContainerPauses, Changing, TypeOK, receiver, ctx
<1>4. ASSUME NEW c \in Containers, ListSettles(c)
      PROVE  TypeOK' /\ Apart
  <2>1. ghost' \in Configs
    BY <1>0, <1>4, ChangedTyped DEF ListSettles, TypeOK
  <2> QED  BY <1>0, <1>4, <2>1 DEF ListSettles, TypeOK, provider, receiver, ctx
<1>5. TypeOK' /\ Apart
  BY <1>1, <1>2, <1>3, <1>4 DEF Daemon, Settles
<1> QED  BY <1>5 DEF IInv, TruthfulAll

LEMMA DeliveredTyped ==
    ASSUME TypeOK, NEW cfg \in Configs, Deliver(cfg)
    PROVE  /\ app' \in {"waiting", "applying", "gone"}
           /\ incoming' = cfg
           /\ applied' \in Configs
BY DEF TypeOK, Deliver

\* The steps of the event loop, of its failures and of the app.
LEMMA LoopIInv == /\ IInv /\ lapsed' \in BOOLEAN
                  /\ Loop \/ StreamBreaks \/ LoopLoadFails \/ Cancel \/ AppApplies \/ AppLeaves
                  => IInv'
<1> SUFFICES ASSUME IInv, lapsed' \in BOOLEAN,
                    Loop \/ StreamBreaks \/ LoopLoadFails \/ Cancel \/ AppApplies \/ AppLeaves
             PROVE  IInv'
  OBVIOUS
<1>0. TypeOK /\ TruthfulAll
  BY DEF IInv
<1>1. ASSUME NEW at \in {"connect", "reading", "gone"}, loop' = LoopAt(at)
      PROVE  /\ loop' \in [at : {"connect", "reading", "load", "send", "record", "gone"},
                           old : Configs, new : Configs, who : Containers \cup {None}]
             /\ Truthful(loop'.old) /\ Truthful(loop'.new)
  BY <1>1, NobodyTyped, NobodyTruthful DEF LoopAt
<1>2. CASE StreamOpens
  BY <1>0, <1>1, <1>2 DEF StreamOpens, IInv, TypeOK, TruthfulAll, env, receiver, ctx
<1>3. CASE StreamBreaks
  <2>1. <<>> \in Seq(EventSet)
    OBVIOUS
  <2>2. faults' \in 0 .. MaxFaults
    BY <1>0, <1>3, Bounds DEF StreamBreaks, Fault, TypeOK
  <2> QED  BY <1>0, <1>1, <1>3, <2>1, <2>2
           DEF StreamBreaks, IInv, TypeOK, TruthfulAll, env, receiver, ctx
<1>4. CASE ReadsGone
  <2>1. Head(events) \in EventSet /\ Tail(events) \in Seq(EventSet)
    BY <1>0, <1>4 DEF ReadsGone, TypeOK
  <2>2. Head(events).who \in Containers
    BY <2>1 DEF EventSet
  <2> QED  BY <1>0, <1>4, <2>1, <2>2, NobodyTyped, NobodyTruthful
           DEF ReadsGone, IInv, TypeOK, TruthfulAll, env, receiver, ctx
<1>5. CASE LoopLoads
  <2>1. PICK shown \in Lists :
            /\ Load(shown)
            /\ LET new == removeServiceByContainerName(Loaded(shown), loop.who)
               IN loop' = IF <<loop.old, new>> \in Equal THEN LoopAt("reading")
                          ELSE [loop EXCEPT !.at = "send", !.new = new]
    BY <1>5, Zenon DEF LoopLoads
  <2> DEFINE new == removeServiceByContainerName(Loaded(shown), loop.who)
  <2>2. /\ lastConfig' = Loaded(shown) /\ UNCHANGED faults
        /\ Loaded(shown) \in Configs /\ Truthful(Loaded(shown))
    BY <1>0, <2>1, LoadStores
  <2>3. new \in Configs
    BY <2>2, RemovedTyped
  <2>4. Truthful(new)
    <3>1. \A c \in Containers : new[c] \in {Loaded(shown)[c], None}
      BY DEF removeServiceByContainerName
    <3> HIDE DEF new
    <3> QED  BY <2>2, <2>3, <3>1, FewerTruthful
  <2> HIDE DEF new
  <2>5. loop' \in {LoopAt("reading"), [loop EXCEPT !.at = "send", !.new = new]}
    BY <2>1 DEF new
  <2>6. /\ loop' \in [at : {"connect", "reading", "load", "send", "record", "gone"},
                      old : Configs, new : Configs, who : Containers \cup {None}]
        /\ Truthful(loop'.old) /\ Truthful(loop'.new)
    BY <1>0, <1>1, <2>3, <2>4, <2>5 DEF TypeOK, TruthfulAll
  <2> QED  BY <1>0, <1>5, <2>2, <2>6
           DEF LoopLoads, IInv, TypeOK, TruthfulAll, env, receiver, ctx
<1>6. CASE LoopLoadFails \/ LoopLoadRefused
  <2>1. faults' \in 0 .. MaxFaults
    BY <1>0, <1>6, Bounds DEF LoopLoadFails, LoopLoadRefused, LoadFails, LoadRefuses, Fault, TypeOK
  <2>2. UNCHANGED lastConfig
    BY <1>6 DEF LoopLoadFails, LoopLoadRefused, LoadFails, LoadRefuses
  <2> QED  BY <1>0, <1>1, <1>6, <2>1, <2>2
           DEF LoopLoadFails, LoopLoadRefused, IInv, TypeOK, TruthfulAll, env, receiver, ctx
<1>7. CASE LoopSends
  <2>1. loop.new \in Configs /\ Deliver(loop.new)
    BY <1>0, <1>7 DEF LoopSends, TypeOK
  <2> QED  BY <1>0, <1>7, <2>1, DeliveredTyped DEF LoopSends, IInv, TypeOK, TruthfulAll, env, ctx
<1>8. CASE LoopRecords
  BY <1>0, <1>1, <1>8 DEF LoopRecords, IInv, TypeOK, TruthfulAll, env, receiver, ctx
<1>9. CASE ReadsOther
  <2>1. Tail(events) \in Seq(EventSet)
    BY <1>0, <1>9 DEF ReadsOther, TypeOK
  <2> QED  BY <1>0, <1>9, <2>1 DEF ReadsOther, IInv, TypeOK, TruthfulAll, env, receiver, ctx
<1>10. CASE LoopEnds
  BY <1>0, <1>1, <1>10 DEF LoopEnds, IInv, TypeOK, TruthfulAll, env, receiver
<1>11. CASE Cancel
  BY <1>0, <1>11 DEF Cancel, IInv, TypeOK, TruthfulAll, env, provider, receiver
<1>12. CASE AppApplies \/ AppLeaves
  BY <1>0, <1>12 DEF AppApplies, AppLeaves, IInv, TypeOK, TruthfulAll, env, provider, ctx
<1> QED
  BY <1>2, <1>3, <1>4, <1>5, <1>6, <1>7, <1>8, <1>9, <1>10, <1>11, <1>12 DEF Loop

\* The steps of the reloaders, and of the ticker and the timer that start them.
LEMMA ReloaderIInv ==
    ASSUME IInv, lapsed' \in BOOLEAN, NEW r \in Reloaders,
           Reloader(r) \/ ReloadFails(r) \/ TimerFires(r) \/ (r = Poller /\ PollTicks)
    PROVE  IInv'
<1>0. TypeOK /\ TruthfulAll /\ reloader[r] \in Tasks
      /\ Truthful(reloader[r].old) /\ Truthful(reloader[r].new)
  BY DEF IInv, TypeOK, TruthfulAll, Tasks
<1> DEFINE Kept == /\ reloader' \in [Reloaders -> Tasks]
                   /\ \A q \in Reloaders : Truthful(reloader'[q].old) /\ Truthful(reloader'[q].new)
<1>1. ASSUME NEW task \in Tasks, Truthful(task.old), Truthful(task.new),
             reloader' = [reloader EXCEPT ![r] = task]
      PROVE  Kept
  BY <1>1, NewTask
<1>2. Resting("idle") \in Tasks /\ Truthful(Resting("idle").old) /\ Truthful(Resting("idle").new)
  BY NobodyTyped, NobodyTruthful DEF Resting, Tasks
<1>3. CASE Begins(r) /\ armed' \in BOOLEAN
  <2> DEFINE task == [at |-> "load", old |-> lastConfig, new |-> Nobody]
  <2>1. reloader' = [reloader EXCEPT ![r] = task]
    BY <1>3 DEF Begins
  <2>2. task \in Tasks /\ Truthful(task.old) /\ Truthful(task.new)
    BY <1>0, NobodyTyped, NobodyTruthful DEF Tasks, TypeOK, TruthfulAll
  <2>3. Kept
    BY <1>1, <2>1, <2>2
  <2> QED  BY <1>0, <1>3, <2>3
           DEF Begins, IInv, TypeOK, TruthfulAll, Tasks, env, receiver, ctx
<1>4. CASE Reloads(r)
  <2>1. PICK shown \in Lists :
            /\ Load(shown)
            /\ reloader' = [reloader EXCEPT ![r] =
                   IF <<reloader[r].old, Loaded(shown)>> \in Equal THEN Resting("idle")
                   ELSE [reloader[r] EXCEPT !.at = "send", !.new = Loaded(shown)]]
    BY <1>4, Zenon DEF Reloads
  <2>2. /\ lastConfig' = Loaded(shown) /\ UNCHANGED faults
        /\ Loaded(shown) \in Configs /\ Truthful(Loaded(shown))
    BY <1>0, <2>1, LoadStores
  <2> DEFINE found == [reloader[r] EXCEPT !.at = "send", !.new = Loaded(shown)]
  <2>3. found \in Tasks /\ Truthful(found.old) /\ Truthful(found.new)
    BY <1>0, <2>2 DEF Tasks
  <2>4. \/ reloader' = [reloader EXCEPT ![r] = Resting("idle")]
        \/ reloader' = [reloader EXCEPT ![r] = found]
    BY <2>1
  <2> HIDE DEF found
  <2>5. Kept
    BY <1>1, <1>2, <2>3, <2>4
  <2> QED  BY <1>0, <1>4, <2>2, <2>5
           DEF Reloads, IInv, TypeOK, TruthfulAll, Tasks, env, receiver, ctx
<1>5. CASE ReloadFails(r) \/ ReloadRefused(r)
  <2>1. faults' \in 0 .. MaxFaults /\ UNCHANGED lastConfig
    BY <1>0, <1>5, Bounds DEF ReloadFails, ReloadRefused, LoadFails, LoadRefuses, Fault, TypeOK
  <2>2. Kept
    BY <1>1, <1>2, <1>5 DEF ReloadFails, ReloadRefused
  <2> QED  BY <1>0, <1>5, <2>1, <2>2
           DEF ReloadFails, ReloadRefused, IInv, TypeOK, TruthfulAll, Tasks, env, receiver, ctx
<1>6. CASE ReloadSends(r)
  <2> DEFINE task == [reloader[r] EXCEPT !.at = "record"]
  <2>1. task \in Tasks /\ Truthful(task.old) /\ Truthful(task.new)
    BY <1>0 DEF Tasks
  <2>2. reloader' = [reloader EXCEPT ![r] = task]
    BY <1>0, <1>6 DEF ReloadSends
  <2>3. Kept
    BY <1>1, <2>1, <2>2
  <2>4. reloader[r].new \in Configs /\ Deliver(reloader[r].new)
    BY <1>0, <1>6 DEF ReloadSends, Tasks
  <2> QED  BY <1>0, <1>6, <2>3, <2>4, DeliveredTyped
           DEF ReloadSends, IInv, TypeOK, TruthfulAll, Tasks, env, ctx
<1>7. CASE ReloadDrops(r)
  <2>1. Kept
    BY <1>1, <1>2, <1>7 DEF ReloadDrops
  <2> QED  BY <1>0, <1>7, <2>1 DEF ReloadDrops, IInv, TypeOK, TruthfulAll, Tasks, env, receiver, ctx
<1>8. CASE ReloadPanics(r)
  BY <1>0, <1>8 DEF ReloadPanics, IInv, TypeOK, TruthfulAll, env, provider, receiver
<1>9. CASE ReloadRecords(r)
  <2>1. Kept
    BY <1>1, <1>2, <1>9 DEF ReloadRecords
  <2> QED  BY <1>0, <1>9, <2>1
           DEF ReloadRecords, IInv, TypeOK, TruthfulAll, Tasks, env, receiver, ctx
<1>10. CASE TimerFires(r) \/ (r = Poller /\ PollTicks)
  <2>1. armed' \in BOOLEAN
    BY <1>0, <1>10 DEF TimerFires, PollTicks, TypeOK
  <2> QED  BY <1>3, <1>10, <2>1 DEF TimerFires, PollTicks
<1> QED  BY <1>4, <1>5, <1>6, <1>7, <1>8, <1>9, <1>10 DEF Reloader

LEMMA NextIInv == IInv /\ [Next]_vars => IInv'
<1> SUFFICES ASSUME IInv, [Next]_vars PROVE IInv'
  OBVIOUS
<1>1. CASE Next
  <2>0. lapsed' \in BOOLEAN
    BY <1>1, RememberTyped DEF Next
  <2>1. Poller \in Reloaders /\ Timers \subseteq Reloaders
    BY DEF Reloaders
  <2>2. CASE Daemon \/ Settles
    BY <2>0, <2>2, DaemonIInv
  <2>3. CASE Loop \/ StreamBreaks \/ LoopLoadFails \/ Cancel \/ AppApplies \/ AppLeaves
    BY <2>0, <2>3, LoopIInv
  <2>4. CASE (\E r \in Reloaders : Reloader(r) \/ ReloadFails(r)) \/ PollTicks \/ Fires
    BY <2>0, <2>1, <2>4, ReloaderIInv DEF Fires
  <2> QED  BY <1>1, <2>2, <2>3, <2>4 DEF Next, Trouble
<1>2. CASE UNCHANGED vars
  BY <1>2 DEF IInv, TypeOK, TruthfulAll, vars, env, provider, receiver, ctx
<1> QED  BY <1>1, <1>2

LEMMA Invariant == Safety => []IInv
BY InitIInv, NextIInv, PTL DEF Safety

\* The variables keep their types, for any containers, setups and bounds.
THEOREM ProviderTyped == Safety => []TypeOK
<1>1. IInv => TypeOK
  BY DEF IInv
<1> QED  BY <1>1, Invariant, PTL

\* Whatever containers come and go, in whatever order the loop and the reloaders load and
\* send, and whatever fails, every configuration the app is handed holds services as their
\* labels promise (labels.go, Normalize, Validate).
THEOREM EveryLabelHonoured == Safety => []LabelsHonoured
<1>1. IInv => LabelsHonoured
  BY DEF IInv, TruthfulAll, LabelsHonoured
<1> QED  BY <1>1, Invariant, PTL

-----------------------------------------------------------------------------
(* What configEqual finds equal looks the same to nodes and proxies. *)

\* The tags of a service are a list.
LEMMA TagList ==
    ASSUME NEW cs \in Started
    PROVE  LET tags == Service[cs].set["tags"]
           IN tags # None => tags \in Seq(Members(tags)) /\ IsFiniteSet(DOMAIN tags)
<1>1. PICK c \in Containers, s \in Setups : cs = <<c, s>>
  BY DEF Started
<1> DEFINE listed == Summary(c, s)
           own == parseServiceConfig(listed).set["tags"]
           List(tags) == tags # None => tags \in Seq(Members(tags))
<1>2. Service[cs] = Processed(Self, listed)
  BY <1>1 DEF Service
<1>3. "tags" \in Settings
  BY DEF Settings
<1>4. Processed(Self, listed).set["tags"] = Or(own, Get(Self.labels, "default_tags"))
  BY <1>3, Pipeline
<1>5. own = Get(Labels[s], "tags")
  BY <1>3, Zenon DEF parseServiceConfig, Summary
<1>6. List(Get(Labels[s], "tags"))
  BY DockerAssumption DEF Get, Has, Headers, Texts
<1>7. List(Get(Self.labels, "default_tags"))
  BY DockerAssumption DEF Get, Has, Headers, Texts
<1> HIDE DEF own, listed
<1>8. List(Service[cs].set["tags"])
  BY <1>2, <1>4, <1>5, <1>6, <1>7 DEF Or
<1> QED
  <2> DEFINE tags == Service[cs].set["tags"]
  <2> HIDE DEF tags
  <2>1. tags # None => tags \in Seq(Members(tags))
    BY <1>8 DEF tags
  <2>2. ASSUME NEW S, NEW u \in Seq(S) PROVE IsFiniteSet(DOMAIN u)
    <3>1. DOMAIN u = 1 .. Len(u) /\ Len(u) \in Nat
      OBVIOUS
    <3> QED  BY <3>1, FS_Interval
  <2> QED  BY <2>1, <2>2 DEF tags

LEMMA EqualSeen ==
    ASSUME NEW cs \in Started, NEW ds \in Started, ServiceConfigEqual(Service[cs], Service[ds])
    PROVE  Seen[cs] = Seen[ds]
<1> DEFINE Listed(tags) == IF tags = None THEN <<>> ELSE tags
           Bag(tags) == {<<tags[i], Occurrences(tags, tags[i])>> : i \in DOMAIN tags}
           s == Service[cs].set["tags"]
           t == Service[ds].set["tags"]
<1>1. ASSUME NEW es \in Started
      PROVE  Seen[es] = <<Service[es].name, Service[es].backend_addr,
                          [key \in Settings \ {"tags"} |-> Service[es].set[key]],
                          Bag(Listed(Service[es].set["tags"]))>>
  BY DEF Seen
<1>2. /\ Service[cs].name = Service[ds].name
      /\ Service[cs].backend_addr = Service[ds].backend_addr
      /\ \A key \in Settings \ {"tags"} : Service[cs].set[key] = Service[ds].set[key]
      /\ SameTags(s, t)
  BY DEF ServiceConfigEqual
<1>3. Bag(Listed(s)) = Bag(Listed(t))
  <2>1. CASE s \in {None, <<>>} /\ t \in {None, <<>>}
    BY <2>1
  <2>2. CASE /\ s # None /\ t # None
             /\ \A x \in Members(s) \cup Members(t) : Occurrences(s, x) = Occurrences(t, x)
    <3>1. IsFiniteSet(DOMAIN s) /\ IsFiniteSet(DOMAIN t)
      BY <2>2, TagList
    <3> HIDE DEF s, t
    <3>2. Bag(s) = Bag(t)
      BY <2>2, <3>1, SameTagsSameBag
    <3> QED  BY <2>2, <3>2
  <2> QED  BY <1>2, <2>1, <2>2 DEF SameTags
<1>4. [key \in Settings \ {"tags"} |-> Service[cs].set[key]] =
      [key \in Settings \ {"tags"} |-> Service[ds].set[key]]
  BY <1>2
<1> HIDE DEF Bag, Listed
<1> QED  BY <1>1, <1>2, <1>3, <1>4

LEMMA ServicesFinite ==
    ASSUME NEW cfg \in Configs
    PROVE  IsFiniteSet(ServicesOf(cfg))
<1> DEFINE there == {c \in Containers : cfg[c] # None}
           make == [c \in there |-> Service[<<c, cfg[c]>>]]
<1>1. IsFiniteSet(there)
  BY DockerAssumption, FS_Subset
<1>2. make \in Surjection(there, ServicesOf(cfg))
  BY DEF ServicesOf, Surjection
<1> HIDE DEF make, there
<1> QED  BY <1>1, <1>2, FS_Surjection

LEMMA EqualAgree ==
    ASSUME NEW a \in Configs, NEW b \in Configs, Truthful(a), <<a, b>> \in Equal
    PROVE  SeenIn(a) = SeenIn(b)
<1> DEFINE In(cfg) == {c \in Containers : cfg[c] # None}
<1>1. configEqual(ServicesOf(a), ServicesOf(b))
  BY DEF Equal
<1>2. \A c \in In(a) : <<c, a[c]>> \in Started
  BY DEF Started, Configs
<1>3. \A d \in In(b) : <<d, b[d]>> \in Started
  BY DEF Started, Configs
<1>4. ServicesOf(a) = {Service[<<c, a[c]>>] : c \in In(a)}
  BY DEF ServicesOf
<1>5. ServicesOf(b) = {Service[<<d, b[d]>>] : d \in In(b)}
  BY DEF ServicesOf
<1>6. \A x, y \in ServicesOf(a) : x.name = y.name => x = y
  BY <1>4 DEF Truthful
<1>7. ASSUME NEW c \in In(a)
      PROVE  \E d \in In(b) : Seen[<<c, a[c]>>] = Seen[<<d, b[d]>>]
  <2>1. PICK d \in In(b) : ServiceConfigEqual(Service[<<c, a[c]>>], Service[<<d, b[d]>>])
    BY <1>1, <1>4, <1>5 DEF configEqual
  <2> QED  BY <1>2, <1>3, <2>1, EqualSeen
<1>8. ASSUME NEW d \in In(b)
      PROVE  \E c \in In(a) : Seen[<<c, a[c]>>] = Seen[<<d, b[d]>>]
  <2>1. \A y \in ServicesOf(b) : \E x \in ServicesOf(a) : ServiceConfigEqual(x, y)
    BY <1>1, <1>6, ServicesFinite, EqualBothWays
  <2>2. PICK c \in In(a) : ServiceConfigEqual(Service[<<c, a[c]>>], Service[<<d, b[d]>>])
    BY <2>1, <1>4, <1>5
  <2> QED  BY <1>2, <1>3, <2>2, EqualSeen
<1>9. SeenIn(a) = {Seen[<<c, a[c]>>] : c \in In(a)} /\ SeenIn(b) = {Seen[<<d, b[d]>>] : d \in In(b)}
  BY DEF SeenIn
<1> HIDE DEF In
<1>10. SeenIn(a) \subseteq SeenIn(b)
  <2>1. ASSUME NEW x \in SeenIn(a) PROVE x \in SeenIn(b)
    <3>1. PICK c \in In(a) : x = Seen[<<c, a[c]>>]
      BY <1>9
    <3> QED  BY <3>1, <1>7, <1>9
  <2> QED  BY <2>1
<1>11. SeenIn(b) \subseteq SeenIn(a)
  <2>1. ASSUME NEW x \in SeenIn(b) PROVE x \in SeenIn(a)
    <3>1. PICK d \in In(b) : x = Seen[<<d, b[d]>>]
      BY <1>9
    <3> QED  BY <3>1, <1>8, <1>9
  <2> QED  BY <2>1
<1> QED  BY <1>10, <1>11

\* Services that look the same compare equal.
LEMMA SeenEqual ==
    ASSUME NEW cs \in Started, NEW ds \in Started, Seen[cs] = Seen[ds]
    PROVE  ServiceConfigEqual(Service[cs], Service[ds])
<1> DEFINE Listed(tags) == IF tags = None THEN <<>> ELSE tags
           Bag(tags) == {<<tags[i], Occurrences(tags, tags[i])>> : i \in DOMAIN tags}
           Rest(es) == [key \in Settings \ {"tags"} |-> Service[es].set[key]]
           s == Service[cs].set["tags"]
           t == Service[ds].set["tags"]
<1>1. ASSUME NEW es \in Started
      PROVE  Seen[es] = <<Service[es].name, Service[es].backend_addr, Rest(es),
                          Bag(Listed(Service[es].set["tags"]))>>
  BY DEF Seen
<1> HIDE DEF Bag, Listed, Rest
<1>2. /\ Service[cs].name = Service[ds].name
      /\ Service[cs].backend_addr = Service[ds].backend_addr
      /\ Rest(cs) = Rest(ds)
      /\ Bag(Listed(s)) = Bag(Listed(t))
  BY <1>1
<1>3. ASSUME NEW key \in Settings \ {"tags"}
      PROVE  Service[cs].set[key] = Service[ds].set[key]
  <2>1. Rest(cs)[key] = Service[cs].set[key] /\ Rest(ds)[key] = Service[ds].set[key]
    BY DEF Rest
  <2> QED  BY <1>2, <2>1
<1> HIDE DEF s, t
<1>4. SameTags(s, t)
  <2>1. ASSUME NEW u, u # None => u \in Seq(Members(u)), Bag(Listed(u)) = {}
        PROVE  u \in {None, <<>>}
    <3>1. CASE u # None
      <4>1. DOMAIN u = {}
        BY <2>1, <3>1 DEF Bag, Listed
      <4>2. DOMAIN u = 1 .. Len(u) /\ Len(u) \in Nat
        BY <2>1, <3>1
      <4>3. Len(u) = 0
        BY <4>1, <4>2
      <4> QED  BY <2>1, <3>1, <4>3
    <3> QED  BY <3>1
  <2>2. Bag(Listed(None)) = {}
    BY DEF Bag, Listed
  <2>3. (s # None => s \in Seq(Members(s))) /\ (t # None => t \in Seq(Members(t)))
    BY TagList DEF s, t
  <2>4. CASE s = None \/ t = None
    <3>1. Bag(Listed(s)) = {} /\ Bag(Listed(t)) = {}
      BY <1>2, <2>2, <2>4
    <3> QED  BY <2>1, <2>3, <3>1 DEF SameTags
  <2>5. CASE s # None /\ t # None
    <3>1. Bag(s) = Bag(t)
      BY <1>2, <2>5 DEF Listed
    <3> QED  BY <2>5, <3>1, SameBagSameTags DEF SameTags, Bag
  <2> QED  BY <2>4, <2>5
<1> QED  BY <1>2, <1>3, <1>4 DEF ServiceConfigEqual, s, t

LEMMA AgreeEqual ==
    ASSUME NEW a \in Configs, NEW b \in Configs, Truthful(a), Truthful(b), SeenIn(a) = SeenIn(b)
    PROVE  <<a, b>> \in Equal
<1> DEFINE In(cfg) == {c \in Containers : cfg[c] # None}
<1>1. ASSUME NEW cfg \in Configs
      PROVE  /\ \A c \in In(cfg) : <<c, cfg[c]>> \in Started
             /\ ServicesOf(cfg) = {Service[<<c, cfg[c]>>] : c \in In(cfg)}
             /\ SeenIn(cfg) = {Seen[<<c, cfg[c]>>] : c \in In(cfg)}
  BY DEF Started, Configs, ServicesOf, SeenIn
<1>2. ASSUME NEW cfg \in Configs, Truthful(cfg)
      PROVE  \A x, y \in ServicesOf(cfg) : x.name = y.name => x = y
  <2>1. ServicesOf(cfg) = {Service[<<c, cfg[c]>>] : c \in In(cfg)}
    BY <1>1
  <2>2. \A c, d \in In(cfg) : Service[<<c, cfg[c]>>].name = Service[<<d, cfg[d]>>].name => c = d
    BY <1>2, Zenon DEF Truthful
  <2> HIDE DEF In
  <2> QED  BY <2>1, <2>2
<1> HIDE DEF In
<1>3. ASSUME NEW x \in ServicesOf(a)
      PROVE  \E y \in ServicesOf(b) : ServiceConfigEqual(x, y)
  <2>1. PICK c \in In(a) : x = Service[<<c, a[c]>>]
    BY <1>1
  <2>2. Seen[<<c, a[c]>>] \in SeenIn(b)
    BY <1>1
  <2>3. PICK d \in In(b) : Seen[<<c, a[c]>>] = Seen[<<d, b[d]>>]
    BY <1>1, <2>2
  <2>4. ServiceConfigEqual(x, Service[<<d, b[d]>>])
    BY <1>1, <2>1, <2>3, SeenEqual
  <2> QED  BY <1>1, <2>4
<1>4. ASSUME NEW y \in ServicesOf(b)
      PROVE  \E x \in ServicesOf(a) : ServiceConfigEqual(x, y)
  <2>1. PICK d \in In(b) : y = Service[<<d, b[d]>>]
    BY <1>1
  <2>2. Seen[<<d, b[d]>>] \in SeenIn(a)
    BY <1>1
  <2>3. PICK c \in In(a) : Seen[<<c, a[c]>>] = Seen[<<d, b[d]>>]
    BY <1>1, <2>2
  <2>4. ServiceConfigEqual(Service[<<c, a[c]>>], y)
    BY <1>1, <2>1, <2>3, SeenEqual
  <2> QED  BY <1>1, <2>4
<1>5. configEqual(ServicesOf(a), ServicesOf(b))
  BY <1>2, <1>3, <1>4, ServicesFinite, PairedOff
<1> QED  BY <1>5 DEF Equal, Pairs

LEMMA SameMeans ==
    ASSUME NEW a \in Configs, NEW b \in Configs
    PROVE  <<a, b>> \in Same <=> SeenIn(a) = SeenIn(b)
BY DEF Same, Pairs

\* configEqual calls equal exactly the configurations that no node and no proxy could tell
\* apart, for any containers and any labels Validate accepts (docker.go, configEqual;
\* compare.go, ServiceConfigEqual): no change is overlooked, and none is made up.
THEOREM ConfigEqualIsExact == ComparisonIsExact
BY EqualAgree, AgreeEqual, SameMeans DEF ComparisonIsExact

-----------------------------------------------------------------------------
(* p.lastConfig is in step with the app.  Load has overwritten it before the comparison  *)
(* with what it was, so that the invariant says, for each step of whoever reloads, which  *)
(* two of the three configurations look alike.  It says so only while nothing has lapsed: *)
(* a lapse is what makes the next step find something else.                              *)

\* What a reload under way has to do with what the app was handed last.
Agrees(task) ==
    /\ task.at \in {"load", "send"} => SeenIn(task.old) = SeenIn(incoming)
    /\ task.at = "record" => incoming = task.new

Settled ==
    loop.at \notin News /\ (\A r \in Reloaders : reloader[r].at \notin News)
        => SeenIn(lastConfig) = SeenIn(incoming)

StepInv ==
    ~lapsed => /\ ~Overlap
               /\ Settled
               /\ Agrees(loop)
               /\ \A r \in Reloaders : Agrees(reloader[r])

LEMMA StepInit == Init => StepInv
BY DEF Init, StepInv, Overlap, Settled, Agrees, News, LoopAt, Resting

\* Nothing lapsed in this step: either nothing had, or the step is a delivery.
LEMMA NotLapsing ==
    ASSUME Remember, ~lapsed'
    PROVE  ~Overlap' /\ ~GivenUp /\ ~TakenOut /\ (~lapsed \/ Delivered)
<1>1. ~(Overlap' \/ GivenUp \/ TakenOut \/ (lapsed /\ ~Delivered))
  BY Zenon DEF Remember
<1> QED  BY <1>1

LEMMA StepElsewhere ==
    ASSUME StepInv, Remember, UNCHANGED <<loop, reloader, lastConfig, incoming>>
    PROVE  StepInv'
<1> SUFFICES ASSUME ~lapsed'
             PROVE  /\ ~Overlap' /\ Settled' /\ Agrees(loop)'
                    /\ \A r \in Reloaders : Agrees(reloader[r])'
  BY DEF StepInv
<1>1. ~Delivered
  BY DEF Delivered
<1>2. ~Overlap' /\ ~lapsed
  BY <1>1, NotLapsing
<1> QED  BY <1>2 DEF StepInv, Settled, Agrees

\* The steps of the event loop.
LEMMA StepLoop ==
    ASSUME IInv, StepInv, Remember, Loop \/ StreamBreaks \/ LoopLoadFails
    PROVE  StepInv'
<1> SUFFICES ASSUME ~lapsed'
             PROVE  /\ ~Overlap' /\ Settled' /\ Agrees(loop)'
                    /\ \A r \in Reloaders : Agrees(reloader[r])'
  BY DEF StepInv
<1>0. /\ ~Overlap' /\ ~GivenUp /\ ~TakenOut /\ (~lapsed \/ Delivered)
      /\ loop \in [at : {"connect", "reading", "load", "send", "record", "gone"},
                   old : Configs, new : Configs, who : Containers \cup {None}]
      /\ Truthful(loop.old) /\ TypeOK
  BY NotLapsing DEF IInv, TypeOK, TruthfulAll
<1>1. UNCHANGED reloader
  <2>1. LoopLoads => UNCHANGED reloader
    BY Zenon DEF LoopLoads
  <2>2. StreamOpens \/ StreamBreaks \/ ReadsGone \/ LoopLoadFails \/ LoopLoadRefused \/ LoopSends
        \/ LoopRecords \/ ReadsOther \/ LoopEnds => UNCHANGED reloader
    BY DEF StreamOpens, StreamBreaks, ReadsGone, LoopLoadFails, LoopLoadRefused, LoopSends,
           LoopRecords, ReadsOther, LoopEnds
  <2> QED  BY <2>1, <2>2 DEF Loop
<1>2. Delivered => loop.at = "send" /\ loop'.at = "record"
  BY <1>1 DEF Delivered
<1>3. ~lapsed => /\ Settled /\ Agrees(loop) /\ \A r \in Reloaders : Agrees(reloader[r])
                 /\ ~Overlap
  BY DEF StepInv
<1>4. SeenIn(lastConfig)' = SeenIn(lastConfig') /\ SeenIn(incoming)' = SeenIn(incoming')
  BY DEF SeenIn
<1>5. ASSUME ~lapsed, UNCHANGED incoming
      PROVE  \A r \in Reloaders : Agrees(reloader[r])'
  BY <1>1, <1>3, <1>5 DEF Agrees
<1>6. CASE /\ loop.at \in {"connect", "reading"} /\ loop'.at \in {"connect", "reading", "gone"}
           /\ UNCHANGED <<lastConfig, incoming>>
  <2>1. ~lapsed
    BY <1>0, <1>2, <1>6
  <2>2. Settled'
    BY <1>1, <1>3, <1>6, <2>1 DEF Settled, News, SeenIn
  <2>3. Agrees(loop)'
    BY <1>6 DEF Agrees
  <2> QED  BY <1>0, <1>5, <1>6, <2>1, <2>2, <2>3
<1>7. CASE ReadsGone
  <2>1. /\ loop.at = "reading" /\ loop'.at = "load" /\ loop'.old = lastConfig
        /\ UNCHANGED <<lastConfig, incoming>>
    BY <1>7 DEF ReadsGone, receiver
  <2>2. ~lapsed
    BY <1>0, <1>2, <2>1
  <2>3. \A r \in Reloaders : reloader[r].at \notin News
    BY <1>0, <1>1, <2>1 DEF Overlap, News
  <2>4. SeenIn(lastConfig) = SeenIn(incoming)
    BY <1>3, <2>1, <2>2, <2>3 DEF Settled, News
  <2>5. Settled'
    BY <1>4, <2>1, <2>4 DEF Settled
  <2>6. Agrees(loop)'
    BY <1>4, <2>1, <2>4 DEF Agrees, SeenIn
  <2> QED  BY <1>0, <1>5, <2>1, <2>2, <2>5, <2>6
<1>8. CASE LoopLoads
  <2>1. PICK shown \in Lists :
            /\ Load(shown)
            /\ LET new == removeServiceByContainerName(Loaded(shown), loop.who)
               IN loop' = IF <<loop.old, new>> \in Equal THEN LoopAt("reading")
                          ELSE [loop EXCEPT !.at = "send", !.new = new]
    BY <1>8, Zenon DEF LoopLoads
  <2> DEFINE new == removeServiceByContainerName(Loaded(shown), loop.who)
  <2>2. lastConfig' = Loaded(shown) /\ Loaded(shown) \in Configs
    BY <1>0, <2>1, LoadStores
  <2>3. new \in Configs
    BY <2>2, RemovedTyped
  <2>4. new = removeServiceByContainerName(lastConfig', loop.who)
    BY <2>2
  <2>5. loop' = IF <<loop.old, new>> \in Equal THEN LoopAt("reading")
                ELSE [loop EXCEPT !.at = "send", !.new = new]
    BY <2>1
  <2>6. loop.at = "load" /\ UNCHANGED incoming
    <3>1. loop.at = "load"
      BY <1>8, Zenon DEF LoopLoads
    <3>2. UNCHANGED receiver
      BY <1>8, Zenon DEF LoopLoads
    <3> QED  BY <3>1, <3>2 DEF receiver
  <2> HIDE DEF new
  <2>7. ~lapsed
    BY <1>0, <1>2, <2>6
  <2>8. SeenIn(loop.old) = SeenIn(incoming)
    BY <1>3, <2>6, <2>7 DEF Agrees
  <2>9. CASE <<loop.old, new>> \in Equal
    <3>1. loop'.at = "reading"
      BY <2>5, <2>9 DEF LoopAt
    <3>2. SeenIn(new) = SeenIn(incoming)
      BY <1>0, <2>3, <2>8, <2>9, EqualAgree
    <3>3. Settled'
      <4>1. CASE lastConfig' = lastConfig
        BY <1>1, <1>3, <1>4, <2>6, <2>7, <3>1, <4>1 DEF Settled, News
      <4>2. CASE lastConfig' # lastConfig
        <5>1. new = lastConfig'
          BY <1>0, <2>4, <2>6, <3>1, <4>2 DEF TakenOut
        <5> QED  BY <1>4, <2>6, <3>2, <5>1 DEF Settled
      <4> QED  BY <4>1, <4>2
    <3>4. Agrees(loop)'
      BY <3>1 DEF Agrees
    <3> QED  BY <1>0, <1>5, <2>6, <2>7, <3>3, <3>4
  <2>10. CASE <<loop.old, new>> \notin Equal
    <3>1. loop'.at = "send" /\ loop'.old = loop.old
      BY <1>0, <2>5, <2>10
    <3>2. Settled'
      BY <3>1 DEF Settled, News
    <3>3. Agrees(loop)'
      BY <1>4, <2>6, <2>8, <3>1 DEF Agrees, SeenIn
    <3> QED  BY <1>0, <1>5, <2>6, <2>7, <3>2, <3>3
  <2> QED  BY <2>9, <2>10
<1>9. CASE LoopLoadFails \/ LoopLoadRefused
  <2>1. /\ loop.at = "load" /\ loop'.at = "reading" /\ UNCHANGED <<lastConfig, incoming>>
    BY <1>9 DEF LoopLoadFails, LoopLoadRefused, LoadFails, LoadRefuses, LoopAt, receiver
  <2>2. ~lapsed
    BY <1>0, <1>2, <2>1
  <2>3. Settled'
    BY <1>1, <1>3, <1>4, <2>1, <2>2 DEF Settled, News
  <2>4. Agrees(loop)'
    BY <2>1 DEF Agrees
  <2> QED  BY <1>0, <1>5, <2>1, <2>2, <2>3, <2>4
<1>10. CASE LoopSends
  <2>1. /\ incoming' = loop.new /\ loop'.at = "record" /\ loop'.new = loop.new
    BY <1>0, <1>10 DEF LoopSends, Deliver
  <2>2. \A r \in Reloaders : reloader'[r].at = "idle"
    BY <1>0, <2>1 DEF Overlap, News
  <2>3. Settled'
    BY <2>1 DEF Settled, News
  <2>4. Agrees(loop)'
    BY <2>1 DEF Agrees
  <2>5. \A r \in Reloaders : Agrees(reloader[r])'
    BY <2>2 DEF Agrees
  <2> QED  BY <1>0, <2>3, <2>4, <2>5
<1>11. CASE LoopRecords
  <2>1. /\ loop.at = "record" /\ loop'.at = "reading" /\ lastConfig' = loop.new
        /\ UNCHANGED incoming
    BY <1>11 DEF LoopRecords, LoopAt, receiver
  <2>2. ~lapsed
    BY <1>0, <1>2, <2>1
  <2>3. Settled'
    BY <1>3, <1>4, <2>1, <2>2 DEF Settled, Agrees
  <2>4. Agrees(loop)'
    BY <2>1 DEF Agrees
  <2> QED  BY <1>0, <1>5, <2>1, <2>2, <2>3, <2>4
<1>12. CASE StreamOpens \/ StreamBreaks
  BY <1>6, <1>12 DEF StreamOpens, StreamBreaks, LoopAt, receiver
<1>13. CASE ReadsOther
  BY <1>6, <1>13 DEF ReadsOther, receiver
<1>14. CASE LoopEnds
  <2>1. loop'.at = "gone" /\ UNCHANGED <<lastConfig, incoming>>
        /\ loop.at \in {"connect", "reading", "send"}
    BY <1>14 DEF LoopEnds, LoopAt, receiver
  <2>2. loop.at # "send"
    BY <1>0, <2>1 DEF GivenUp
  <2> QED  BY <1>6, <2>1, <2>2
<1> QED  BY <1>7, <1>8, <1>9, <1>10, <1>11, <1>12, <1>13, <1>14 DEF Loop

\* The steps of one reloader.
LEMMA StepReloader ==
    ASSUME IInv, StepInv, Remember, NEW r \in Reloaders,
           Reloader(r) \/ ReloadFails(r) \/ Begins(r)
    PROVE  StepInv'
<1> DEFINE task == reloader[r]
<1> SUFFICES ASSUME ~lapsed'
             PROVE  /\ ~Overlap' /\ Settled' /\ Agrees(loop)'
                    /\ \A q \in Reloaders : Agrees(reloader[q])'
  BY DEF StepInv
<1>0. /\ ~Overlap' /\ ~GivenUp /\ (~lapsed \/ Delivered)
      /\ reloader \in [Reloaders -> Tasks] /\ task \in Tasks /\ Truthful(task.old)
      /\ TypeOK
  BY NotLapsing DEF IInv, TypeOK, TruthfulAll, Tasks
<1>1. UNCHANGED loop /\ \E new : reloader' = [reloader EXCEPT ![r] = new]
  <2>1. Reloads(r) => UNCHANGED loop /\ \E new : reloader' = [reloader EXCEPT ![r] = new]
    BY Zenon DEF Reloads
  <2>2. ReloadFails(r) \/ ReloadRefused(r) \/ ReloadDrops(r) \/ ReloadRecords(r) \/ Begins(r)
        => UNCHANGED loop /\ \E new : reloader' = [reloader EXCEPT ![r] = new]
    BY Zenon DEF ReloadFails, ReloadRefused, ReloadDrops, ReloadRecords, Begins
  <2>3. ReloadSends(r) => UNCHANGED loop
                          /\ reloader' = [reloader EXCEPT ![r] = [task EXCEPT !.at = "record"]]
    BY <1>0 DEF ReloadSends
  <2>4. ReloadPanics(r) => UNCHANGED loop /\ reloader' = [reloader EXCEPT ![r] = task]
    BY <1>0 DEF ReloadPanics, provider
  <2> QED  BY <2>1, <2>2, <2>3, <2>4 DEF Reloader
<1>2. \A q \in Reloaders \ {r} : reloader'[q] = reloader[q]
  BY <1>0, <1>1
<1>3. ASSUME NEW new, reloader' = [reloader EXCEPT ![r] = new]
      PROVE  reloader'[r] = new
  BY <1>0, <1>3
<1>4. Delivered => task.at = "send" /\ reloader'[r].at = "record"
  <2>1. Delivered => \E q \in Reloaders : reloader[q].at = "send" /\ reloader'[q].at = "record"
    BY <1>1 DEF Delivered
  <2> QED  BY <1>2, <2>1
<1>5. ~lapsed => /\ Settled /\ Agrees(loop) /\ \A q \in Reloaders : Agrees(reloader[q])
                 /\ ~Overlap
  BY DEF StepInv
<1>6. SeenIn(lastConfig)' = SeenIn(lastConfig') /\ SeenIn(incoming)' = SeenIn(incoming')
  BY DEF SeenIn
<1>7. ASSUME ~lapsed, UNCHANGED incoming
      PROVE  Agrees(loop)' /\ \A q \in Reloaders \ {r} : Agrees(reloader[q])'
  BY <1>1, <1>2, <1>5, <1>7 DEF Agrees
\* Somebody else has something for the app, or r was all that moved.
<1>8. ASSUME ~lapsed, UNCHANGED <<lastConfig, incoming>>, task.at \notin News
      PROVE  Settled'
  BY <1>1, <1>2, <1>5, <1>6, <1>8 DEF Settled, News
<1>9. CASE Begins(r)
  <2>1. /\ task.at = "idle" /\ reloader'[r].at = "load" /\ reloader'[r].old = lastConfig
        /\ UNCHANGED <<lastConfig, incoming>>
    BY <1>3, <1>9 DEF Begins, receiver
  <2>2. ~lapsed
    BY <1>0, <1>4, <2>1
  <2>3. loop.at \notin News /\ \A q \in Reloaders : reloader[q].at \notin News
    <3>1. loop'.at \notin News
      BY <1>0, <2>1 DEF Overlap
    <3>2. \A q \in Reloaders \ {r} : reloader'[q].at \notin News
      BY <1>0, <2>1 DEF Overlap
    <3> QED  BY <1>1, <1>2, <2>1, <3>1, <3>2 DEF News
  <2>4. SeenIn(lastConfig) = SeenIn(incoming)
    BY <1>5, <2>2, <2>3 DEF Settled
  <2>5. Settled'
    BY <1>6, <2>1, <2>4 DEF Settled
  <2>6. Agrees(reloader[r])'
    BY <1>6, <2>1, <2>4 DEF Agrees, SeenIn
  <2> QED  BY <1>0, <1>7, <2>1, <2>2, <2>5, <2>6
<1>10. CASE Reloads(r)
  <2>1. PICK shown \in Lists :
            /\ Load(shown)
            /\ reloader' = [reloader EXCEPT ![r] =
                   IF <<reloader[r].old, Loaded(shown)>> \in Equal THEN Resting("idle")
                   ELSE [reloader[r] EXCEPT !.at = "send", !.new = Loaded(shown)]]
    BY <1>10, Zenon DEF Reloads
  <2>2. lastConfig' = Loaded(shown) /\ Loaded(shown) \in Configs
    BY <1>0, <2>1, LoadStores
  <2>3. task.at = "load" /\ UNCHANGED incoming
    <3>1. task.at = "load" /\ UNCHANGED receiver
      BY <1>10, Zenon DEF Reloads
    <3> QED  BY <3>1 DEF receiver
  <2>4. ~lapsed
    BY <1>0, <1>4, <2>3
  <2>5. SeenIn(task.old) = SeenIn(incoming)
    BY <1>5, <2>3, <2>4 DEF Agrees
  <2>6. CASE <<task.old, Loaded(shown)>> \in Equal
    <3>1. reloader'[r] = Resting("idle")
      BY <1>3, <2>1, <2>6
    <3>2. SeenIn(lastConfig') = SeenIn(incoming)
      BY <1>0, <2>2, <2>5, <2>6, EqualAgree DEF Tasks
    <3>3. Settled'
      BY <1>6, <2>3, <3>2 DEF Settled
    <3>4. Agrees(reloader[r])'
      BY <3>1 DEF Agrees, Resting
    <3> QED  BY <1>0, <1>7, <2>3, <2>4, <3>3, <3>4
  <2>7. CASE <<task.old, Loaded(shown)>> \notin Equal
    <3>1. reloader'[r] = [task EXCEPT !.at = "send", !.new = Loaded(shown)]
      BY <1>3, <2>1, <2>7
    <3>2. reloader'[r].at = "send" /\ reloader'[r].old = task.old
      BY <1>0, <3>1 DEF Tasks
    <3>3. Settled'
      BY <3>2 DEF Settled, News
    <3>4. Agrees(reloader[r])'
      BY <1>6, <2>3, <2>5, <3>2 DEF Agrees, SeenIn
    <3> QED  BY <1>0, <1>7, <2>3, <2>4, <3>3, <3>4
  <2> QED  BY <2>6, <2>7
<1>11. CASE ReloadFails(r) \/ ReloadRefused(r)
  <2>1. /\ task.at = "load" /\ reloader'[r] = Resting("idle")
        /\ UNCHANGED <<lastConfig, incoming>>
    BY <1>3, <1>11 DEF ReloadFails, ReloadRefused, LoadFails, LoadRefuses, receiver
  <2>2. ~lapsed
    BY <1>0, <1>4, <2>1
  <2>3. Settled'
    BY <1>8, <2>1, <2>2 DEF News
  <2>4. Agrees(reloader[r])'
    BY <2>1 DEF Agrees, Resting
  <2> QED  BY <1>0, <1>7, <2>1, <2>2, <2>3, <2>4
<1>12. CASE ReloadSends(r)
  <2>1. reloader' = [reloader EXCEPT ![r] = [task EXCEPT !.at = "record"]]
    BY <1>0, <1>12 DEF ReloadSends
  <2>2. reloader'[r] = [task EXCEPT !.at = "record"]
    BY <1>3, <2>1
  <2>3. incoming' = task.new /\ reloader'[r].at = "record" /\ reloader'[r].new = task.new
    BY <1>0, <1>12, <2>2 DEF ReloadSends, Deliver, Tasks
  <2>4. loop'.at \notin News \cup {"load"} /\ \A q \in Reloaders \ {r} : reloader'[q].at = "idle"
    BY <1>0, <2>3 DEF Overlap, News
  <2>5. Settled'
    BY <2>3 DEF Settled, News
  <2>6. Agrees(loop)'
    BY <2>4 DEF Agrees, News
  <2>7. \A q \in Reloaders : Agrees(reloader[q])'
    BY <2>3, <2>4 DEF Agrees
  <2> QED  BY <1>0, <2>5, <2>6, <2>7
<1>13. CASE ReloadDrops(r)
  <2>1. task.at = "send" /\ reloader'[r].at = "idle"
    BY <1>3, <1>13 DEF ReloadDrops, Resting
  <2> QED  BY <1>0, <2>1 DEF GivenUp
<1>14. CASE ReloadPanics(r)
  BY <1>14, StepElsewhere DEF ReloadPanics, provider, receiver, StepInv
<1>15. CASE ReloadRecords(r)
  <2>1. /\ task.at = "record" /\ reloader'[r] = Resting("idle") /\ lastConfig' = task.new
        /\ UNCHANGED incoming
    BY <1>3, <1>15 DEF ReloadRecords, receiver
  <2>2. ~lapsed
    BY <1>0, <1>4, <2>1
  <2>3. Settled'
    BY <1>5, <1>6, <2>1, <2>2 DEF Settled, Agrees
  <2>4. Agrees(reloader[r])'
    BY <2>1 DEF Agrees, Resting
  <2> QED  BY <1>0, <1>7, <2>1, <2>2, <2>3, <2>4
<1> QED  BY <1>9, <1>10, <1>11, <1>12, <1>13, <1>14, <1>15 DEF Reloader

LEMMA StepNext ==
    ASSUME IInv, StepInv, [Next]_vars
    PROVE  StepInv'
<1>1. CASE Next
  <2>0. Remember
    BY <1>1 DEF Next
  <2>1. CASE Daemon \/ Settles
    <3>1. UNCHANGED <<loop, reloader, lastConfig, incoming>>
      BY <2>1 DEF Daemon, Settles, ContainerStarts, ContainerStops, ContainerPauses, Changing,
                  ListSettles, provider, receiver
    <3> QED  BY <2>0, <3>1, StepElsewhere
  <2>2. CASE Loop \/ StreamBreaks \/ LoopLoadFails
    BY <2>0, <2>2, StepLoop
  <2>3. CASE Cancel \/ AppApplies \/ AppLeaves
    <3>1. UNCHANGED <<loop, reloader, lastConfig, incoming>>
      BY <2>3 DEF Cancel, AppApplies, AppLeaves, provider, receiver
    <3> QED  BY <2>0, <3>1, StepElsewhere
  <2>4. CASE \E r \in Reloaders : Reloader(r) \/ ReloadFails(r)
    BY <2>0, <2>4, StepReloader
  <2>5. CASE PollTicks \/ Fires
    <3>1. \E r \in Reloaders : Begins(r)
      BY <2>5 DEF PollTicks, Fires, TimerFires, Reloaders
    <3> QED  BY <2>0, <3>1, StepReloader
  <2> QED  BY <1>1, <2>1, <2>2, <2>3, <2>4, <2>5 DEF Next, Trouble
<1>2. CASE UNCHANGED vars
  BY <1>2 DEF StepInv, Overlap, Settled, Agrees, vars, provider, receiver
<1> QED  BY <1>1, <1>2

\* Whoever reloads, however many at once, whatever fails or is given up and however long
\* the app takes: unless a send was given up, or crossed another reload, since the last
\* delivery, p.lastConfig holds the services the app was handed (docker.go, Load,
\* immediateReload, handleContainerEvent), and a delivery made alone makes it so again.
THEOREM InStepUnlessLapsed == Safety => []InStep
<1>1. IInv /\ StepInv => InStep
  <2> SUFFICES ASSUME IInv, StepInv, ~lapsed, loop.at \notin News,
                      \A r \in Reloaders : reloader[r].at \notin News
               PROVE  <<lastConfig, incoming>> \in Same
    BY DEF InStep
  <2>1. SeenIn(lastConfig) = SeenIn(incoming)
    BY DEF StepInv, Settled
  <2> QED  BY <2>1, SameMeans DEF IInv, TypeOK
<1> QED  BY <1>1, StepInit, StepNext, Invariant, PTL DEF Safety

-----------------------------------------------------------------------------
(* What one step may do to the event loop, to a reloader and to the channel. *)

LEMMA LoopSteps ==
    ASSUME Next
    PROVE  \/ UNCHANGED loop
           \/ /\ loop.at \in {"connect", "reading", "load", "record"}
              /\ loop' \in {LoopAt("connect"), LoopAt("reading")}
              /\ UNCHANGED ctx
           \/ loop.at = "reading" /\ loop'.at = "load" /\ UNCHANGED ctx
           \/ LoopLoads
           \/ /\ loop.at = "send" /\ loop' = [loop EXCEPT !.at = "record"]
              /\ incoming' = loop.new /\ UNCHANGED ctx
           \/ LoopEnds
<1>1. CASE Daemon \/ Settles
  BY <1>1 DEF Daemon, Settles, ContainerStarts, ContainerStops, ContainerPauses, Changing,
              ListSettles, provider
<1>2. CASE StreamOpens \/ StreamBreaks
  BY <1>2 DEF StreamOpens, StreamBreaks
<1>3. CASE ReadsGone
  BY <1>3 DEF ReadsGone
<1>4. CASE LoopLoadFails \/ LoopLoadRefused
  BY <1>4 DEF LoopLoadFails, LoopLoadRefused
<1>5. CASE LoopSends
  BY <1>5 DEF LoopSends, Deliver
<1>6. CASE LoopRecords
  BY <1>6 DEF LoopRecords
<1>7. CASE ReadsOther
  BY <1>7 DEF ReadsOther
<1>8. CASE Cancel \/ AppApplies \/ AppLeaves
  BY <1>8 DEF Cancel, AppApplies, AppLeaves, provider
<1>9. ASSUME NEW r \in Reloaders, Reloader(r) \/ ReloadFails(r)
      PROVE  UNCHANGED loop
  <2>1. CASE Reloads(r)
    BY <2>1 DEF Reloads
  <2>2. CASE ReloadFails(r) \/ ReloadRefused(r) \/ ReloadSends(r) \/ ReloadDrops(r)
             \/ ReloadRecords(r) \/ ReloadPanics(r)
    BY <2>2 DEF ReloadFails, ReloadRefused, ReloadSends, ReloadDrops, ReloadRecords,
                ReloadPanics, provider
  <2> QED  BY <1>9, <2>1, <2>2 DEF Reloader
<1>10. CASE PollTicks \/ Fires
  BY <1>10 DEF PollTicks, Fires, TimerFires, Begins
<1> QED  BY <1>1, <1>2, <1>3, <1>4, <1>5, <1>6, <1>7, <1>8, <1>9, <1>10
         DEF Next, Loop, Trouble

LEMMA ReloaderSteps ==
    ASSUME IInv, Next, NEW r \in Reloaders
    PROVE  \/ reloader'[r] = reloader[r]
           \/ reloader'[r].at \in {"idle", "load"}
           \/ Reloads(r)
           \/ /\ reloader[r].at = "send" /\ Deliver(reloader[r].new)
              /\ reloader'[r] = [reloader[r] EXCEPT !.at = "record"]
<1>0. reloader \in [Reloaders -> Tasks]
  BY DEF IInv, TypeOK, Tasks
<1>1. CASE Daemon \/ Settles
  BY <1>1 DEF Daemon, Settles, ContainerStarts, ContainerStops, ContainerPauses, Changing,
              ListSettles, provider
<1>2. CASE Loop \/ StreamBreaks \/ LoopLoadFails
  <2>1. CASE LoopLoads
    BY <2>1 DEF LoopLoads
  <2>2. CASE LoopLoadFails \/ LoopLoadRefused
    BY <2>2 DEF LoopLoadFails, LoopLoadRefused
  <2>3. CASE StreamOpens \/ StreamBreaks \/ ReadsGone \/ LoopSends \/ LoopRecords
             \/ ReadsOther \/ LoopEnds
    BY <2>3 DEF StreamOpens, StreamBreaks, ReadsGone, LoopSends, LoopRecords, ReadsOther, LoopEnds
  <2> QED  BY <1>2, <2>1, <2>2, <2>3 DEF Loop
<1>3. CASE Cancel \/ AppApplies \/ AppLeaves
  BY <1>3 DEF Cancel, AppApplies, AppLeaves, provider
<1>4. ASSUME NEW q \in Reloaders, NEW task, reloader' = [reloader EXCEPT ![q] = task]
      PROVE  reloader'[r] = IF r = q THEN task ELSE reloader[r]
  BY <1>0, <1>4
<1>5. ASSUME NEW q \in Reloaders, Reloader(q) \/ ReloadFails(q)
      PROVE  \/ reloader'[r] = reloader[r]
             \/ reloader'[r].at \in {"idle", "load"}
             \/ Reloads(r)
             \/ /\ reloader[r].at = "send" /\ Deliver(reloader[r].new)
                /\ reloader'[r] = [reloader[r] EXCEPT !.at = "record"]
  <2>1. CASE Reloads(q)
    <3>1. PICK task : reloader' = [reloader EXCEPT ![q] = task]
      BY <2>1, Zenon DEF Reloads
    <3>2. r # q => reloader'[r] = reloader[r]
      BY <1>4, <3>1
    <3> QED  BY <2>1, <3>2
  <2>2. CASE ReloadFails(q) \/ ReloadRefused(q) \/ ReloadDrops(q) \/ ReloadRecords(q)
    <3>1. reloader' = [reloader EXCEPT ![q] = Resting("idle")]
      BY <2>2 DEF ReloadFails, ReloadRefused, ReloadDrops, ReloadRecords
    <3> QED  BY <1>4, <3>1 DEF Resting
  <2>3. CASE ReloadSends(q)
    <3>1. reloader' = [reloader EXCEPT ![q] = [reloader[q] EXCEPT !.at = "record"]]
      BY <1>0, <2>3 DEF ReloadSends
    <3>2. reloader'[r] = IF r = q THEN [reloader[q] EXCEPT !.at = "record"] ELSE reloader[r]
      BY <1>4, <3>1
    <3> QED  BY <2>3, <3>2 DEF ReloadSends
  <2>4. CASE ReloadPanics(q)
    BY <2>4 DEF ReloadPanics, provider
  <2> QED  BY <1>5, <2>1, <2>2, <2>3, <2>4 DEF Reloader
<1>6. ASSUME NEW q \in Reloaders, Begins(q)
      PROVE  reloader'[r] = reloader[r] \/ reloader'[r].at = "load"
  BY <1>4, <1>6 DEF Begins
<1>7. CASE PollTicks \/ Fires
  BY <1>6, <1>7 DEF PollTicks, Fires, TimerFires, Reloaders
<1> QED  BY <1>1, <1>2, <1>3, <1>5, <1>7 DEF Next, Trouble

LEMMA ChannelSteps ==
    ASSUME Next
    PROVE  \/ UNCHANGED ctx
           \/ Cancel \/ LoopEnds
           \/ \E r \in Reloaders : ReloadPanics(r)
<1>1. CASE Daemon \/ Settles
  BY <1>1 DEF Daemon, Settles, ContainerStarts, ContainerStops, ContainerPauses, Changing,
              ListSettles
<1>2. CASE LoopLoads
  BY <1>2 DEF LoopLoads
<1>3. CASE LoopLoadFails \/ LoopLoadRefused
  BY <1>3 DEF LoopLoadFails, LoopLoadRefused
<1>4. CASE StreamOpens \/ StreamBreaks \/ ReadsGone \/ LoopSends \/ LoopRecords \/ ReadsOther
  BY <1>4 DEF StreamOpens, StreamBreaks, ReadsGone, LoopSends, LoopRecords, ReadsOther
<1>5. CASE AppApplies \/ AppLeaves
  BY <1>5 DEF AppApplies, AppLeaves
<1>6. ASSUME NEW r \in Reloaders, Reloader(r) \/ ReloadFails(r), ~ReloadPanics(r)
      PROVE  UNCHANGED ctx
  <2>1. CASE Reloads(r)
    BY <2>1 DEF Reloads
  <2>2. CASE ReloadFails(r) \/ ReloadRefused(r) \/ ReloadSends(r) \/ ReloadDrops(r)
             \/ ReloadRecords(r)
    BY <2>2 DEF ReloadFails, ReloadRefused, ReloadSends, ReloadDrops, ReloadRecords
  <2> QED  BY <1>6, <2>1, <2>2 DEF Reloader
<1>7. CASE PollTicks \/ Fires
  BY <1>7 DEF PollTicks, Fires, TimerFires, Begins
<1> QED  BY <1>1, <1>2, <1>3, <1>4, <1>5, <1>6, <1>7 DEF Next, Loop, Trouble

-----------------------------------------------------------------------------
(* What is sent. *)

\* The context of a stop event is looked at only where the loop waits to send, so that a
\* select without a default drops nothing (docker.go, handleContainerEvent).
THEOREM StopsAreNotDropped == Safety => StopIsNotDropped
<1> DEFINE Kept == loop.at = "send" /\ loop' # loop =>
                      \/ incoming' = loop.new /\ loop' = [loop EXCEPT !.at = "record"]
                      \/ cancelled /\ loop'.at = "gone" /\ UNCHANGED incoming
<1>1. ASSUME [Next]_vars PROVE Kept
  <2>1. CASE Next
    <3>1. ~LoopLoads \/ loop.at = "load"
      BY DEF LoopLoads
    <3>2. LoopEnds => cancelled /\ loop'.at = "gone" /\ UNCHANGED incoming
      BY DEF LoopEnds, LoopAt, receiver
    <3> QED  BY <2>1, <3>1, <3>2, LoopSteps
  <2>2. CASE UNCHANGED vars
    BY <2>2 DEF vars, provider
  <2> QED  BY <1>1, <2>1, <2>2
<1>2. [Next]_vars => [Kept]_vars
  BY <1>1
<1> QED  BY <1>2, PTL DEF Safety, StopIsNotDropped

LEMMA Tells ==
    ASSUME NEW a \in Configs, NEW b \in Configs, Truthful(a), Truthful(b), <<a, b>> \notin Equal
    PROVE  <<a, b>> \notin Same
BY AgreeEqual, SameMeans

LEMMA NewsInit == Init => OnlyNewsIsSent
BY DEF Init, OnlyNewsIsSent, LoopAt, Resting

LEMMA NewsNext ==
    ASSUME IInv, OnlyNewsIsSent, [Next]_vars
    PROVE  OnlyNewsIsSent'
<1> DEFINE Fresh(task) == task.at \in {"send", "record"} => <<task.old, task.new>> \notin Same
<1>0. /\ TypeOK /\ TruthfulAll
      /\ Fresh(loop) /\ \A r \in Reloaders : Fresh(reloader[r])
  BY DEF IInv, OnlyNewsIsSent
<1>1. CASE Next
  <2>1. Fresh(loop')
    <3>1. CASE LoopLoads
      <4>1. PICK shown \in Lists :
                /\ Load(shown)
                /\ LET new == removeServiceByContainerName(Loaded(shown), loop.who)
                   IN loop' = IF <<loop.old, new>> \in Equal THEN LoopAt("reading")
                              ELSE [loop EXCEPT !.at = "send", !.new = new]
        BY <3>1, Zenon DEF LoopLoads
      <4> DEFINE new == removeServiceByContainerName(Loaded(shown), loop.who)
      <4>2. new \in Configs /\ Truthful(new)
        <5>1. Loaded(shown) \in Configs /\ Truthful(Loaded(shown))
          BY <1>0, <4>1, LoadStores
        <5>2. new \in Configs
          BY <5>1, RemovedTyped
        <5>3. \A c \in Containers : new[c] \in {Loaded(shown)[c], None}
          BY DEF removeServiceByContainerName
        <5> HIDE DEF new
        <5> QED  BY <5>1, <5>2, <5>3, FewerTruthful
      <4>3. loop.old \in Configs /\ Truthful(loop.old)
        BY <1>0 DEF TypeOK, TruthfulAll
      <4>4. loop' = IF <<loop.old, new>> \in Equal THEN LoopAt("reading")
                    ELSE [loop EXCEPT !.at = "send", !.new = new]
        BY <4>1
      <4> HIDE DEF new
      <4>5. CASE <<loop.old, new>> \in Equal
        BY <4>4, <4>5 DEF LoopAt
      <4>6. CASE <<loop.old, new>> \notin Equal
        <5>1. loop'.old = loop.old /\ loop'.new = new
          BY <1>0, <4>4, <4>6 DEF TypeOK
        <5> QED  BY <4>2, <4>3, <4>6, <5>1, Tells
      <4> QED  BY <4>5, <4>6
    <3>2. CASE LoopEnds
      BY <3>2 DEF LoopEnds, LoopAt
    <3>3. CASE loop' = [loop EXCEPT !.at = "record"] /\ loop.at = "send"
      BY <1>0, <3>3 DEF TypeOK
    <3>4. CASE loop' \in {LoopAt("connect"), LoopAt("reading")}
      BY <3>4 DEF LoopAt
    <3>5. CASE UNCHANGED loop \/ loop'.at = "load"
      BY <1>0, <3>5
    <3> QED  BY <1>1, <3>1, <3>2, <3>3, <3>4, <3>5, LoopSteps
  <2>2. ASSUME NEW r \in Reloaders PROVE Fresh(reloader'[r])
    <3>0. /\ reloader \in [Reloaders -> Tasks] /\ reloader[r] \in Tasks /\ Fresh(reloader[r])
          /\ Truthful(reloader[r].old)
      BY <1>0 DEF TypeOK, TruthfulAll, Tasks
    <3>1. CASE Reloads(r)
      <4>1. PICK shown \in Lists :
                /\ Load(shown)
                /\ reloader' = [reloader EXCEPT ![r] =
                       IF <<reloader[r].old, Loaded(shown)>> \in Equal THEN Resting("idle")
                       ELSE [reloader[r] EXCEPT !.at = "send", !.new = Loaded(shown)]]
        BY <3>1, Zenon DEF Reloads
      <4>2. Loaded(shown) \in Configs /\ Truthful(Loaded(shown))
        BY <1>0, <4>1, LoadStores
      <4>3. CASE <<reloader[r].old, Loaded(shown)>> \in Equal
        <5>1. reloader'[r] = Resting("idle")
          BY <3>0, <4>1, <4>3
        <5> QED  BY <5>1 DEF Resting
      <4>4. CASE <<reloader[r].old, Loaded(shown)>> \notin Equal
        <5>1. reloader'[r] = [reloader[r] EXCEPT !.at = "send", !.new = Loaded(shown)]
          BY <3>0, <4>1, <4>4
        <5>2. reloader'[r].old = reloader[r].old /\ reloader'[r].new = Loaded(shown)
              /\ reloader[r].old \in Configs
          BY <3>0, <5>1 DEF Tasks
        <5> QED  BY <3>0, <4>2, <4>4, <5>2, Tells
      <4> QED  BY <4>3, <4>4
    <3>2. CASE reloader'[r] = reloader[r] \/ reloader'[r].at \in {"idle", "load"}
      BY <3>0, <3>2
    <3>3. CASE reloader[r].at = "send" /\ reloader'[r] = [reloader[r] EXCEPT !.at = "record"]
      BY <3>0, <3>3 DEF Tasks
    <3> QED  BY <1>1, <3>1, <3>2, <3>3, ReloaderSteps
  <2>3. Same' = Same
    OBVIOUS
  <2> QED  BY <2>1, <2>2 DEF OnlyNewsIsSent
<1>2. CASE UNCHANGED vars
  BY <1>2 DEF OnlyNewsIsSent, vars, provider
<1> QED  BY <1>1, <1>2

\* No reload sends what it started from, whatever was loaded, sent or stopped by others in
\* between (docker.go, immediateReload, handleContainerEvent): each configuration sent holds
\* a service that differs, or lacks one.
THEOREM OnlyNews == Safety => []OnlyNewsIsSent
BY NewsInit, NewsNext, Invariant, PTL DEF Safety

-----------------------------------------------------------------------------
(* The end of the watch. *)

EndInv ==
    /\ closed <=> loop.at = "gone"
    /\ closed => cancelled
    /\ PanicOnlyAtTheEnd

LEMMA EndInit == Init => EndInv
BY DEF Init, EndInv, PanicOnlyAtTheEnd, LoopAt

LEMMA EndNext ==
    ASSUME IInv, EndInv, [Next]_vars
    PROVE  EndInv'
<1>1. CASE UNCHANGED vars
  BY <1>1 DEF EndInv, PanicOnlyAtTheEnd, vars, provider, ctx
<1>2. CASE Next
  <2>0. ~panicked /\ {closed, cancelled} \subseteq BOOLEAN
    BY <1>2 DEF Next, Alive, IInv, TypeOK
  <2>1. CASE LoopEnds
    BY <2>0, <2>1 DEF LoopEnds, LoopAt, EndInv, PanicOnlyAtTheEnd
  <2>2. CASE \E r \in Reloaders : ReloadPanics(r)
    BY <2>2 DEF ReloadPanics, provider, EndInv, PanicOnlyAtTheEnd
  <2>3. CASE Cancel
    BY <2>0, <2>3 DEF Cancel, provider, EndInv, PanicOnlyAtTheEnd
  <2>4. CASE UNCHANGED ctx /\ ~LoopEnds
    <3>1. loop'.at = "gone" <=> loop.at = "gone"
      <4>1. ASSUME LoopLoads PROVE loop.at = "load" /\ loop'.at # "gone"
        <5>1. loop.at = "load"
          BY <4>1, Zenon DEF LoopLoads
        <5>2. \E new : loop' \in {LoopAt("reading"), [loop EXCEPT !.at = "send", !.new = new]}
          BY <4>1, Zenon DEF LoopLoads
        <5>3. loop'.at \in {"reading", "send"}
          <6>1. loop \in [at : {"connect", "reading", "load", "send", "record", "gone"},
                          old : Configs, new : Configs, who : Containers \cup {None}]
            BY DEF IInv, TypeOK
          <6>2. PICK new :
                    loop' = LoopAt("reading") \/ loop' = [loop EXCEPT !.at = "send", !.new = new]
            BY <5>2
          <6>3. [loop EXCEPT !.at = "send", !.new = new].at = "send"
            BY <6>1
          <6>4. LoopAt("reading").at = "reading"
            BY DEF LoopAt
          <6> QED  BY <6>2, <6>3, <6>4, Zenon
        <5> QED  BY <5>1, <5>3
      <4>2. loop' \in {LoopAt("connect"), LoopAt("reading")} => loop'.at # "gone"
        BY DEF LoopAt
      <4>3. loop' = [loop EXCEPT !.at = "record"] => loop'.at # "gone"
        BY DEF IInv, TypeOK
      <4> QED  BY <1>2, <2>4, <4>1, <4>2, <4>3, LoopSteps
    <3> QED  BY <2>0, <2>4, <3>1 DEF EndInv, PanicOnlyAtTheEnd, ctx
  <2> QED  BY <1>2, <2>1, <2>2, <2>3, <2>4, ChannelSteps
<1> QED  BY <1>1, <1>2

\* The event loop is the only one that closes configCh, once, when it ends; nobody can meet
\* the closed channel but a reloader that had begun before the context was cancelled
\* (docker.go, Watch, immediateReload).  That NoSendOnClosed fails, fails only there.
THEOREM PanicsAtTheEnd == Safety => []PanicOnlyAtTheEnd
<1>1. EndInv => PanicOnlyAtTheEnd
  BY DEF EndInv
<1> QED  BY <1>1, EndInit, EndNext, Invariant, PTL DEF Safety

\* Unless a send was given up, or crossed another reload, since the last delivery, whoever
\* polls or follows an event hands the app nothing that it has (docker.go, immediateReload):
\* no node is replaced for a reload that changes nothing, with any number of timers, an
\* event stream or none, and an app that takes as long as it likes.
THEOREM ReloadsDoNotDisturb == Safety => []NoIdleDelivery
<1>1. IInv /\ StepInv /\ OnlyNewsIsSent => NoIdleDelivery
  <2> SUFFICES ASSUME IInv, StepInv, OnlyNewsIsSent, ~lapsed,
                      NEW r \in Reloaders, reloader[r].at = "send"
               PROVE  <<incoming, reloader[r].new>> \notin Same
    BY DEF NoIdleDelivery
  <2>1. /\ SeenIn(reloader[r].old) = SeenIn(incoming)
        /\ <<reloader[r].old, reloader[r].new>> \notin Same
    BY DEF StepInv, Agrees, OnlyNewsIsSent
  <2>2. reloader[r].old \in Configs /\ reloader[r].new \in Configs /\ incoming \in Configs
    BY DEF IInv, TypeOK
  <2> QED  BY <2>1, <2>2, SameMeans
<1> QED  BY <1>1, StepInit, StepNext, NewsInit, NewsNext, Invariant, PTL DEF Safety
=============================================================================
