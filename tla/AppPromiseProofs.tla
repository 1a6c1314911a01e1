--------------------------- MODULE AppPromiseProofs ---------------------------
(***************************************************************************)
(* More of App, from the invariant of AppProofs: that the registry keeps its  *)
(* promise (ServiceSet) though starter, watcher and closer call it at any     *)
(* time, by the steps of PromiseProofs; what a node's wait and a handler's    *)
(* Close may rely on while the closer comes in between; and how long r.mu    *)
(* can be held, and where for ever.                                         *)
(***************************************************************************)
EXTENDS AppProofs, PromiseProofs

USE TsAssumption, RegistryAssumption, AppAssumption DEF Inst, Absent

-----------------------------------------------------------------------------
(* App implements ServiceSet, but for a StartServices that was overtaken. *)

LEMMA IInvIsShape ==
    ASSUME IInv
    PROVE  Shape
<1>1. RegTypeOK /\ op.kind \in Kinds /\ op.at \in Steps
  BY OpTyped DEF IInv, TypeOK
<1>2. op.kind = "none" => op.at = "idle"
  BY IdleIsOp DEF IInv, InHand
<1>3. /\ op.at \notin {"idle", "each"} => op.name \in Names
      /\ op.at \in {"listen", "abandon", "handler", "discard", "giveup"} =>
            op.kind \in {"start", "add", "update"}
      /\ op.at = "stop" => op.inst # Absent /\ services[op.name] = op.inst
  BY <1>1, <1>2 DEF IInv, InHand, Replacing, Starting, Kinds, Steps
<1>4. \A m, n \in Names : services[m] # Absent /\ services[m] = services[n] => m = n
  BY DEF IInv, Entries
<1>5. op.at = "handler" =>
          op.inst # Absent /\ \A n \in Names : n # op.name => services[n] # op.inst
  BY DEF IInv, InHand, Entries
<1>6. op.kind = "shutdown" => \A n \in todo : services[n] # Absent
  BY DEF IInv, InHand
<1>. QED BY <1>1, <1>3, <1>4, <1>5, <1>6 DEF Shape

\* What the steps keep; the count is right unless the start was overtaken.
Counting == PInv /\ (~raced => Tally)
Kept == Sim \/ (raced /\ "start" \in {Call.kind, Call'.kind})

\* A call of StartServices, and its return.
LEMMA StarterMaps ==
    ASSUME IInv, Counting, CallStartServices \/ Started
    PROVE  Counting' /\ Kept
<1>0. Shape /\ PInv /\ raced' = raced
  BY IInvIsShape DEF Counting, CallStartServices, Started
<1>1. CASE CallStartServices
  <2>1. StartServices /\ starter = "metrics"
    BY <1>1 DEF CallStartServices
  <2>2. Call'.kind = "start"
    BY <2>1 DEF StartServices, Enter, Begun, Call
  <2>3. ~raced => \A n \in Names : services[n] = Absent
    BY <2>1 DEF IInv, InOrder, Untouched
  <2>4. PInv' /\ (~raced => Tally' /\ Sim)
    BY <1>0, <2>1, <2>3, StartServicesMaps
  <2>. QED BY <1>0, <2>2, <2>4 DEF Counting, Kept
<1>2. CASE Started
  <2>1. StartReturns
    BY <1>2 DEF Started
  <2>2. PInv' /\ Tally' /\ (Tally => Sim)
    BY <1>0, <2>1, StartReturnsMaps
  <2>3. Call.kind = "start"
    BY <2>1 DEF StartReturns, At, Call
  <2>. QED BY <1>0, <2>2, <2>3 DEF Counting, Kept
<1>. QED BY <1>1, <1>2

\* The calls of a reload: what is added or updated has a configuration.
LEMMA ReloadMaps ==
    ASSUME IInv, Counting, NEW n \in Names, ReloadCalls(n) \/ ReloadRefused(n)
    PROVE  Counting' /\ Kept
<1>0. Shape /\ PInv /\ raced' = raced
  BY IInvIsShape DEF Counting, ReloadCalls, ReloadRefused
<1>1. \/ RemoveService(n)
      \/ Refuse
      \/ /\ watcher = "reloading" /\ n \in plan.add \cup plan.update
         /\ AddService(n, pending[n]) \/ UpdateService(n, pending[n])
  <2>1. CASE plan.remove # {}
    BY <2>1 DEF ReloadCalls, ReloadRefused, RemoveRefused
  <2>2. CASE plan.remove = {} /\ plan.add # {}
    BY <2>2 DEF ReloadCalls, ReloadRefused, Planned, AddRefused
  <2>3. CASE plan.remove = {} /\ plan.add = {}
    BY <2>3 DEF ReloadCalls, ReloadRefused, Planned, UpdateRefused
  <2>. QED BY <2>1, <2>2, <2>3
<1>2. PInv' /\ Tally' /\ Sim
  <2>1. CASE RemoveService(n)
    BY <1>0, <2>1, RemoveServiceMaps
  <2>2. CASE Refuse
    BY <1>0, <2>2, RefuseMaps
  <2>3. CASE /\ watcher = "reloading" /\ n \in plan.add \cup plan.update
             /\ AddService(n, pending[n]) \/ UpdateService(n, pending[n])
    <3>1. pending[n] \in Cfgs
      BY <2>3 DEF IInv, Plans, TypeOK
    <3>. QED BY <1>0, <2>3, <3>1, ChangeMaps
  <2>. QED BY <1>1, <2>1, <2>2, <2>3
<1>. QED BY <1>0, <1>2 DEF Counting, Kept

LEMMA WorkingMaps ==
    ASSUME IInv, Counting, Working
    PROVE  Counting' /\ Kept
<1>1. Shape /\ PInv /\ raced' = raced /\ InnerStep
  BY IInvIsShape DEF Counting, Working
<1>2. PInv' /\ (Tally => Tally' /\ Sim)
  BY <1>1, InnerStepMaps
<1>3. Tally \/ Call.kind = "start"
  BY DEF Tally, Call
<1>. QED BY <1>1, <1>2, <1>3 DEF Counting, Kept

\* What takes no step of the registry.
LEMMA AsideMaps ==
    ASSUME IInv, Counting, UNCHANGED regVars, raced => raced'
    PROVE  Counting' /\ Kept
<1>1. Shape /\ PInv
  BY IInvIsShape DEF Counting
<1>2. PInv' /\ (Tally => Tally') /\ Sim
  BY <1>1, QuietStep DEF regVars, Sim
<1>. QED BY <1>2 DEF Counting, Kept

LEMMA StepMaps == IInv /\ Counting /\ [Next]_vars => Counting' /\ Kept
<1>. SUFFICES ASSUME IInv, Counting, [Next]_vars PROVE Counting' /\ Kept
  OBVIOUS
<1>1. CASE \/ StartWatch \/ StartMetrics \/ ExitFailed \/ ReloadReturns \/ WatcherGone
           \/ Signal \/ CloseNodes \/ CloseStep \/ Exit \/ UNCHANGED vars
           \/ \E new \in Configs : Receive(new)
  <2>1. ASSUME UNCHANGED vars
        PROVE  UNCHANGED regVars /\ (raced => raced')
    BY <2>1 DEF vars, appVars
  <2>2. ASSUME \E new \in Configs : Receive(new)
        PROVE  UNCHANGED regVars /\ (raced => raced')
    BY <2>2 DEF Receive
  <2>3. ASSUME StartWatch \/ StartMetrics \/ ExitFailed \/ ReloadReturns \/ WatcherGone
        PROVE  UNCHANGED regVars /\ (raced => raced')
    BY <2>3 DEF StartWatch, StartMetrics, ExitFailed, ReloadReturns, WatcherGone
  <2>4. ASSUME CloseNodes \/ CloseStep \/ Exit
        PROVE  UNCHANGED regVars /\ (raced => raced')
    BY <2>4 DEF CloseNodes, CloseStep, Exit, appVars
  <2>5. ASSUME Signal
        PROVE  UNCHANGED regVars /\ (raced => raced')
    BY <2>5, Zenon DEF Signal
  <2>6. UNCHANGED regVars /\ (raced => raced')
    BY <1>1, <2>1, <2>2, <2>3, <2>4, <2>5
  <2>. QED BY <2>6, AsideMaps
<1>2. CASE CallStartServices \/ Started
  BY <1>2, StarterMaps
<1>3. CASE \E n \in Names : ReloadCalls(n) \/ ReloadRefused(n)
  BY <1>3, ReloadMaps
<1>4. CASE CallShutdown \/ ServicesStopped
  <2>1. Shape /\ PInv /\ raced' = raced /\ (Shutdown \/ ShutdownReturns)
    BY <1>4, IInvIsShape DEF Counting, CallShutdown, ServicesStopped
  <2>. QED BY <2>1, ShutdownMaps, ShutdownReturnsMaps DEF Counting, Kept
<1>5. CASE Working
  BY <1>5, WorkingMaps
<1>6. CASE Elsewhere
  <2>1. /\ Shape /\ PInv /\ raced' = raced
        /\ \E i \in Inst : NodeClosed(i) \/ ServeFails(i)
    BY <1>6, IInvIsShape DEF Counting, Elsewhere, appVars
  <2>. QED BY <2>1, ElsewhereMaps DEF Counting, Kept
<1>. QED BY <1>1, <1>2, <1>3, <1>4, <1>5, <1>6 DEF Next, Starter, Watcher, Reload, Closer

\* Every AddService, RemoveService, UpdateService and Shutdown does to the set what its
\* return value says (service.go), whenever a reload (reload.go) or a signal comes, and so
\* does a StartServices that no configuration overtook.
THEOREM TheAppKeepsThePromise == Safety => PromiseUnlessOvertaken
<1>. DEFINE Allowed == Promised!Next \/ (raced /\ "start" \in {Call.kind, Call'.kind})
<1>1. IInv /\ Counting /\ [Next]_vars => Counting' /\ [Allowed]_(Promised!vars)
  BY StepMaps DEF Kept, Sim
<1>2. Init => Counting /\ Promised!Init
  BY InitMaps DEF Init, Counting
<1>3. Safety => []Counting
  BY <1>1, <1>2, Invariant, PTL DEF Safety
<1>. QED BY <1>1, <1>2, <1>3, Invariant, PTL DEF Safety, PromiseUnlessOvertaken

-----------------------------------------------------------------------------
(* How an operation proceeds, whoever called it. *)

\* Within one call of stop, CloseService or startService.
LEMMA Proceeds ==
    ASSUME IInv,
           Stopped \/ CloseNode \/ OldClosed \/ Listening \/ NotListening \/ HandlerFails
    PROVE  /\ op'.kind = op.kind /\ op'.name = op.name /\ UNCHANGED <<services, todo>>
           /\ \/ op.at = "stop" /\ op'.at = "close"
              \/ op.at = "close" /\ op'.at = "wait"
              \/ op.at = "wait" /\ op'.at = "listen"
              \/ op.at = "listen" /\ op'.at \in {"handler", "abandon"}
              \/ op.at = "handler" /\ op'.at = "discard"
              \/ op.at = "discard" /\ op'.at = "giveup"
<1>1. op \in Ops
  BY DEF IInv, TypeOK, RegTypeOK
<1>. QED BY <1>1 DEF Stopped, CloseNode, OldClosed, Listening, NotListening, HandlerFails, At, Ops

\* The end of one: of the operation too, unless that is StartServices.
LEMMA Ends ==
    ASSUME IInv, NotStopped \/ Removed \/ NotAuthorized \/ Abandoned \/ Serves \/ GaveUp
    PROVE  /\ op.at \in {"stop", "wait", "listen", "abandon", "handler", "giveup"}
           /\ op.name \in Names /\ op.kind \in {"start", "add", "remove", "update"}
           /\ UNCHANGED todo
           /\ \/ op.kind = "start" /\ op'.kind = "start" /\ op'.at = "each"
              \/ op.kind # "start" /\ op' = Idle /\ op'.kind = "none" /\ op'.at = "idle"
           /\ \A n \in Names : n # op.name => services'[n] = services[n]
<1>1. services \in [Names -> Inst \cup {Absent}]
  BY DEF IInv, TypeOK, RegTypeOK
<1>2. CASE NotStopped \/ Removed
  <2>1. /\ op.at \in {"stop", "wait"} /\ op.kind \in {"remove", "update"} /\ op' = Idle
        /\ services' \in {services, [services EXCEPT ![op.name] = Absent]} /\ UNCHANGED todo
    BY <1>2 DEF NotStopped, Removed, At, Return
  <2>. QED BY <1>1, <2>1, WhoseStep, IdleIsOp
<1>3. CASE NotAuthorized \/ Abandoned \/ GaveUp
  <2>1. op.at \in {"listen", "abandon", "giveup"} /\ StartFailed /\ UNCHANGED todo
    BY <1>3 DEF NotAuthorized, Abandoned, GaveUp
  <2>2. op.kind \in {"start", "add", "update"} /\ op.name \in Names
    BY <2>1, WhoseStep DEF Starting
  <2>. QED BY <1>1, <2>1, <2>2, StartHasFailed DEF IInv
<1>4. CASE Serves
  <2>1. /\ op.at = "handler" /\ UNCHANGED todo
        /\ services' = [services EXCEPT ![op.name] = op.inst]
    BY <1>4 DEF Serves
  <2>2. op.kind \in {"start", "add", "update"} /\ op.name \in Names
    BY <2>1, WhoseStep DEF Starting
  <2>3. CASE op.kind = "start"
    <3>1. op' = [Begun("start", "each", None, None, Absent) EXCEPT !.won = TRUE, !.lost = op.lost]
      BY <1>4, <2>3 DEF Serves
    <3>. QED BY <1>1, <2>1, <2>2, <2>3, <3>1 DEF Begun
  <2>4. CASE op.kind # "start"
    BY <1>1, <1>4, <2>1, <2>2, <2>4, IdleIsOp DEF Serves, Return
  <2>. QED BY <2>3, <2>4
<1>. QED BY <1>2, <1>3, <1>4

-----------------------------------------------------------------------------
(* Handlers: only a reload that goes on after Shutdown closes one a second time. *)

\* Which handlers are closed: until Shutdown, only that of the service a remove or an update
\* has in hand; in Shutdown, none of those it has still to stop.
Handlers ==
    /\ op.kind = "shutdown" <=> closer = "stopping"
    /\ \A i \in released : i <= made
    /\ op.at = "handler" => op.inst \notin released
    /\ closer \in {"none", "services"} =>
          \A n \in Names : services[n] # Absent /\ services[n] \in released =>
              op.kind \in {"remove", "update"} /\ op.at \in Replacing /\ op.name = n
    /\ closer = "stopping" => \A n \in todo : services[n] \notin released

\* Nothing is closed, and what the operation has in hand stays there until its entry is gone.
LEMMA NoneClosed ==
    ASSUME IInv, Handlers, made' \in Nat, made <= made', UNCHANGED <<closer, released>>,
           op.kind # "shutdown", op'.kind # "shutdown",
           op'.at = "handler" => op'.inst \notin released,
           \A n \in Names : services'[n] # Absent /\ services'[n] \in released =>
              /\ services'[n] = services[n]
              /\ op.kind \in {"remove", "update"} /\ op.at \in Replacing /\ op.name = n =>
                    op'.kind \in {"remove", "update"} /\ op'.at \in Replacing /\ op'.name = n
    PROVE  Handlers'
<1>1. made \in Nat /\ released \subseteq Nat
  BY DEF IInv, TypeOK, RegTypeOK, TsTypeOK
<1>2. \A i \in released : i <= made'
  BY <1>1 DEF Handlers
<1>. QED BY <1>2 DEF Handlers

\* Start, reload and shutdown outside the registry, and the goroutines that need no lock.
LEMMA ElsewhereHandlers ==
    ASSUME IInv, Handlers, UNCHANGED <<made, services, released, op, todo>>,
           \/ UNCHANGED closer
           \/ closer = "none" /\ closer' = "services"
           \/ closer # "stopping" /\ closer' \in {"nodes", "closing", "exited"}
    PROVE  Handlers'
BY DEF Handlers

LEMMA CallsHandlers ==
    ASSUME IInv, Handlers, UNCHANGED <<made, services, released, closer>>,
           op.kind \in {"none", "start"},
           op'.kind # "shutdown", op'.at # "handler"
    PROVE  Handlers'
<1>1. made \in Nat
  BY DEF IInv, TypeOK, RegTypeOK, TsTypeOK
<1>. QED BY <1>1, NoneClosed

LEMMA ShutdownHandlers ==
    ASSUME IInv, Handlers, CallShutdown \/ ServicesStopped
    PROVE  Handlers'
<1>1. CASE CallShutdown
  <2>1. /\ closer = "services" /\ closer' = "stopping" /\ UNCHANGED <<made, services, released>>
        /\ Enter(Begun("shutdown", "each", None, None, Absent))
        /\ todo' = Registered(services)
    BY <1>1 DEF CallShutdown, Shutdown, tsVars
  <2>2. op.kind = "none" /\ op' = Begun("shutdown", "each", None, None, Absent)
    BY <2>1, Entering
  <2>3. op'.kind = "shutdown" /\ op'.at = "each"
    BY <2>2 DEF Begun
  <2>. QED BY <2>1, <2>2, <2>3 DEF Handlers, Registered
<1>2. CASE ServicesStopped
  <2>1. /\ closer' = "nodes" /\ UNCHANGED <<made, services, released>> /\ op' = Idle
    BY <1>2 DEF ServicesStopped, ShutdownReturns, Return, tsVars
  <2>. QED BY <2>1, IdleIsOp DEF Handlers
<1>. QED BY <1>1, <1>2

\* The stop of the service in hand: it is the second for that handler only if Shutdown has
\* been there.
LEMMA StoppedHandlers ==
    ASSUME IInv, Handlers, Running, Stopped, UNCHANGED closer
    PROVE  Handlers' /\ PanicOnlyAfterShutdown'
<1>1. /\ op.kind \in {"remove", "update"} /\ op.at = "stop" /\ op.name \in Names
      /\ services[op.name] = op.inst /\ op.inst <= made
      /\ UNCHANGED <<made, services>>
      /\ released' = released \cup {op.inst}
      /\ panicked' = (panicked \/ (Metrics /\ op.inst \in released))
  BY DEF Stopped, At, StopSucceeds, CloseHandler, tsVars, IInv, InHand
<1>2. op'.kind = op.kind /\ op'.name = op.name /\ op'.at = "close"
  BY <1>1, Proceeds
<1>3. ASSUME closer \in {"none", "services"}, NEW n \in Names, services[n] # Absent,
             services[n] \in released'
      PROVE  n = op.name
  <2>1. services[n] = services[op.name]
    BY <1>1, <1>3 DEF Handlers, Replacing, Starting
  <2>. QED BY <1>1, <1>3, <2>1 DEF IInv, Entries
<1>4. Handlers'
  BY <1>1, <1>2, <1>3 DEF Handlers, Replacing
<1>5. panicked' => closer \in {"nodes", "closing"}
  <2>1. services[op.name] # Absent /\ closer # "stopping" /\ closer # "exited" /\ ~panicked
    BY <1>1 DEF IInv, InHand, Handlers, Running
  <2>2. op.inst \in released => closer \notin {"none", "services"}
    BY <1>1, <2>1 DEF Handlers, Replacing, Starting
  <2>. QED BY <1>1, <2>1, <2>2 DEF IInv, TypeOK
<1>. QED BY <1>1, <1>2, <1>4, <1>5 DEF PanicOnlyAfterShutdown, At

LEMMA ShutdownStopsHandlers ==
    ASSUME IInv, Handlers, Running, NEW n \in Names, ShutdownStops(n), UNCHANGED closer
    PROVE  Handlers' /\ ~panicked'
<1>1. /\ op.kind = "shutdown" /\ op.at = "each" /\ n \in todo /\ todo' = todo \ {n}
      /\ services[n] # Absent /\ services[n] <= made /\ UNCHANGED <<made, services>>
      /\ released' \in {released, released \cup {services[n]}}
      /\ closer = "stopping" /\ services[n] \notin released /\ todo \subseteq Names
  BY DEF ShutdownStops, At, StopSucceeds, StopTimesOut, CloseHandler, tsVars, IInv, InHand,
         Entries, Handlers, TypeOK, RegTypeOK
<1>2. ~panicked'
  BY <1>1 DEF ShutdownStops, StopSucceeds, StopTimesOut, CloseHandler, Running
<1>3. op'.kind = "shutdown" /\ op'.at = "each"
  BY <1>1 DEF ShutdownStops, IInv, TypeOK, RegTypeOK, Ops
<1>4. \A m \in todo' : services[m] # services[n]
  BY <1>1 DEF IInv, Entries
<1>. QED BY <1>1, <1>2, <1>3, <1>4 DEF Handlers

\* The other steps under r.mu close no handler.
LEMMA InnerHandlers ==
    ASSUME IInv, Handlers, UNCHANGED closer,
           \/ NotStopped \/ CloseNode \/ Removed \/ OldClosed
           \/ Listening \/ NotAuthorized \/ NotListening \/ Abandoned
           \/ HandlerFails \/ Serves \/ GaveUp
           \/ \E n \in Names : StartNext(n)
    PROVE  Handlers' /\ UNCHANGED panicked
<1>1. made \in Nat /\ services \in [Names -> Inst \cup {Absent}]
  BY DEF IInv, TypeOK, RegTypeOK, TsTypeOK
<1>2. UNCHANGED <<released, panicked>> /\ made' \in {made, made + 1}
  <2>1. CASE NotStopped \/ HandlerFails \/ Serves \/ \E n \in Names : StartNext(n)
    BY <2>1 DEF NotStopped, StopTimesOut, HandlerFails, Serves, StartNext, tsVars
  <2>2. CASE CloseNode
    BY <2>2 DEF CloseNode, DetachNode, tsVars
  <2>3. CASE Removed \/ OldClosed \/ GaveUp
    BY <2>3 DEF Removed, OldClosed, GaveUp, Waited
  <2>4. CASE Listening \/ NotAuthorized \/ NotListening
    BY <2>4 DEF Listening, NotAuthorized, NotListening, ListenSucceeds, ListenNoAuth, ListenFails,
          Make
  <2>5. CASE Abandoned
    BY <2>5 DEF Abandoned, ListenFailed, tsVars
  <2>. QED BY <2>1, <2>2, <2>3, <2>4, <2>5
<1>3. made' \in Nat /\ made <= made'
  BY <1>1, <1>2
<1>4. CASE CloseNode \/ OldClosed \/ HandlerFails \/ Listening \/ NotListening
  <2>1. /\ op'.kind = op.kind /\ op'.name = op.name /\ UNCHANGED services
        /\ op.at \in {"close", "wait", "listen", "handler", "discard"}
        /\ op'.at \in {"wait", "listen", "abandon", "handler", "discard", "giveup"}
    BY <1>4, Proceeds DEF CloseNode, OldClosed, HandlerFails, Listening, NotListening, At
  <2>2. op.kind # "shutdown"
    BY <2>1 DEF IInv, InHand
  <2>3. op'.at = "handler" => op'.inst = made + 1
    BY <1>4, <2>1, Proceeds DEF CloseNode, OldClosed, HandlerFails, Listening, NotListening, At,
          IInv, TypeOK, RegTypeOK, Ops
  <2>4. made + 1 \notin released
    BY <1>1 DEF Handlers
  <2>. QED BY <1>1, <1>2, <1>3, <2>1, <2>2, <2>3, <2>4, NoneClosed DEF Replacing, Starting
<1>5. CASE NotStopped \/ Removed \/ NotAuthorized \/ Abandoned \/ Serves \/ GaveUp
  <2>1. /\ op.name \in Names /\ op.kind \in {"start", "add", "remove", "update"}
        /\ op'.kind \in {"start", "none"} /\ op'.at \in {"each", "idle"}
        /\ \A n \in Names : n # op.name => services'[n] = services[n]
        /\ op.at \in {"stop", "wait", "listen", "abandon", "handler", "giveup"}
    BY <1>5, Ends
  <2>2. \/ op.kind \in {"remove", "update"} /\ op.at = "stop" /\ UNCHANGED services
        \/ op.kind \in {"start", "add"} /\ UNCHANGED services
        \/ services' = [services EXCEPT ![op.name] = Absent]
        \/ op.at = "handler" /\ services' = [services EXCEPT ![op.name] = op.inst]
    BY <1>5, <2>1 DEF NotStopped, At, Removed, NotAuthorized, Abandoned, Serves, GaveUp,
          StartFailed
  <2>3. \/ UNCHANGED services /\ (op.kind \in {"start", "add"} \/ op.at = "stop")
        \/ services'[op.name] = Absent \/ services'[op.name] \notin released
    BY <1>1, <2>1, <2>2 DEF Handlers
  <2>. QED BY <1>1, <1>2, <1>3, <2>1, <2>3, NoneClosed DEF Replacing, Starting
<1>6. CASE \E n \in Names : StartNext(n)
  <2>1. op.kind = "start" /\ UNCHANGED services
    BY <1>6 DEF StartNext, At
  <2>2. op'.kind = "start" /\ op'.at = "listen"
    BY <1>6, <2>1 DEF StartNext, IInv, TypeOK, RegTypeOK, Ops
  <2>. QED BY <1>1, <1>2, <1>3, <2>1, <2>2, NoneClosed
<1>. QED BY <1>2, <1>4, <1>5, <1>6

\* The calls, and StartServices' return.
LEMMA CallingHandlers ==
    ASSUME IInv, Handlers,
           \/ CallStartServices \/ Started
           \/ \E n \in Names : ReloadCalls(n) \/ ReloadRefused(n)
    PROVE  Handlers' /\ UNCHANGED panicked
<1>1. CASE CallStartServices
  <2>1. /\ UNCHANGED <<made, services, released, closer, panicked>>
        /\ Enter(Begun("start", "each", None, None, Absent))
    BY <1>1 DEF CallStartServices, StartServices, tsVars
  <2>2. op.kind = "none" /\ op'.kind = "start" /\ op'.at = "each"
    BY <2>1, Entering DEF Begun
  <2>. QED BY <2>1, <2>2, CallsHandlers
<1>2. CASE Started
  <2>1. UNCHANGED <<made, services, released, closer, panicked>> /\ op' = Idle /\ op.kind = "start"
    BY <1>2 DEF Started, StartReturns, Return, At, tsVars
  <2>. QED BY <2>1, IdleIsOp, CallsHandlers
<1>3. ASSUME NEW n \in Names, ReloadCalls(n) \/ ReloadRefused(n)
      PROVE  Handlers' /\ UNCHANGED panicked
  <2>1. /\ UNCHANGED <<made, services, released, closer, panicked>>
        /\ \/ Enter(Begun("remove", "stop", n, None, services[n]))
           \/ Enter(Begun("add", "listen", n, pending[n], Absent))
           \/ Enter(Begun("update", "stop", n, pending[n], services[n]))
           \/ op = Idle /\ op' = op
    <3>1. /\ UNCHANGED closer
          /\ \/ RemoveService(n) \/ AddService(n, pending[n]) \/ UpdateService(n, pending[n])
             \/ Refuse
      BY <1>3 DEF ReloadCalls, ReloadRefused, RemoveRefused, AddRefused, UpdateRefused
    <3>. QED BY <3>1 DEF RemoveService, AddService, UpdateService, Refuse, tsVars
  <2>2. op.kind = "none" /\ op'.kind # "shutdown" /\ op'.at # "handler"
    BY <2>1, Entering, IdleIsOp DEF Begun
  <2>. QED BY <2>1, <2>2, CallsHandlers
<1>. QED BY <1>1, <1>2, <1>3

LEMMA HandlersStep ==
    IInv /\ Handlers /\ PanicOnlyAfterShutdown /\ [Next]_vars => Handlers' /\ PanicOnlyAfterShutdown'
<1>. SUFFICES ASSUME IInv, Handlers, PanicOnlyAfterShutdown, [Next]_vars
              PROVE  Handlers' /\ PanicOnlyAfterShutdown'
  OBVIOUS
<1>1. CASE UNCHANGED vars
  <2>1. UNCHANGED <<made, services, released, op, todo, closer, panicked>>
    BY <1>1 DEF vars, tsVars, regVars, appVars
  <2>. QED BY <2>1, ElsewhereHandlers DEF PanicOnlyAfterShutdown, At
<1>2. CASE Next
  <2>0. Running /\ ~panicked
    BY <1>2 DEF Next, Running
  <2>1. CASE \/ StartWatch \/ StartMetrics \/ ExitFailed \/ ReloadReturns \/ WatcherGone
             \/ Signal \/ CloseNodes \/ CloseStep \/ Exit \/ Elsewhere
             \/ \E new \in Configs : Receive(new)
    <3>1. UNCHANGED <<made, services, released, op, todo, panicked>>
      <4>1. ASSUME \/ StartWatch \/ StartMetrics \/ ExitFailed \/ ReloadReturns \/ WatcherGone
                   \/ \E new \in Configs : Receive(new)
            PROVE  UNCHANGED <<made, services, released, op, todo, panicked>>
        BY <4>1 DEF StartWatch, StartMetrics, ExitFailed, ReloadReturns, WatcherGone, Receive,
              tsVars, regVars
      <4>2. ASSUME Signal \/ Exit
            PROVE  UNCHANGED <<made, services, released, op, todo, panicked>>
        BY <4>2 DEF Signal, Exit, tsVars, regVars
      <4>3. ASSUME CloseNodes \/ CloseStep
            PROVE  UNCHANGED <<made, services, released, op, todo, panicked>>
        BY <4>3 DEF CloseNodes, CloseAll, CloseStep, CloseOneBegins, CloseOneEnds, regVars
      <4>4. ASSUME Elsewhere
            PROVE  UNCHANGED <<made, services, released, op, todo, panicked>>
        BY <4>4 DEF Elsewhere, NodeClosed, NodeCloses, ServeFails, tsVars, regVars
      <4>. QED BY <2>1, <4>1, <4>2, <4>3, <4>4
    <3>2. \/ UNCHANGED closer
          \/ closer = "none" /\ closer' = "services"
          \/ closer # "stopping" /\ closer' \in {"nodes", "closing", "exited"}
      BY <2>1 DEF StartWatch, StartMetrics, ExitFailed, ReloadReturns, WatcherGone, Signal,
            CloseNodes, CloseStep, Exit, Elsewhere, Receive, appVars
    <3>. QED BY <2>0, <3>1, <3>2, ElsewhereHandlers DEF PanicOnlyAfterShutdown
  <2>2. CASE \/ CallStartServices \/ Started
             \/ \E n \in Names : ReloadCalls(n) \/ ReloadRefused(n)
    BY <2>0, <2>2, CallingHandlers DEF PanicOnlyAfterShutdown
  <2>3. CASE CallShutdown \/ ServicesStopped
    <3>1. UNCHANGED panicked
      BY <2>3 DEF CallShutdown, Shutdown, ServicesStopped, ShutdownReturns
    <3>. QED BY <2>0, <2>3, <3>1, ShutdownHandlers DEF PanicOnlyAfterShutdown
  <2>4. CASE Working
    <3>1. UNCHANGED closer /\ InnerStep
      BY <2>4 DEF Working
    <3>2. CASE Stopped
      BY <2>0, <3>1, <3>2, StoppedHandlers
    <3>3. CASE \E n \in Names : ShutdownStops(n)
      BY <2>0, <3>1, <3>3, ShutdownStopsHandlers DEF PanicOnlyAfterShutdown
    <3>4. CASE \/ NotStopped \/ CloseNode \/ Removed \/ OldClosed
               \/ Listening \/ NotAuthorized \/ NotListening \/ Abandoned
               \/ HandlerFails \/ Serves \/ GaveUp
               \/ \E n \in Names : StartNext(n)
      BY <2>0, <3>1, <3>4, InnerHandlers DEF PanicOnlyAfterShutdown
    <3>. QED BY <3>1, <3>2, <3>3, <3>4 DEF InnerStep
  <2>. QED BY <1>2, <2>1, <2>2, <2>3, <2>4 DEF Next, Starter, Watcher, Reload, Closer
<1>. QED BY <1>1, <1>2

\* A handler is closed twice (service.go, Service.Stop), which with a metrics collector is a
\* panic, only when a remove or an update of a reload comes after Shutdown has stopped the
\* services and App.Shutdown has gone on to the nodes (app.go): a configuration that
\* overtakes the start, or a stop that failed, never leads to it.
THEOREM PanicNeedsAShutdown == Safety => []PanicOnlyAfterShutdown
<1>1. Init => Handlers /\ PanicOnlyAfterShutdown
  BY IdleIsOp DEF Init, RegInit, TsInit, Handlers, PanicOnlyAfterShutdown
<1>. QED BY <1>1, HandlersStep, Invariant, PTL DEF Safety

-----------------------------------------------------------------------------
(* Nodes: each is waited for by the one that took it out of the map. *)

\* What the map holds is up and its service's, and nobody has begun to close it.
Mapped ==
    /\ \A n \in Names : servers[n] # Absent =>
          /\ owner[servers[n]] = n
          /\ node[servers[n]] = "up"
          /\ servers[n] \notin doomed
    /\ \A i \in doomed : i <= made

Waits == Mapped /\ NobodyWaitsInVain

LEMMA NodesTyped ==
    ASSUME IInv
    PROVE  /\ servers \in [Names -> Inst \cup {Absent}] /\ owner \in [Inst -> Names \cup {None}]
           /\ node \in [Inst -> NodeStates] /\ made \in Nat /\ doomed \subseteq Inst
           /\ op.inst \in Inst \cup {Absent} /\ op.inst <= made
           /\ \A n \in Names : servers[n] <= made
BY OpTyped DEF IInv, TypeOK, RegTypeOK, TsTypeOK, InHand, Entries

\* No node changes, and no wait begins.
LEMMA SameNodes ==
    ASSUME Waits, UNCHANGED tsVars, op'.at \in {"wait", "giveup", "abandon"} => op' = op
    PROVE  Waits'
BY DEF Waits, Mapped, NobodyWaitsInVain, tsVars

\* CloseService takes the node of its service out of the map.
LEMMA CloseNodeWaits ==
    ASSUME IInv, Waits, CloseNode
    PROVE  Waits'
<1>1. /\ op.name \in Names /\ op'.inst = servers[op.name]
      /\ UNCHANGED <<owner, made, doomed>>
      /\ \/ servers[op.name] = Absent /\ UNCHANGED <<servers, node>>
         \/ /\ servers[op.name] # Absent
            /\ servers' = [servers EXCEPT ![op.name] = Absent]
            /\ node' = [node EXCEPT ![servers[op.name]] = "closing"]
  BY WhoseStep DEF CloseNode, DetachNode, tsVars, Starting, IInv, TypeOK, RegTypeOK, Ops
<1>2. CASE servers[op.name] = Absent
  BY <1>1, <1>2 DEF Waits, Mapped, NobodyWaitsInVain
<1>3. CASE servers[op.name] # Absent
  <2>. DEFINE i == servers[op.name]
  <2>1. /\ i \in Inst /\ node[i] = "up" /\ i \notin doomed
        /\ \A n \in Names : n # op.name => servers[n] # i
    BY <1>1, <1>3, NodesTyped DEF Waits, Mapped
  <2>2. /\ node'[i] = "closing" /\ \A j \in Inst : j # i => node'[j] = node[j]
        /\ servers'[op.name] = Absent
        /\ \A n \in Names : n # op.name => servers'[n] = servers[n]
    BY <1>1, <1>3, <2>1, NodesTyped
  <2>3. Mapped'
    BY <1>1, <2>1, <2>2, NodesTyped DEF Waits, Mapped
  <2>4. \A j \in doomed : j \in Inst /\ j # i /\ node'[j] = node[j]
    BY <2>1, <2>2, NodesTyped
  <2>5. NobodyWaitsInVain'
    BY <1>1, <2>1, <2>2, <2>4 DEF Waits, NobodyWaitsInVain
  <2>. QED BY <2>3, <2>5 DEF Waits
<1>. QED BY <1>2, <1>3

\* The wait ends, of itself: nobody else's node is concerned.
LEMMA WaitedWaits ==
    ASSUME IInv, Waits, Removed \/ OldClosed \/ GaveUp
    PROVE  Waits'
<1>1. /\ Waited /\ op.at \in {"wait", "giveup"} /\ op'.at \notin {"wait", "giveup", "abandon"}
      /\ UNCHANGED <<servers, owner, made, doomed>>
  BY Ends, Proceeds DEF Removed, OldClosed, GaveUp, At, Waited
<1>2. \/ UNCHANGED node
      \/ op.inst # Absent /\ node[op.inst] = "closing" /\ node' = [node EXCEPT ![op.inst] = "overdue"]
  BY <1>1 DEF Waited, WaitEnds
<1>3. \A i \in Inst : i \in doomed \/ node[i] = "up" => node'[i] = node[i]
  BY <1>1, <1>2, NodesTyped DEF Waits, NobodyWaitsInVain
<1>4. Mapped'
  BY <1>1, <1>3, NodesTyped DEF Waits, Mapped
<1>5. \A i \in doomed : node'[i] = node[i]
  BY <1>3, NodesTyped
<1>6. NobodyWaitsInVain'
  BY <1>1, <1>5 DEF Waits, NobodyWaitsInVain
<1>. QED BY <1>4, <1>6 DEF Waits

\* A new node is in nobody's hands yet.
LEMMA NewNodeWaits ==
    ASSUME IInv, Waits, Listening \/ NotAuthorized \/ NotListening
    PROVE  Waits'
<1>1. op.at = "listen" /\ op.name \in Names
  BY WhoseStep DEF Listening, NotAuthorized, NotListening, Starting
<1>2. /\ op'.at \notin {"wait", "giveup"}
      /\ op'.at = "abandon" => NotListening
  <2>1. CASE Listening
    BY <2>1 DEF Listening, IInv, TypeOK, RegTypeOK, Ops
  <2>2. CASE NotAuthorized
    BY <2>2, Ends
  <2>3. CASE NotListening
    BY <2>3 DEF NotListening, IInv, TypeOK, RegTypeOK, Ops
  <2>. QED BY <2>1, <2>2, <2>3
<1>3. PICK state \in {"up", "unstarted", "closing"} :
          /\ Make(op.name, state)
          /\ NotListening => state = "closing"
          /\ \/ servers' = [servers EXCEPT ![op.name] = made + 1] /\ state = "up"
             \/ servers' = [servers EXCEPT ![op.name] = Absent]
             \/ servers' = servers
  <2>1. CASE Listening
    <3>1. /\ Make(op.name, "up") /\ servers' = [servers EXCEPT ![op.name] = made + 1]
          /\ op'.at = "handler"
      BY <2>1 DEF Listening, ListenSucceeds, IInv, TypeOK, RegTypeOK, Ops
    <3>2. ~NotListening
      BY <3>1 DEF NotListening, IInv, TypeOK, RegTypeOK, Ops
    <3>. QED BY <3>1, <3>2
  <2>2. CASE NotAuthorized
    <3>1. Make(op.name, "unstarted") /\ UNCHANGED servers /\ op'.at \in {"idle", "each"}
      BY <2>2, Ends DEF NotAuthorized, ListenNoAuth
    <3>2. ~NotListening
      BY <3>1, Proceeds, <1>1
    <3>. QED BY <3>1, <3>2
  <2>3. CASE NotListening
    BY <2>3 DEF NotListening, ListenFails
  <2>. QED BY <2>1, <2>2, <2>3
<1>4. /\ made' = made + 1 /\ made' \in Inst /\ UNCHANGED doomed
      /\ owner'[made'] = op.name /\ node'[made'] = state
      /\ \A i \in Inst \ {made'} : owner'[i] = owner[i] /\ node'[i] = node[i]
  BY <1>1, <1>3, NewNode DEF NodeStates
<1>5. \A i \in Inst : i <= made => i # made' /\ owner'[i] = owner[i] /\ node'[i] = node[i]
  BY <1>4, NodesTyped
<1>6. \A i \in doomed : i <= made /\ i # made' /\ node'[i] = node[i]
  BY <1>5, NodesTyped DEF Waits, Mapped
<1>7. ASSUME NEW n \in Names, servers'[n] # Absent
      PROVE  /\ owner'[servers'[n]] = n /\ node'[servers'[n]] = "up"
             /\ servers'[n] \notin doomed'
  <2>1. CASE servers'[n] = servers[n]
    BY <1>4, <1>5, <1>7, <2>1, NodesTyped DEF Waits, Mapped
  <2>2. CASE servers'[n] # servers[n]
    <3>1. n = op.name /\ servers'[n] = made' /\ state = "up"
      BY <1>3, <1>4, <1>7, <2>2, NodesTyped
    <3>. QED BY <1>4, <1>6, <3>1
  <2>. QED BY <2>1, <2>2
<1>8. \A i \in doomed' : i <= made'
  BY <1>4, <1>6, NodesTyped
<1>9. ASSUME op'.at = "abandon"
      PROVE  op'.inst = made' /\ node'[made'] = "closing" /\ made' \notin doomed'
  <2>1. NotListening
    BY <1>2, <1>9
  <2>2. op'.inst = made + 1
    BY <2>1 DEF NotListening, IInv, TypeOK, RegTypeOK, Ops
  <2>. QED BY <1>3, <1>4, <1>6, <2>1, <2>2
<1>10. NobodyWaitsInVain'
  BY <1>2, <1>4, <1>6, <1>9 DEF Waits, NobodyWaitsInVain
<1>. QED BY <1>7, <1>8, <1>10 DEF Waits, Mapped

\* Close takes the whole map, then goes through it.
LEMMA CloseAllWaits ==
    ASSUME IInv, Waits, CloseAll, op' = op
    PROVE  Waits'
<1>1. /\ \A n \in Names : servers'[n] = Absent
      /\ doomed' = doomed \cup {i \in Inst : \E n \in Names : servers[n] = i}
      /\ UNCHANGED <<owner, node, made>>
  BY DEF CloseAll
<1>2. \A i \in doomed' \ doomed : node[i] = "up" /\ i <= made
  BY <1>1, NodesTyped DEF Waits, Mapped
<1>3. Mapped'
  BY <1>1, <1>2 DEF Waits, Mapped
<1>4. \A i \in doomed' : i \notin doomed => node[i] = "up"
  BY <1>2
<1>5. NobodyWaitsInVain'
  BY <1>1, <1>4 DEF Waits, NobodyWaitsInVain
<1>. QED BY <1>3, <1>5 DEF Waits

LEMMA CloseStepWaits ==
    ASSUME IInv, Waits, op' = op, NEW i \in Inst, CloseOneBegins(i) \/ CloseOneEnds(i)
    PROVE  Waits'
<1>1. i \in doomed /\ UNCHANGED <<servers, owner, made>>
  BY DEF CloseOneBegins, CloseOneEnds
<1>2. \A n \in Names : servers[n] # i
  BY <1>1 DEF Waits, Mapped
<1>3. op.at \in {"wait", "giveup", "abandon"} => op.inst # i
  BY <1>1 DEF Waits, NobodyWaitsInVain
<1>4. \/ /\ node' = [node EXCEPT ![i] = "closing"] /\ doomed' = doomed
         /\ \A j \in doomed : node[j] = "up"
      \/ /\ node' \in {node, [node EXCEPT ![i] = "overdue"]} /\ doomed' = doomed \ {i}
  BY DEF CloseOneBegins, CloseOneEnds, WaitEnds
<1>5. \A j \in Inst : j # i => node'[j] = node[j]
  BY <1>4, NodesTyped
<1>6. Mapped'
  <2>1. doomed' \subseteq doomed
    BY <1>4
  <2>2. \A n \in Names : servers[n] # Absent => servers[n] \in Inst /\ node'[servers[n]] = node[servers[n]]
    BY <1>2, <1>5, NodesTyped
  <2>. QED BY <1>1, <2>1, <2>2 DEF Waits, Mapped
<1>7. NobodyWaitsInVain'
  <2>1. CASE /\ node' = [node EXCEPT ![i] = "closing"] /\ doomed' = doomed
             /\ \A j \in doomed : node[j] = "up"
    <3>1. node'[i] = "closing" /\ \A j \in doomed : j # i => node'[j] = "up"
      BY <2>1, <1>5, NodesTyped
    <3>2. op.at \in {"wait", "giveup", "abandon"} /\ op.inst # Absent => node'[op.inst] = node[op.inst]
      BY <1>3, <1>5, NodesTyped
    <3>. QED BY <2>1, <3>1, <3>2 DEF Waits, NobodyWaitsInVain
  <2>2. CASE doomed' = doomed \ {i}
    <3>1. \A j \in doomed' : j \in doomed /\ node'[j] = node[j]
      BY <2>2, <1>5, NodesTyped
    <3>2. op.at \in {"wait", "giveup", "abandon"} /\ op.inst # Absent => node'[op.inst] = node[op.inst]
      BY <1>3, <1>5, NodesTyped
    <3>. QED BY <2>2, <3>1, <3>2 DEF Waits, NobodyWaitsInVain
  <2>. QED BY <1>4, <2>1, <2>2
<1>. QED BY <1>6, <1>7 DEF Waits

\* A Close goroutine's call returns: the node is closed, whoever waits.
LEMMA NodeClosesWaits ==
    ASSUME IInv, Waits, op' = op, NEW i \in Inst, NodeCloses(i)
    PROVE  Waits'
<1>1. /\ node[i] \in {"closing", "overdue"} /\ node'[i] = "closed"
      /\ \A j \in Inst : j # i => node'[j] = node[j]
      /\ UNCHANGED <<servers, owner, made, doomed>>
  BY NodesTyped DEF NodeCloses
<1>2. \A n \in Names : servers[n] # i
  BY <1>1 DEF Waits, Mapped
<1>3. Mapped'
  BY <1>1, <1>2, NodesTyped DEF Waits, Mapped
<1>4. \A j \in doomed : /\ node'[j] \in {"up", "closing", "closed"}
                        /\ node[j] = "up" => node'[j] = "up"
  BY <1>1, NodesTyped DEF Waits, NobodyWaitsInVain
<1>5. op.at \in {"wait", "giveup", "abandon"} /\ op.inst # Absent => node'[op.inst] \in {"closing", "closed"}
  BY <1>1, NodesTyped DEF Waits, NobodyWaitsInVain
<1>6. NobodyWaitsInVain'
  BY <1>1, <1>4, <1>5 DEF Waits, NobodyWaitsInVain
<1>. QED BY <1>3, <1>6 DEF Waits

LEMMA WaitsStep == IInv /\ Waits /\ [Next]_vars => Waits'
<1>. SUFFICES ASSUME IInv, Waits, [Next]_vars PROVE Waits'
  OBVIOUS
<1>1. CASE \/ StartWatch \/ StartMetrics \/ ExitFailed \/ ReloadReturns \/ WatcherGone
           \/ Signal \/ Exit \/ UNCHANGED vars
           \/ \E new \in Configs : Receive(new)
  <2>1. ASSUME \/ StartWatch \/ StartMetrics \/ ExitFailed \/ ReloadReturns \/ WatcherGone
               \/ \E new \in Configs : Receive(new)
        PROVE  UNCHANGED <<tsVars, op>>
    BY <2>1 DEF StartWatch, StartMetrics, ExitFailed, ReloadReturns, WatcherGone, Receive,
          tsVars, regVars
  <2>2. ASSUME Signal \/ Exit \/ UNCHANGED vars
        PROVE  UNCHANGED <<tsVars, op>>
    BY <2>2 DEF Signal, Exit, vars, tsVars, regVars
  <2>3. UNCHANGED <<tsVars, op>>
    BY <1>1, <2>1, <2>2
  <2>. QED BY <2>3, SameNodes
<1>2. CASE CallStartServices \/ Started \/ CallShutdown \/ ServicesStopped
  <2>1. UNCHANGED tsVars
    BY <1>2 DEF CallStartServices, StartServices, Started, StartReturns, CallShutdown, Shutdown,
          ServicesStopped, ShutdownReturns
  <2>2. \/ op' = Idle \/ op' = Begun("start", "each", None, None, Absent)
        \/ op' = Begun("shutdown", "each", None, None, Absent)
    BY <1>2 DEF CallStartServices, StartServices, Started, StartReturns, CallShutdown, Shutdown,
          ServicesStopped, ShutdownReturns, Enter, Return
  <2>. QED BY <2>1, <2>2, SameNodes DEF Idle, Begun
<1>3. ASSUME NEW n \in Names, ReloadCalls(n) \/ ReloadRefused(n)
      PROVE  Waits'
  <2>1. RemoveService(n) \/ AddService(n, pending[n]) \/ UpdateService(n, pending[n]) \/ Refuse
    BY <1>3 DEF ReloadCalls, ReloadRefused, RemoveRefused, AddRefused, UpdateRefused
  <2>2. /\ UNCHANGED tsVars
        /\ \/ op' = Begun("remove", "stop", n, None, services[n])
           \/ op' = Begun("add", "listen", n, pending[n], Absent)
           \/ op' = Begun("update", "stop", n, pending[n], services[n])
           \/ op' = op
    BY <2>1 DEF RemoveService, AddService, UpdateService, Refuse, Enter
  <2>. QED BY <2>2, SameNodes DEF Begun
<1>4. CASE CloseNodes \/ CloseStep
  BY <1>4, CloseAllWaits, CloseStepWaits DEF CloseNodes, CloseStep, regVars
<1>5. CASE Working
  <2>1. CASE Stopped \/ HandlerFails
    <3>1. UNCHANGED tsVars /\ op'.at \in {"close", "discard"}
      BY <2>1, Proceeds DEF Stopped, HandlerFails, At
    <3>. QED BY <3>1, SameNodes
  <2>2. CASE NotStopped \/ Serves
    <3>1. UNCHANGED tsVars /\ op'.at \in {"idle", "each"}
      BY <2>2, Ends DEF NotStopped, Serves
    <3>. QED BY <3>1, SameNodes
  <2>3. CASE \E n \in Names : StartNext(n) \/ ShutdownStops(n)
    <3>1. UNCHANGED tsVars /\ op'.at \in {"listen", "each"}
      BY <2>3 DEF StartNext, ShutdownStops, At, IInv, TypeOK, RegTypeOK, Ops
    <3>. QED BY <3>1, SameNodes
  <2>4. CASE CloseNode
    BY <2>4, CloseNodeWaits
  <2>5. CASE Removed \/ OldClosed \/ GaveUp
    BY <2>5, WaitedWaits
  <2>6. CASE Listening \/ NotAuthorized \/ NotListening
    BY <2>6, NewNodeWaits
  <2>7. CASE Abandoned
    <3>1. UNCHANGED tsVars /\ op'.at \in {"idle", "each"}
      BY <2>7, Ends DEF Abandoned, ListenFailed
    <3>. QED BY <3>1, SameNodes
  <2>. QED BY <1>5, <2>1, <2>2, <2>3, <2>4, <2>5, <2>6, <2>7 DEF Working, InnerStep
<1>6. ASSUME NEW i \in Inst, NodeClosed(i) \/ ServeFails(i)
      PROVE  Waits'
  <2>1. CASE NodeClosed(i)
    BY <2>1, NodeClosesWaits DEF NodeClosed, regVars
  <2>2. CASE ServeFails(i)
    BY <2>2, SameNodes DEF ServeFails
  <2>. QED BY <1>6, <2>1, <2>2
<1>. QED BY <1>1, <1>2, <1>3, <1>4, <1>5, <1>6 DEF Next, Starter, Watcher, Reload, Closer, Elsewhere

\* Listen, CloseService and Close (tailscale.go) never close the same node: the wait of
\* closeServerWithTimeout ends for every caller with its own node's Close or its own timer,
\* and that of a failed Listen, which has no timer, with its own node's Close, though Close
\* runs while a reload holds r.mu.
THEOREM OneWaiterForEachNode == Safety => []NobodyWaitsInVain
<1>1. Init => Waits
  BY IdleIsOp DEF Init, RegInit, TsInit, Waits, Mapped, NobodyWaitsInVain
<1>2. Waits => NobodyWaitsInVain
  BY DEF Waits
<1>. QED BY <1>1, <1>2, WaitsStep, Invariant, PTL DEF Safety

-----------------------------------------------------------------------------
(* r.mu: how long an operation can hold it, and where for ever. *)

\* The steps of one stop, CloseService and startService still ahead.
StepsOfThis ==
    CASE op.at = "stop" -> 8
      [] op.at = "close" -> 7
      [] op.at = "wait" -> 6
      [] op.at = "listen" -> 5
      [] op.at = "handler" -> 4
      [] op.at = "discard" -> 3
      [] op.at \in {"giveup", "abandon"} -> 2
      [] OTHER -> 0

\* StartServices has six for each service it has not come to, which are enough for Shutdown.
StepsLeft ==
    (IF op.kind \in {"start", "shutdown"} THEN 6 * Cardinality(todo) ELSE 0) + StepsOfThis

\* Nothing anyone else does gives the operation that holds r.mu more to do, and each of its
\* own steps brings its return nearer.
EachStepIsNearer ==
    [][op # Idle => StepsLeft' <= StepsLeft /\ (Working => StepsLeft' < StepsLeft)]_vars

\* With no step left it is StartServices or Shutdown, about to return.
SpentIsDone == op # Idle /\ StepsLeft = 0 => At({"start", "shutdown"}, "each") /\ todo = {}

\* Its waits for a node: that of CloseService may end now, by its timer if not by the node's
\* Close; that of a failed Listen only if the Close has returned.
WaitsMayEnd ==
    /\ op.at \in {"wait", "giveup"} /\ op.inst # Absent => node[op.inst] \in {"closing", "closed"}
    /\ op.at = "abandon" /\ ~Hung => op.inst # Absent /\ node[op.inst] = "closed"

\* A failed Listen whose node hangs in Close keeps r.mu, whatever the others do meanwhile.
HungKeepsTheLock == [][Hung => op' = op]_vars

LEMMA TodoCounted ==
    ASSUME IInv
    PROVE  /\ IsFiniteSet(todo) /\ Cardinality(todo) \in Nat
           /\ Cardinality(todo) = 0 => todo = {}
           /\ \A n \in todo : Cardinality(todo \ {n}) = Cardinality(todo) - 1
<1>1. IsFiniteSet(todo)
  BY FS_Subset DEF IInv, TypeOK, RegTypeOK
<1>. QED BY <1>1, FS_CardinalityType, FS_EmptySet, FS_RemoveElement

LEMMA StepsAreNat ==
    ASSUME IInv
    PROVE  StepsOfThis \in 0 .. 8 /\ StepsLeft \in Nat /\ StepsOfThis <= StepsLeft
BY TodoCounted DEF StepsOfThis, StepsLeft

LEMMA WorkingIsNearer ==
    ASSUME IInv, InnerStep
    PROVE  StepsLeft' < StepsLeft
<1>1. CASE Stopped \/ CloseNode \/ OldClosed \/ Listening \/ NotListening \/ HandlerFails
  <2>1. op'.kind = op.kind /\ UNCHANGED todo /\ StepsOfThis' < StepsOfThis
    BY <1>1, Proceeds DEF StepsOfThis
  <2>. QED BY <2>1, TodoCounted, StepsAreNat DEF StepsLeft, StepsOfThis
<1>2. CASE NotStopped \/ Removed \/ NotAuthorized \/ Abandoned \/ Serves \/ GaveUp
  <2>1. /\ StepsOfThis' = 0 /\ StepsOfThis \in 2 .. 8 /\ UNCHANGED todo
        /\ op'.kind = "start" <=> op.kind = "start"
        /\ op.kind # "shutdown" /\ op'.kind # "shutdown"
    BY <1>2, Ends DEF StepsOfThis
  <2>. QED BY <2>1, TodoCounted DEF StepsLeft
<1>3. ASSUME NEW n \in Names, StartNext(n) \/ ShutdownStops(n)
      PROVE  StepsLeft' < StepsLeft
  <2>1. /\ n \in todo /\ todo' = todo \ {n} /\ op.at = "each"
        /\ op.kind \in {"start", "shutdown"} /\ op'.kind = op.kind
        /\ op'.at \in {"each", "listen"}
    BY <1>3 DEF StartNext, ShutdownStops, At, IInv, TypeOK, RegTypeOK, Ops
  <2>2. StepsOfThis = 0 /\ StepsOfThis' \in {0, 5}
    BY <2>1 DEF StepsOfThis
  <2>3. Cardinality(todo') = Cardinality(todo) - 1 /\ Cardinality(todo) \in Nat
    BY <2>1, TodoCounted
  <2>. QED BY <2>1, <2>2, <2>3 DEF StepsLeft
<1>. QED BY <1>1, <1>2, <1>3 DEF InnerStep

LEMMA LockStep ==
    IInv /\ [Next]_vars /\ op # Idle => StepsLeft' <= StepsLeft /\ (Working => StepsLeft' < StepsLeft)
<1>. SUFFICES ASSUME IInv, [Next]_vars, op # Idle
              PROVE  StepsLeft' <= StepsLeft /\ (Working => StepsLeft' < StepsLeft)
  OBVIOUS
<1>1. Working => StepsLeft' < StepsLeft
  BY WorkingIsNearer DEF Working
<1>2. StepsLeft \in Nat
  BY StepsAreNat
<1>3. CASE Working
  <2>1. IsFiniteSet(todo') /\ Cardinality(todo') \in Nat
    <3>1. todo' \subseteq Names
      BY NextIInv DEF IInv, TypeOK, RegTypeOK
    <3>. QED BY <3>1, FS_Subset, FS_CardinalityType
  <2>2. StepsLeft' \in Int
    BY <2>1 DEF StepsLeft, StepsOfThis
  <2>. QED BY <1>1, <1>2, <1>3, <2>2
<1>4. CASE UNCHANGED <<op, todo>>
  BY <1>1, <1>2, <1>4 DEF StepsLeft, StepsOfThis
<1>5. CASE Started \/ ServicesStopped
  <2>1. op' = Idle
    BY <1>5 DEF Started, ServicesStopped, StartReturns, ShutdownReturns, Return
  <2>2. StepsLeft' = 0
    BY <2>1, IdleIsOp DEF StepsLeft, StepsOfThis
  <2>. QED BY <1>1, <1>2, <2>2
<1>6. Working \/ Started \/ ServicesStopped \/ UNCHANGED <<op, todo>>
  <2>1. ASSUME \/ StartWatch \/ StartMetrics \/ ExitFailed \/ ReloadReturns \/ WatcherGone
               \/ \E new \in Configs : Receive(new)
        PROVE  UNCHANGED <<op, todo>>
    BY <2>1 DEF StartWatch, StartMetrics, ExitFailed, ReloadReturns, WatcherGone, Receive, regVars
  <2>2. ASSUME Signal \/ Exit \/ CloseNodes \/ CloseStep \/ Elsewhere \/ UNCHANGED vars
        PROVE  UNCHANGED <<op, todo>>
    BY <2>2 DEF Signal, Exit, CloseNodes, CloseStep, Elsewhere, NodeClosed, ServeFails, vars, regVars
  <2>3. ~CallStartServices /\ ~CallShutdown
    BY DEF CallStartServices, StartServices, CallShutdown, Shutdown, Enter
  <2>4. ASSUME NEW n \in Names
        PROVE  ~ReloadCalls(n) /\ ~ReloadRefused(n)
    BY DEF ReloadCalls, ReloadRefused, RemoveService, AddService, UpdateService, RemoveRefused,
       AddRefused, UpdateRefused, Refuse, Enter
  <2>. QED BY <2>1, <2>2, <2>3, <2>4 DEF Next, Starter, Watcher, Reload, Closer
<1>. QED BY <1>3, <1>4, <1>5, <1>6

LEMMA HungStep == [Next]_vars => (Hung => op' = op)
<1>. SUFFICES ASSUME [Next]_vars, op.at = "abandon", node[op.inst] = "closing" PROVE op' = op
  BY DEF Hung
<1>1. ~Working
  BY DEF Working, InnerStep, Stopped, NotStopped, CloseNode, Removed, OldClosed, Listening,
     NotAuthorized, NotListening, Abandoned, ListenFailed, HandlerFails, Serves, GaveUp, StartNext,
     ShutdownStops, At
<1>2. /\ ~CallStartServices /\ ~Started /\ ~CallShutdown /\ ~ServicesStopped
      /\ \A n \in Names : ~ReloadCalls(n) /\ ~ReloadRefused(n)
  <2>1. op # Idle
    BY DEF Idle, Begun
  <2>. QED BY <2>1 DEF CallStartServices, StartServices, CallShutdown, Shutdown, Enter, Started,
              StartReturns, ServicesStopped, ShutdownReturns, At, ReloadCalls, ReloadRefused,
              RemoveService, AddService, UpdateService, RemoveRefused, AddRefused, UpdateRefused,
              Refuse
<1>3. ASSUME \/ StartWatch \/ StartMetrics \/ ExitFailed \/ ReloadReturns \/ WatcherGone
             \/ \E new \in Configs : Receive(new)
      PROVE  op' = op
  BY <1>3 DEF StartWatch, StartMetrics, ExitFailed, ReloadReturns, WatcherGone, Receive, regVars
<1>4. ASSUME Signal \/ Exit \/ CloseNodes \/ CloseStep \/ Elsewhere \/ UNCHANGED vars
      PROVE  op' = op
  BY <1>4 DEF Signal, Exit, CloseNodes, CloseStep, Elsewhere, NodeClosed, ServeFails, vars, regVars
<1>. QED BY <1>1, <1>2, <1>3, <1>4 DEF Next, Starter, Watcher, Reload, Closer

\* r.mu (service.go) is held for a number of steps fixed by what StartServices or Shutdown
\* has still to deal with: each step of its holder lowers that number, no other goroutine
\* raises it, and at none the holder returns.  Of the waits on the way, CloseService's end by
\* their timer; but the Close a failed Listen calls (tailscale.go:112, :123) has none, and
\* while it hangs the lock is not given back, by nobody's step.
THEOREM OnlyAHungListenKeepsTheLock ==
    Safety => EachStepIsNearer /\ []SpentIsDone /\ []WaitsMayEnd /\ HungKeepsTheLock
<1>1. ASSUME IInv
      PROVE  SpentIsDone
  <2>1. SUFFICES ASSUME op # Idle, StepsLeft = 0
                 PROVE  At({"start", "shutdown"}, "each") /\ todo = {}
    BY DEF SpentIsDone
  <2>2. StepsOfThis = 0
    BY <1>1, <2>1, StepsAreNat
  <2>3. op.at \in {"idle", "each"}
    BY <1>1, <2>2, OpTyped DEF StepsOfThis, Steps, IInv
  <2>4. op.kind \in {"start", "shutdown"} /\ op.at = "each"
    BY <1>1, <2>1, <2>3, OpTyped DEF IInv, InHand, Starting, Replacing, Kinds
  <2>5. Cardinality(todo) = 0
    BY <1>1, <2>1, <2>2, <2>4, TodoCounted DEF StepsLeft
  <2>. QED BY <1>1, <2>4, <2>5, TodoCounted DEF At
<1>2. IInv /\ NobodyWaitsInVain => WaitsMayEnd
  BY DEF IInv, InHand, NobodyWaitsInVain, WaitsMayEnd, Hung
<1>. QED BY <1>1, <1>2, LockStep, HungStep, OneWaiterForEachNode, Invariant, PTL
         DEF Safety, EachStepIsNearer, HungKeepsTheLock
=============================================================================
