------------------------------- MODULE Health -------------------------------
(***************************************************************************)
(* One virtual service with its reals and their checkers: the goroutines   *)
(* of internal/core/{checker,real,service} and the balancer's updater.     *)
(*                                                                         *)
(* A checker's goroutine carries its result through the real, the service, *)
(* the balancer's event registry and the announce decision.  It holds its  *)
(* own stateMu all the way, but the mutexes of the real and of the service *)
(* only for their own section, and none for the announce decision: the     *)
(* goroutines of two checkers interleave between the sections.  A reload   *)
(* runs next to them; so does the balancer's updater, which takes what was *)
(* registered to the load balancer and to the announcer.                   *)
(*                                                                         *)
(* The state of the checker and the section of the real are one step: the  *)
(* checker's state is not visible to anybody before its stateMu is free.   *)
(***************************************************************************)
EXTENDS VirtualService, FiniteSets, Functions

CONSTANTS
    RealKeys,        \* key.Real: the reals any configuration names
    CheckerKeys,     \* checker.Key: the checkers any configuration names
    RealOf,          \* the real a checker belongs to
    CheckerConfig,   \* retries, dynamic and coeff of each checker
    Reported,        \* the weights a dynamic check may report
    Configs,         \* the configurations of the service
    Reloader,        \* the goroutine that reloads or stops the service
    NoReal,
    BalancerFails    \* whether requests to the load balancer may fail

ASSUME HealthAssumption ==
    /\ RealOf \in [CheckerKeys -> RealKeys]
    /\ Reloader \notin CheckerKeys
    /\ NoReal \notin RealKeys
    /\ Reported \subseteq Weights
    /\ BalancerFails \in BOOLEAN
    /\ \A cfg \in Configs :
          /\ cfg.reals \subseteq RealKeys /\ cfg.checkers \subseteq CheckerKeys
          /\ \A r \in RealKeys : cfg.weight[r] \in Weights /\ cfg.inhibit[r] \in BOOLEAN
    /\ \A c \in CheckerKeys :
          /\ CheckerConfig[c].retries \in Nat /\ CheckerConfig[c].coeff \in Nat
          /\ CheckerConfig[c].dynamic \in BOOLEAN
    /\ NoEvent \notin HandlerEvent

ASSUME FiniteKeys == IsFiniteSet(RealKeys) /\ IsFiniteSet(CheckerKeys)

VARIABLES
    checker,        \* Checker.state
    snapshot,       \* the state a running check was started from
    stopping,       \* Checker.shutdown is signalled
    pc,             \* where the goroutine of a checker, or the reloader, is
    event,          \* the event a checker's goroutine carries
    seen,           \* the quorum state a goroutine has read
    real,           \* Real.state
    life,           \* absent, waiting for its activation, active or stopping
    realConfig,     \* Real.config
    checkers,       \* Real.checkers
    reload,         \* the progress of Real.reload or Real.Stop
    runStuck,       \* the Run of a stopped real waits on the nil channel of its pool
    service,        \* Service.state
    config,         \* Service.config
    target,         \* the progress of Service.Reload or Service.Stop
    pending,        \* Balancer.events
    balancer,       \* external: the reals of the load balancer
    serviceEvent,   \* Announcer.serviceEventRegistry, for this service
    updaterPc,      \* where the balancer's updater is
    announceEvent,  \* the updater's local announceEvents, for this service
    told            \* the status of the service the announcer was given last

checkerVars == <<checker, snapshot, stopping, event>>
realVars == <<real, life, realConfig, checkers, reload, runStuck>>
serviceVars == <<service, config, target>>
updaterVars == <<balancer, updaterPc, announceEvent, told>>
vars == <<checker, snapshot, stopping, pc, event, seen, real, life, realConfig,
          checkers, reload, runStuck, service, config, target, pending, balancer,
          serviceEvent, updaterPc, announceEvent, told>>

Threads == CheckerKeys \cup {Reloader}

RealConfigOf(cfg, r) ==
    [weight |-> cfg.weight[r], inhibit |-> cfg.inhibit[r],
     checkers |-> {c \in cfg.checkers : RealOf[c] = r}]

NoSnapshot == [weight |-> 0, force |-> FALSE]
IdleReload == [pc |-> "idle", todo |-> {}, old |-> {}]
NoTarget(cfg) == [config |-> cfg, todo |-> {}, old |-> {}, current |-> NoReal]

-----------------------------------------------------------------------------
(* service.New and Run: the initial reload with the service's own config.   *)
Init ==
    /\ checker = [c \in CheckerKeys |-> NewChecker(0)]
    /\ snapshot = [c \in CheckerKeys |-> NoSnapshot]
    /\ stopping = [c \in CheckerKeys |-> FALSE]
    /\ pc = [t \in Threads |-> IF t = Reloader THEN "reals" ELSE "off"]
    /\ event = [c \in CheckerKeys |-> NoEvent]
    /\ seen = [t \in Threads |-> QuorumHold]
    /\ real = [r \in RealKeys |-> NewReal]
    /\ life = [r \in RealKeys |-> "absent"]
    /\ config \in Configs
    /\ realConfig = [r \in RealKeys |-> RealConfigOf(config, r)]
    /\ checkers = [r \in RealKeys |-> {}]
    /\ reload = [r \in RealKeys |-> IdleReload]
    /\ runStuck = FALSE
    /\ service = [alive |-> FALSE, weight |-> 0, realsAlive |-> 0]
    /\ target = [NoTarget(config) EXCEPT !.todo = config.reals]
    /\ pending = EmptyRegistry(RealKeys)
    /\ balancer = [r \in RealKeys |-> Status(FALSE, 0)]
    /\ serviceEvent = NoEvent
    /\ updaterPc = "idle"
    /\ announceEvent = NoEvent
    /\ told = ServiceDisabled

-----------------------------------------------------------------------------
(* The goroutine of a checker. *)

(* The scheduler starts the job: a snapshot of the state, then check.Do.    *)
StartCheck(c) ==
    /\ pc[c] = "wait"
    /\ ~stopping[c]
    /\ snapshot' = [snapshot EXCEPT
            ![c] = [weight |-> checker[c].weight, force |-> checker[c].manualChanged]]
    /\ pc' = [pc EXCEPT ![c] = "check"]
    /\ UNCHANGED <<checker, stopping, event, seen, realVars, serviceVars,
                   pending, serviceEvent, updaterVars>>

(* ProcessCheck up to the end of the real's section.                        *)
Deliver(c, result, idle) ==
    LET r == RealOf[c]
        handled == HandleEvent(real[r], realConfig[r], result.event)
    IN  /\ checker' = [checker EXCEPT ![c] = result.checker]
        /\ snapshot' = [snapshot EXCEPT ![c] = NoSnapshot]
        /\ IF result.event = NoEvent
           THEN /\ pc' = [pc EXCEPT ![c] = idle]
                /\ UNCHANGED <<real, event>>
           ELSE /\ real' = [real EXCEPT ![r] = handled.real]
                /\ event' = [event EXCEPT ![c] = handled.event]
                /\ pc' = [pc EXCEPT ![c] =
                            IF handled.event = NoEvent THEN idle ELSE "service"]
        /\ UNCHANGED <<seen, life, realConfig, checkers, reload, runStuck, serviceVars,
                       pending, serviceEvent, updaterVars>>

CheckSucceeds(c, weight) ==
    /\ pc[c] = "check"
    /\ weight \in IF CheckerConfig[c].dynamic THEN Reported
                  ELSE {snapshot[c].weight}
    /\ Deliver(c, ProcessSucceed(checker[c], CheckerConfig[c], weight,
                                 snapshot[c].force), "wait")
    /\ UNCHANGED stopping

(* A check that shutdown interrupts fails too. *)
CheckFails(c) ==
    /\ pc[c] = "check"
    /\ Deliver(c, ProcessFail(checker[c], CheckerConfig[c]), "wait")
    /\ UNCHANGED stopping

(* Run returns: the shutdown event. *)
Shutdown(c) ==
    /\ pc[c] = "wait"
    /\ stopping[c]
    /\ Deliver(c, ProcessShutdown(checker[c]), "off")
    /\ UNCHANGED stopping

(* Service.processEvent, under the service's stateMu. *)
ProcessEvent(c) ==
    /\ pc[c] = "service"
    /\ service' = [service EXCEPT !.weight = @ + WeightDelta(event[c]),
                                  !.realsAlive = @ + AliveDelta(event[c])]
    /\ pc' = [pc EXCEPT ![c] = "balancer"]
    /\ UNCHANGED <<checkerVars, seen, realVars, config, target, pending,
                   serviceEvent, updaterVars>>

(* Balancer.HandleEvent. *)
StoreEvent(c) ==
    /\ pc[c] = "balancer"
    /\ pending' = [pending EXCEPT ![RealOf[c]] =
                      Stored(@, event[c], XEventMerge(@, event[c]))]
    /\ pc' = [pc EXCEPT ![c] = "announce"]
    /\ UNCHANGED <<checkerVars, seen, realVars, serviceVars, serviceEvent,
                   updaterVars>>

-----------------------------------------------------------------------------
(* Service.processAnnounce, by a checker's goroutine or by the reloader.    *)

(* The end of the handler: back to the scheduler, or the end of Run.        *)
Return(t) ==
    /\ pc' = [pc EXCEPT ![t] =
                CASE t = Reloader -> "idle"
                  [] t # Reloader /\ event[t].type = "Shutdown" -> "off"
                  [] OTHER -> "wait"]
    /\ event' = [c \in CheckerKeys |-> IF c = t THEN NoEvent ELSE event[c]]

(* quorumState reads the weight, without the lock. *)
ReadQuorum(t) ==
    /\ pc[t] = "announce"
    /\ seen' = [seen EXCEPT ![t] = QuorumState(service.weight, config.quorum,
                                               config.hysteresis)]
    /\ pc' = [pc EXCEPT ![t] = "apply"]
    /\ UNCHANGED <<checkerVars, realVars, serviceVars, pending, serviceEvent,
                   updaterVars>>

(* enableService and disableService. *)
ApplyQuorum(t) ==
    LET alive == CASE seen[t] = QuorumUp -> TRUE
                   [] seen[t] = QuorumDown -> FALSE
                   [] OTHER -> service.alive
    IN  /\ pc[t] = "apply"
        /\ service' = [service EXCEPT !.alive = alive]
        /\ IF alive # service.alive
           THEN pc' = [pc EXCEPT ![t] = "register"] /\ UNCHANGED event
           ELSE Return(t)
        /\ seen' = [seen EXCEPT ![t] = QuorumHold]
        /\ UNCHANGED <<checker, snapshot, stopping, realVars, config, target,
                       pending, serviceEvent, updaterVars>>

(* RegisterServiceEvent with what state.Alive is by now, if the service has *)
(* an announce group.                                                       *)
Register(t) ==
    /\ pc[t] = "register"
    /\ serviceEvent' =
          IF config.announce
          THEN StoredService(serviceEvent,
                      IF service.alive THEN ServiceEnabled ELSE ServiceDisabled)
          ELSE serviceEvent
    /\ Return(t)
    /\ UNCHANGED <<checker, snapshot, stopping, seen, realVars, serviceVars,
                   pending, updaterVars>>

-----------------------------------------------------------------------------
(* Real.reload and Real.Stop. *)

BeginReload(r, rc) ==
    reload' = [reload EXCEPT ![r] = [pc |-> "checkers", todo |-> rc.checkers,
                                     old |-> checkers[r]]]

(* The activation function returns and Run starts the initial reload.       *)
Activate(r) ==
    /\ life[r] = "waiting"
    /\ life' = [life EXCEPT ![r] = "active"]
    /\ BeginReload(r, realConfig[r])
    /\ UNCHANGED <<checkerVars, pc, seen, real, realConfig, checkers, runStuck,
                   serviceVars, pending, serviceEvent, updaterVars>>

(* The configuration Real.reload is given: its own at the activation, else  *)
(* the one Service.Reload brings.                                           *)
NewConfig(r) ==
    IF target.current = r THEN RealConfigOf(target.config, r) ELSE realConfig[r]

(* A known checker stays.  UpdateWeight waits for the checker's stateMu,    *)
(* that is for the event it carries.                                        *)
KeepChecker(r, c) ==
    /\ reload[r].pc = "checkers"
    /\ c \in reload[r].todo \cap reload[r].old
    /\ IF NewConfig(r).weight # realConfig[r].weight
       THEN /\ pc[c] \in {"wait", "check"}
            /\ checker' = [checker EXCEPT ![c] = UpdateWeight(@, NewConfig(r).weight)]
       ELSE UNCHANGED checker
    /\ reload' = [reload EXCEPT ![r].todo = @ \ {c}, ![r].old = @ \ {c}]
    /\ UNCHANGED <<snapshot, stopping, event, pc, seen, real, life, realConfig,
                   checkers, runStuck, serviceVars, pending, serviceEvent, updaterVars>>

(* A new checker is created and run by the pool.                            *)
AddChecker(r, c) ==
    /\ reload[r].pc = "checkers"
    /\ c \in reload[r].todo \ reload[r].old
    /\ checker' = [checker EXCEPT ![c] = NewChecker(NewConfig(r).weight)]
    /\ pc' = [pc EXCEPT ![c] = "wait"]
    /\ reload' = [reload EXCEPT ![r].todo = @ \ {c}]
    /\ UNCHANGED <<snapshot, stopping, event, seen, real, life, realConfig, checkers,
                   runStuck, serviceVars, pending, serviceEvent, updaterVars>>

(* Faulty variant: Stop waits without signalling the shutdown.              *)
StopCheckerUnsignalled(r, c) ==
    /\ reload[r].pc \in {"checkers", "halting"}
    /\ reload[r].todo = {}
    /\ c \in reload[r].old
    /\ \A d \in reload[r].old : ~stopping[d]
    /\ UNCHANGED vars

(* The checkers left over are stopped one after the other; Stop waits until *)
(* the shutdown event is handled.                                           *)
StopChecker(r, c) ==
    /\ reload[r].pc \in {"checkers", "halting"}
    /\ reload[r].todo = {}
    /\ c \in reload[r].old
    /\ \A d \in reload[r].old : ~stopping[d]
    /\ stopping' = [stopping EXCEPT ![c] = TRUE]
    /\ UNCHANGED <<checker, snapshot, event, pc, seen, realVars, serviceVars,
                   pending, serviceEvent, updaterVars>>

(* Stop returns: the checker is dropped, its object with it.                *)
CheckerStopped(r, c) ==
    /\ reload[r].pc \in {"checkers", "halting"}
    /\ c \in reload[r].old
    /\ stopping[c]
    /\ pc[c] = "off"
    /\ reload' = [reload EXCEPT ![r].old = @ \ {c}]
    /\ checker' = [checker EXCEPT ![c] = NewChecker(0)]
    /\ stopping' = [stopping EXCEPT ![c] = FALSE]
    /\ UNCHANGED <<snapshot, event, pc, seen, real, life, realConfig, checkers,
                   runStuck, serviceVars, pending, serviceEvent, updaterVars>>

SetDynWeight(r) ==
    /\ reload[r].pc = "checkers"
    /\ reload[r].todo = {} /\ reload[r].old = {}
    /\ real' = [real EXCEPT ![r].dynWeight =
                  \E c \in NewConfig(r).checkers : CheckerConfig[c].dynamic]
    /\ reload' = [reload EXCEPT ![r].pc = "saving"]
    /\ UNCHANGED <<checkerVars, pc, seen, life, realConfig, checkers, runStuck,
                   serviceVars, pending, serviceEvent, updaterVars>>

(* Service.Reload goes on with the next real once Real.Reload returns.      *)
Proceed(r) ==
    target' = IF target.current = r
              THEN [target EXCEPT !.current = NoReal, !.todo = @ \ {r}, !.old = @ \ {r}]
              ELSE target

SaveConfig(r) ==
    /\ reload[r].pc = "saving"
    /\ realConfig' = [realConfig EXCEPT ![r] = NewConfig(r)]
    /\ checkers' = [checkers EXCEPT ![r] = NewConfig(r).checkers]
    /\ reload' = [reload EXCEPT ![r] = IdleReload]
    /\ Proceed(r)
    /\ UNCHANGED <<checkerVars, pc, seen, real, life, runStuck, service, config,
                   pending, serviceEvent, updaterVars>>

RealHalted(r) ==
    /\ reload[r].pc = "halting"
    /\ reload[r].old = {}
    /\ life' = [life EXCEPT ![r] = "absent"]
    /\ checkers' = [checkers EXCEPT ![r] = {}]
    /\ reload' = [reload EXCEPT ![r] = IdleReload]
    /\ Proceed(r)
    /\ UNCHANGED <<checkerVars, pc, seen, real, realConfig, runStuck, service, config,
                   pending, serviceEvent, updaterVars>>

-----------------------------------------------------------------------------
(* Service.Reload and Service.Stop, the reloader. *)

Present == {r \in RealKeys : life[r] # "absent"}

ServiceReload(cfg) ==
    /\ pc[Reloader] = "idle"
    /\ target' = [NoTarget(cfg) EXCEPT !.todo = cfg.reals, !.old = Present]
    /\ pc' = [pc EXCEPT ![Reloader] = "reals"]
    /\ UNCHANGED <<checkerVars, seen, realVars, service, config, pending,
                   serviceEvent, updaterVars>>

ServiceStop ==
    /\ pc[Reloader] = "idle"
    /\ target' = [NoTarget(config) EXCEPT !.old = Present]
    /\ pc' = [pc EXCEPT ![Reloader] = "stopping"]
    /\ UNCHANGED <<checkerVars, seen, realVars, service, config, pending,
                   serviceEvent, updaterVars>>

(* One real of the new configuration: known and active, known but not yet   *)
(* active, or new.                                                          *)
ReloadActive(r) ==
    /\ pc[Reloader] = "reals"
    /\ target.current = NoReal
    /\ r \in target.todo
    /\ life[r] = "active" /\ reload[r] = IdleReload
    /\ target' = [target EXCEPT !.current = r]
    /\ BeginReload(r, RealConfigOf(target.config, r))
    /\ UNCHANGED <<checkerVars, pc, seen, real, life, realConfig, checkers, runStuck,
                   service, config, pending, serviceEvent, updaterVars>>

ReloadInactive(r) ==
    /\ pc[Reloader] = "reals"
    /\ target.current = NoReal
    /\ r \in target.todo
    /\ life[r] # "active"
    /\ life' = [life EXCEPT ![r] = "waiting"]
    /\ real' = IF life[r] = "absent" THEN [real EXCEPT ![r] = NewReal] ELSE real
    /\ realConfig' = [realConfig EXCEPT ![r] = RealConfigOf(target.config, r)]
    /\ target' = [target EXCEPT !.todo = @ \ {r}, !.old = @ \ {r}]
    /\ UNCHANGED <<checkerVars, pc, seen, checkers, reload, runStuck, service, config,
                   pending, serviceEvent, updaterVars>>

(* Real.Stop of a real that is left over takes checkersMu alone, so it may   *)
(* meet the real's initial reload.                                          *)
Halt(r) ==
    /\ pc[Reloader] \in {"reals", "stopping"}
    /\ target.current = NoReal
    /\ target.todo = {}
    /\ r \in target.old

(* The checkers the initial reload has handed to the pool.  The map of the  *)
(* real has none of them before its end.                                    *)
Added(r) == IF reload[r].pc = "idle" THEN {} ELSE NewConfig(r).checkers \ reload[r].todo

(* Stop stops the checkers of the map.  A real that still waits for its     *)
(* activation has none and never gets any; an initial reload that has added *)
(* none is aborted.  A Run that has received none may not have reached its  *)
(* loop over the pool, and is then stuck on the channel that Stop set to    *)
(* nil; it does not keep Stop from returning.                               *)
HaltReal(r) ==
    /\ Halt(r)
    /\ Added(r) = {}
    /\ target' = [target EXCEPT !.current = r]
    /\ reload' = [reload EXCEPT ![r] = [pc |-> "halting", todo |-> {}, old |-> checkers[r]]]
    /\ life' = [life EXCEPT ![r] = "stopping"]
    /\ \/ UNCHANGED runStuck
       \/ life[r] = "active" /\ checkers[r] = {} /\ runStuck' = TRUE
    /\ UNCHANGED <<checkerVars, pc, seen, real, realConfig, checkers, service,
                   config, pending, serviceEvent, updaterVars>>

(* Stop does not know the checkers that an unfinished initial reload added: *)
(* it waits for them in checkersPool.Close, and they go on checking until   *)
(* the context of the application is cancelled.  The reload sees the        *)
(* shutdown signal at its next checker, or waits for checkersMu to save.    *)
HaltHangs(r) ==
    /\ Halt(r)
    /\ Added(r) # {}
    /\ reload[r].todo # {} \/ reload[r].pc = "saving"
    /\ pc' = [pc EXCEPT ![Reloader] = "hung"]
    /\ reload' = [reload EXCEPT ![r] = [pc |-> "hung", todo |-> {}, old |-> Added(r)]]
    /\ UNCHANGED <<checkerVars, seen, real, life, realConfig, checkers, runStuck,
                   serviceVars, pending, serviceEvent, updaterVars>>

(* The new configuration is saved; the announce is decided anew.            *)
ReloadDone ==
    /\ pc[Reloader] = "reals"
    /\ target.todo = {} /\ target.old = {}
    /\ config' = target.config
    /\ target' = NoTarget(target.config)
    /\ pc' = [pc EXCEPT ![Reloader] = "announce"]
    /\ UNCHANGED <<checkerVars, seen, realVars, service, pending, serviceEvent,
                   updaterVars>>

(* realsPool.Close waits for the Run of every real.                         *)
StopDone ==
    /\ pc[Reloader] = "stopping"
    /\ target.old = {}
    /\ ~runStuck
    /\ pc' = [pc EXCEPT ![Reloader] = "stopped"]
    /\ UNCHANGED <<checkerVars, seen, realVars, serviceVars, pending,
                   serviceEvent, updaterVars>>

-----------------------------------------------------------------------------
(* Balancer.updateBalancer, on the ticks of the balancer's updater.         *)

FlushServiceEvents ==
    /\ updaterPc = "idle"
    /\ announceEvent' = serviceEvent
    /\ serviceEvent' = NoEvent
    /\ updaterPc' = "process"
    /\ UNCHANGED <<checkerVars, pc, seen, realVars, serviceVars, pending,
                   balancer, told>>

(* Faulty variant: a Disable is taken from the registry, but not requested. *)
ProcessEnables(failed) ==
    /\ updaterPc = "process"
    /\ failed \subseteq Pending(pending)
    /\ failed # {} => BalancerFails
    /\ balancer' = [r \in RealKeys |->
                      IF r \in Pending(pending) \ failed /\ pending[r].new.enable
                      THEN Status(TRUE, Uint32(pending[r].new.weight))
                      ELSE balancer[r]]
    /\ pending' = Processed(pending, Pending(pending) \ failed)
    /\ updaterPc' = "announce"
    /\ UNCHANGED <<checkerVars, pc, seen, realVars, serviceVars, serviceEvent,
                   announceEvent, told>>

(* Process holds the registry's mutex for all requests; an event whose      *)
(* request failed stays.                                                    *)
ProcessEvents(failed) ==
    /\ updaterPc = "process"
    /\ failed \subseteq Pending(pending)
    /\ failed # {} => BalancerFails
    /\ balancer' = [r \in RealKeys |->
                      CASE r \notin Pending(pending) \ failed -> balancer[r]
                        [] r \in Pending(pending) \ failed /\ pending[r].new.enable ->
                               Status(TRUE, Uint32(pending[r].new.weight))
                        [] OTHER -> Status(FALSE, 0)]
    /\ pending' = Processed(pending, Pending(pending) \ failed)
    /\ updaterPc' = "announce"
    /\ UNCHANGED <<checkerVars, pc, seen, realVars, serviceVars, serviceEvent,
                   announceEvent, told>>

(* Announcer.UpdateService *)
UpdateAnnouncer ==
    /\ updaterPc = "announce"
    /\ told' = IF announceEvent = NoEvent THEN told ELSE announceEvent
    /\ announceEvent' = NoEvent
    /\ updaterPc' = "idle"
    /\ UNCHANGED <<checkerVars, pc, seen, realVars, serviceVars, pending,
                   serviceEvent, balancer>>

-----------------------------------------------------------------------------
CheckerNext(c) ==
    \/ StartCheck(c)
    \/ \E w \in Reported \cup {snapshot[c].weight} : CheckSucceeds(c, w)
    \/ CheckFails(c)
    \/ Shutdown(c)
    \/ ProcessEvent(c)
    \/ StoreEvent(c)

AnnounceNext(t) == ReadQuorum(t) \/ ApplyQuorum(t) \/ Register(t)

RealNext(r) ==
    \/ Activate(r)
    \/ \E c \in CheckerKeys : KeepChecker(r, c) \/ AddChecker(r, c)
                              \/ StopChecker(r, c) \/ CheckerStopped(r, c)
    \/ SetDynWeight(r)
    \/ SaveConfig(r)
    \/ RealHalted(r)

ReloadNext ==
    \/ \E r \in RealKeys : ReloadActive(r) \/ ReloadInactive(r) \/ HaltReal(r) \/ HaltHangs(r)
    \/ ReloadDone
    \/ StopDone

UpdaterNext ==
    \/ FlushServiceEvents
    \/ \E failed \in SUBSET RealKeys : ProcessEvents(failed)
    \/ UpdateAnnouncer

Next ==
    \/ \E c \in CheckerKeys : CheckerNext(c)
    \/ \E t \in Threads : AnnounceNext(t)
    \/ \E r \in RealKeys : RealNext(r)
    \/ ReloadNext
    \/ UpdaterNext
    \/ \E cfg \in Configs : ServiceReload(cfg)
    \/ ServiceStop

Spec == Init /\ [][Next]_vars

(* A service that is neither reloaded nor stopped after it was started.     *)
NextRunning ==
    \/ \E c \in CheckerKeys : CheckerNext(c)
    \/ \E t \in Threads : AnnounceNext(t)
    \/ \E r \in RealKeys : RealNext(r)
    \/ ReloadNext
    \/ UpdaterNext

SpecRunning == Init /\ [][NextRunning]_vars

(* Every goroutine keeps running: timers fire, checks end by their timeout, *)
(* reals are activated.  A reload that waits for the stateMu of a checker   *)
(* gets it although checks come and go: Go's mutexes do not starve anybody. *)
(* Only the operator's reloads and the stop need not come.                  *)
FairSpec ==
    /\ Spec
    /\ \A c \in CheckerKeys : WF_vars(CheckerNext(c))
    /\ \A t \in Threads : WF_vars(AnnounceNext(t))
    /\ \A r \in RealKeys : SF_vars(RealNext(r))
    /\ WF_vars(ReloadNext)
    /\ WF_vars(UpdaterNext)

-----------------------------------------------------------------------------
TypeOK ==
    /\ checker \in [CheckerKeys -> [alive : BOOLEAN, weight : Weights,
                                    failedAttempts : Nat, manualChanged : BOOLEAN]]
    /\ snapshot \in [CheckerKeys -> [weight : Weights, force : BOOLEAN]]
    /\ stopping \in [CheckerKeys -> BOOLEAN]
    /\ pc \in [Threads -> {"off", "wait", "check", "service", "balancer", "announce",
                           "apply", "register", "idle", "reals", "stopping", "stopped",
                           "hung"}]
    /\ event \in [CheckerKeys -> HandlerEvent \cup {NoEvent}]
    /\ seen \in [Threads -> {QuorumUp, QuorumDown, QuorumHold}]
    /\ real \in [RealKeys -> [alive : BOOLEAN, weight : Weights,
                              dynWeight : BOOLEAN, inhibited : BOOLEAN]]
    /\ life \in [RealKeys -> {"absent", "waiting", "active", "stopping"}]
    /\ realConfig \in [RealKeys -> [weight : Weights, inhibit : BOOLEAN,
                                    checkers : SUBSET CheckerKeys]]
    /\ checkers \in [RealKeys -> SUBSET CheckerKeys]
    /\ reload \in [RealKeys -> [pc : {"idle", "checkers", "saving", "halting", "hung"},
                                todo : SUBSET CheckerKeys, old : SUBSET CheckerKeys]]
    /\ runStuck \in BOOLEAN
    /\ service \in [alive : BOOLEAN, weight : Int, realsAlive : Int]
    /\ config \in Configs
    /\ target \in [config : Configs, todo : SUBSET RealKeys, old : SUBSET RealKeys,
                   current : RealKeys \cup {NoReal}]
    /\ pending \in [RealKeys -> HandlerEvent \cup {NoEvent}]
    /\ balancer \in [RealKeys -> Statuses]
    /\ serviceEvent \in ServiceStatus \cup {NoEvent}
    /\ updaterPc \in {"idle", "process", "announce"}
    /\ announceEvent \in ServiceStatus \cup {NoEvent}
    /\ told \in ServiceStatus

-----------------------------------------------------------------------------
(* What the reals add to the service, and what the events that have passed  *)
(* a real but not yet the service will change.                              *)
RealWeights == [r \in RealKeys |-> Contribution(real[r])]
RealsCounted == [r \in RealKeys |-> Counted(real[r])]

WeightOnItsWay ==
    [c \in CheckerKeys |-> IF pc[c] = "service" THEN WeightDelta(event[c]) ELSE 0]
CountOnItsWay ==
    [c \in CheckerKeys |-> IF pc[c] = "service" THEN AliveDelta(event[c]) ELSE 0]

(* The weight and the number of alive reals a service keeps by adding and   *)
(* subtracting are those of its reals, once the events between the two are  *)
(* added: no order of events, reloads and shutdowns loses or repeats a      *)
(* contribution (processSucceed and processFailure of service/handler.go).  *)
WeightConserved ==
    /\ service.weight + SumFunction(WeightOnItsWay) = SumFunction(RealWeights)
    /\ service.realsAlive + SumFunction(CountOnItsWay) = SumFunction(RealsCounted)

(* No event of the real is on its way to the balancer's registry.           *)
Delivered(r) ==
    \A c \in CheckerKeys : RealOf[c] = r => pc[c] \notin {"service", "balancer"}

(* What the load balancer will have for a real once the pending event is    *)
(* processed.                                                               *)
LastWord(r) == IF pending[r] = NoEvent THEN balancer[r] ELSE pending[r].new

Agree(word, status) ==
    /\ word.enable = status.enable
    /\ word.enable => Uint32(word.weight) = Uint32(status.weight)

(* "All these changes must be synced with the load balancer"                *)
(* (Service.HandleEvent): the load balancer has, or has pending, the status *)
(* of the real, although Merge drops events that restore the initial one.   *)
BalancerInSync ==
    \A r \in RealKeys : Delivered(r) => Agree(LastWord(r), StatusOfReal(real[r]))

(* Nothing is going on but checks that have not ended.                      *)
Quiet ==
    /\ \A c \in CheckerKeys : pc[c] \in {"off", "wait", "check"}
    /\ \A r \in RealKeys : reload[r] = IdleReload
    /\ pc[Reloader] \in {"idle", "stopped"}

(* A real "maintains its operational state based on the results of those    *)
(* checks" (real.Real): it is alive if all of its checkers are.             *)
RealFollowsCheckers ==
    Quiet => \A r \in RealKeys :
        /\ life[r] = "active"
        /\ checkers[r] # {}
        /\ \A c \in checkers[r] : checker[c].alive
        => real[r].alive

(* Down with all of its checkers, a real is not alive.                      *)
RealDiesWithCheckers ==
    Quiet => \A r \in RealKeys :
        (life[r] = "active" /\ \A c \in checkers[r] : ~checker[c].alive) => ~real[r].alive

(* processAnnounce "updates the service announce status based on the        *)
(* current service state".                                                  *)
AliveIsQuorum ==
    Quiet =>
        CASE QuorumState(service.weight, config.quorum, config.hysteresis) = QuorumUp ->
                 service.alive
          [] QuorumState(service.weight, config.quorum, config.hysteresis) = QuorumDown ->
                 ~service.alive
          [] OTHER -> TRUE

(* A stopped service keeps nothing of its reals: every contribution to its  *)
(* weight and to the number of alive reals was taken back (Service.Stop     *)
(* waits for the shutdown events of all checkers).                          *)
StopDrains ==
    pc[Reloader] = "stopped" => service.weight = 0 /\ service.realsAlive = 0

(* None of its reals stays enabled in the load balancer: the core is        *)
(* stopped before the balancer because "Otherwise, the load balancer state  *)
(* will keep false enabled reals" (app/monalive.go).                        *)
StopDisablesReals ==
    pc[Reloader] = "stopped" => \A r \in RealKeys : ~LastWord(r).enable

(* "Since it is possible that the weight has changed in the configuration,  *)
(* we need to update the checker's weight manually" (Real.reload): a real   *)
(* with a static weight gets the weight of its configuration.  A checker    *)
(* that is still to report its forced result may yet bring it.              *)
WeightFollowsConfig ==
    Quiet => \A r \in RealKeys :
        /\ life[r] = "active" /\ real[r].alive /\ ~real[r].dynWeight
        /\ \A c \in checkers[r] : checker[c].alive /\ ~checker[c].manualChanged
        => real[r].weight = realConfig[r].weight

(* What the announcer will have been told of the service once the recorded  *)
(* event and the one in the updater's hands are processed.                  *)
LastTold ==
    CASE serviceEvent # NoEvent -> serviceEvent
      [] serviceEvent = NoEvent /\ announceEvent # NoEvent -> announceEvent
      [] OTHER -> told

(* The announcer knows, or will be told, whether the service is alive.      *)
(* Fails: when a checker and a reload change the state one after the other  *)
(* before either has recorded it, both record the later state; the next     *)
(* change then cancels a record it should not.                              *)
AnnouncerInSync ==
    config.announce /\ (\A t \in Threads : pc[t] # "register") =>
        LastTold = IF service.alive THEN ServiceEnabled ELSE ServiceDisabled

(* A reload or a stop of the service ends: it waits for checkers that carry *)
(* events, and they never wait for it.  Real.Stop makes the two exceptions: *)
(* it meets the initial reload of the real after a checker was added and    *)
(* hangs, or it comes before Real.Run has reached its loop and returns, but *)
(* the stop of the service then waits for Run.                              *)
ReloadEnds ==
    (pc[Reloader] # "idle") ~> \/ pc[Reloader] \in {"idle", "stopped", "hung"}
                               \/ pc[Reloader] = "stopping" /\ runStuck

(* Without the exceptions.  Fails.                                          *)
ReloadAlwaysEnds == (pc[Reloader] # "idle") ~> (pc[Reloader] \in {"idle", "stopped"})

(* A real that went down is taken out of the load balancer.                 *)
DownIsDisabled ==
    \A r \in RealKeys :
        (balancer[r].enable /\ ~StatusOfReal(real[r]).enable)
            ~> (~balancer[r].enable \/ StatusOfReal(real[r]).enable)

-----------------------------------------------------------------------------
(* The invariants behind the properties of reals and of the load balancer.  *)
(* Some need that the configurations give a real one and the same checker,  *)
(* and that inhibit_on_failure of a real does not change.                   *)
OneChecker == \A c, d \in CheckerKeys : RealOf[c] = RealOf[d] => c = d

SteadyInhibit ==
    \A cfg, other \in Configs : \A r \in RealKeys : cfg.inhibit[r] = other.inhibit[r]

NoInhibit == \A cfg \in Configs : \A r \in RealKeys : ~cfg.inhibit[r]

Own(r) == {c \in CheckerKeys : RealOf[c] = r}

(* A goroutine that has not yet begun, or gone through, its shutdown.       *)
Up(c) == pc[c] # "off" /\ (event[c] = NoEvent \/ event[c].type # "Shutdown")

(* A goroutine has an event exactly while it carries it.                    *)
ThreadInv ==
    /\ \A c \in CheckerKeys :
          \/ pc[c] \in {"off", "wait", "check"} /\ event[c] = NoEvent
          \/ /\ pc[c] \in {"service", "balancer", "announce", "apply", "register"}
             /\ event[c] # NoEvent
             /\ event[c].type = "Shutdown" => stopping[c]
    /\ pc[Reloader] \in {"idle", "reals", "announce", "apply", "register", "stopping",
                         "stopped", "hung"}

(* The checkers that may run: those of the real, or while it is reloaded    *)
(* the old ones that are left and the new ones that were dealt with.        *)
Kept(r) ==
    CASE reload[r].pc = "idle" -> checkers[r]
      [] reload[r].pc \in {"checkers", "saving"} ->
             reload[r].old \cup (NewConfig(r).checkers \ reload[r].todo)
      [] OTHER -> reload[r].old

CheckerFits(c) ==
    /\ pc[c] # "off" => c \in Kept(RealOf[c])
    /\ stopping[c] => /\ reload[RealOf[c]].pc \in {"checkers", "halting"}
                      /\ reload[RealOf[c]].todo = {} /\ c \in reload[RealOf[c]].old

CheckersInv == \A c \in CheckerKeys : CheckerFits(c)

(* How the progress of a real's reload fits the real.                       *)
RealFits(r) ==
    /\ checkers[r] \subseteq Own(r) /\ realConfig[r].checkers \subseteq Own(r)
    /\ reload[r].old \subseteq Own(r) /\ reload[r].todo \subseteq NewConfig(r).checkers
    /\ reload[r].pc # "checkers" => reload[r].todo = {}
    /\ reload[r].pc \in {"idle", "saving"} => reload[r].old = {}
    /\ reload[r].pc \in {"checkers", "saving", "hung"} => life[r] = "active"
    /\ reload[r].pc = "halting" <=> life[r] = "stopping"
    /\ reload[r].pc = "hung" => pc[Reloader] = "hung"
    /\ reload[r].pc \in {"checkers", "saving"} /\ target.current # r =>
          checkers[r] = {} /\ reload[r].old = {}
    /\ life[r] = "stopping" => target.current = r
    /\ life[r] \in {"absent", "waiting"} => checkers[r] = {}

RealInv == \A r \in RealKeys : RealFits(r)

(* How the progress of the service's reload or stop fits its reals.         *)
TargetInv ==
    /\ target.current # NoReal =>
          /\ pc[Reloader] \in {"reals", "stopping"}
          /\ reload[target.current].pc # "idle"
          /\ \/ target.current \in target.todo
             \/ target.current \in target.old /\ life[target.current] = "stopping"
    /\ pc[Reloader] = "stopping" => target.todo = {} /\ Present \subseteq target.old
    /\ pc[Reloader] = "stopped" => Present = {}

StructureInv == TypeOK /\ ThreadInv /\ CheckersInv /\ RealInv /\ TargetInv

(* A real lives by one of its checkers.                                     *)
AliveInv ==
    /\ \A r \in RealKeys : real[r].alive =>
          \E c \in Own(r) : Up(c) /\ checker[c].alive
    /\ \A c \in CheckerKeys : pc[c] = "off" /\ ~stopping[c] => ~checker[c].alive

(* Its only checker and the real agree.                                     *)
OnlyCheckerInv ==
    \A c \in CheckerKeys : Up(c) /\ checker[c].alive => real[RealOf[c]].alive

(* It is inhibited by one of its checkers, and only if it may be.           *)
InhibitInv ==
    \A r \in RealKeys :
        /\ \A cfg \in Configs : realConfig[r].inhibit = cfg.inhibit[r]
        /\ real[r].inhibited => realConfig[r].inhibit /\ \E c \in Own(r) : Up(c)

(* An event goes from what the load balancer will have to what the real is; *)
(* a pending event starts at what the load balancer has.                    *)
SyncInv ==
    /\ \A r \in RealKeys : pending[r] # NoEvent => Agree(balancer[r], pending[r].init)
    /\ \A c \in CheckerKeys : pc[c] \in {"service", "balancer"} =>
          /\ Agree(LastWord(RealOf[c]), event[c].init)
          /\ Agree(event[c].new, StatusOfReal(real[RealOf[c]]))
    /\ BalancerInSync

HealthInv ==
    /\ StructureInv /\ AliveInv
    /\ OneChecker => OnlyCheckerInv
    /\ SteadyInhibit => InhibitInv
    /\ OneChecker /\ SteadyInhibit => SyncInv
=============================================================================
