----------------------------- MODULE Lifecycle -----------------------------
(***************************************************************************)
(* The life of the services: internal/core (Manager.Reload, Core.Reload,   *)
(* Core.Stop), the worker pool that runs them, the shutdown signal, and    *)
(* the order in which internal/app starts and stops all that.              *)
(*                                                                         *)
(* A service is a worker of the core's pool and has a pool of its own, for *)
(* its reals.  Of the latter only this matters here: whether Run has       *)
(* reached its loop over the pool, how far the initial reload that Run     *)
(* starts in a goroutine of its own has come, and whether a real is still  *)
(* starting, which has a pool and an initial reload just like that (Health *)
(* has the reals in detail).                                               *)
(***************************************************************************)
EXTENDS Naturals, Sequences, FiniteSets

CONSTANTS
    Key,          \* keys of services
    Child,        \* service objects
    Main, Rpc,    \* the reload at startup; the goroutines of reload requests
    Version,      \* what the settings of a service may be
    Files,        \* what the configuration file may hold
    NoChild, Free, Stopper

ASSUME LifecycleAssumption ==
    /\ NoChild \notin Child /\ Main \notin Rpc
    /\ {Free, Stopper} \cap (Rpc \cup {Main}) = {} /\ Free # Stopper
    /\ Key # {} /\ Version # {}
    /\ Files \subseteq Seq([key : Key, version : Version])

VARIABLES
    pc, config, done,  \* per request: where it is, what it loaded, entries processed
    mu,           \* who holds servicesMu
    services, newServices,
    keyOf, version, snapshot,  \* per service: key, config, and the config that
                               \* the initial reload will apply
    run,          \* per service: the progress of Run
    initial,      \* per service: the progress of the initial reload
    reals,        \* per service: all reals that run are settled, one is starting,
                  \* or one that was stopped too early will never end
    stopped,      \* per service: its Stop has closed its pool
    open,         \* the core's pool: its channel is open (and not nil)
    poolRun,      \* the core's pool: the progress of Run
    shutdown, stopPc,
    applied,      \* history: the config of the last reload that was completed
    raced         \* history: two operations met in a window the code leaves open

requestVars == <<pc, config, done>>
serviceVars == <<keyOf, version, snapshot, run, initial, reals, stopped>>
poolVars == <<open, poolRun>>
stopVars == <<shutdown, stopPc>>
vars == <<requestVars, mu, services, newServices, serviceVars, poolVars,
          stopVars, applied, raced>>

Request == Rpc \cup {Main}
Keys(cfg) == {cfg[i].key : i \in DOMAIN cfg}
AnyKey == CHOOSE k \in Key : TRUE
AnyVersion == CHOOSE v \in Version : TRUE
NoServices == [k \in Key |-> NoChild]

Init ==
    /\ pc = [r \in Request |-> IF r = Main THEN "load" ELSE "idle"]
    /\ config = [r \in Request |-> <<>>]
    /\ done = [r \in Request |-> 0]
    /\ mu = Free
    /\ services = NoServices /\ newServices = NoServices
    /\ keyOf = [c \in Child |-> AnyKey]
    /\ version = [c \in Child |-> AnyVersion] /\ snapshot = version
    /\ run = [c \in Child |-> "unused"]
    /\ initial = [c \in Child |-> "none"]
    /\ reals = [c \in Child |-> "settled"]
    /\ stopped = [c \in Child |-> FALSE]
    /\ open = TRUE /\ poolRun = "none"
    /\ shutdown = FALSE /\ stopPc = "none"
    /\ applied = <<>> /\ raced = FALSE

-----------------------------------------------------------------------------
(* The server runs Manager.Reload for a request.  grpc.Server.Stop does not *)
(* wait for handlers, so requests in flight outlive it.                     *)
Accept(r) ==
    /\ pc[r] = "idle" /\ stopPc = "none"
    /\ pc' = [pc EXCEPT ![r] = "load"]
    /\ UNCHANGED <<config, done, mu, services, newServices, serviceVars,
                   poolVars, stopVars, applied, raced>>

Return(r) ==
    /\ pc' = [pc EXCEPT ![r] = IF r = Main THEN "done" ELSE "idle"]
    /\ config' = [config EXCEPT ![r] = <<>>]
    /\ done' = [done EXCEPT ![r] = 0]

(* loadConfig reads what the file holds at this moment, and Prepare; either *)
(* may fail.                                                                *)
Load(r) ==
    /\ pc[r] = "load"
    /\ \/ \E f \in Files :
          /\ pc' = [pc EXCEPT ![r] = "lock"]
          /\ config' = [config EXCEPT ![r] = f]
          /\ UNCHANGED done
       \/ Return(r)
    /\ UNCHANGED <<mu, services, newServices, serviceVars, poolVars,
                   stopVars, applied, raced>>

(* Faulty variant: the mutex is not taken.                                  *)
LockNobody(r) ==
    /\ pc[r] = "lock"
    /\ \/ /\ newServices' = NoServices
          /\ pc' = [pc EXCEPT ![r] = "entry"]
          /\ UNCHANGED <<config, done>>
       \/ Return(r) /\ UNCHANGED newServices
    /\ UNCHANGED <<mu, services, serviceVars, poolVars, stopVars,
                   applied, raced>>

(* Core.Reload takes servicesMu and reloads the announcer, which may refuse *)
(* the announce groups.                                                     *)
Lock(r) ==
    /\ pc[r] = "lock" /\ mu = Free
    /\ \/ /\ mu' = r /\ pc' = [pc EXCEPT ![r] = "entry"]
          /\ UNCHANGED <<config, done>>
       \/ Return(r) /\ UNCHANGED mu
    /\ UNCHANGED <<services, newServices, serviceVars, poolVars, stopVars,
                   applied, raced>>

Entry(r) == config[r][done[r] + 1]

AtEntry(r) == pc[r] = "entry" /\ done[r] < Len(config[r])

(* Faulty variant: the early return forgets the mutex.                      *)
AbortLocked(r) ==
    /\ AtEntry(r) /\ shutdown
    /\ Return(r)
    /\ newServices' = NoServices
    /\ UNCHANGED <<mu, services, serviceVars, poolVars, stopVars, applied, raced>>

(* The reload is aborted: what it moved to newServices is dropped.          *)
Abort(r) ==
    /\ AtEntry(r) /\ shutdown
    /\ mu' = Free /\ Return(r)
    /\ newServices' = NoServices
    /\ UNCHANGED <<services, serviceVars, poolVars, stopVars, applied, raced>>

(* What Service.Reload makes of the reals.  A new real starts; one that is  *)
(* stopped before its Run has reached its loop over the pool of checkers    *)
(* finds the channel nil, and Run never ends.                               *)
AfterReload(status) ==
    CASE status = "settled"  -> {"settled", "starting"}
      [] status = "starting" -> {"starting", "stuck"}
      [] OTHER               -> {"stuck"}

(* A known service: Service.Reload waits for realsMu, which the initial     *)
(* reload holds while it adds reals, and for the loop that takes new reals. *)
Reloadable(r, c) ==
    /\ AtEntry(r) /\ ~shutdown
    /\ c # NoChild /\ run[c] = "loop" /\ initial[c] \notin {"filling", "hung"}

ReloadKnown(r) ==
    LET c == services[Entry(r).key]
    IN  /\ Reloadable(r, c)
        /\ \E after \in AfterReload(reals[c]) : reals' = [reals EXCEPT ![c] = after]
        /\ version' = [version EXCEPT ![c] = Entry(r).version]
        /\ raced' = (raced \/ initial[c] = "queued" \/ reals'[c] = "stuck")
        /\ newServices' = [newServices EXCEPT ![Entry(r).key] = c]
        /\ services' = [services EXCEPT ![Entry(r).key] = NoChild]
        /\ done' = [done EXCEPT ![r] = @ + 1]
        /\ UNCHANGED <<pc, config, mu, keyOf, snapshot, run, initial, stopped,
                       poolVars, stopVars, applied>>

(* The reload removes a real whose initial reload has added a checker and   *)
(* is not over: Real.Stop waits for that checker, which goes on until the   *)
(* application's context is cancelled.  ReloadKnown taken late stands for   *)
(* a reload that goes on then.                                              *)
ReloadHangs(r) ==
    LET c == services[Entry(r).key]
    IN  /\ Reloadable(r, c)
        /\ reals[c] # "settled"
        /\ pc' = [pc EXCEPT ![r] = "hung"]
        /\ raced' = TRUE
        /\ UNCHANGED <<config, done, mu, services, newServices, serviceVars, poolVars,
                       stopVars, applied>>

(* A new service: it is put into newServices, then Pool.Add sends it.       *)
Create(r) ==
    /\ AtEntry(r) /\ ~shutdown
    /\ services[Entry(r).key] = NoChild
    /\ \E c \in Child :
         /\ run[c] = "unused"
         /\ keyOf' = [keyOf EXCEPT ![c] = Entry(r).key]
         /\ version' = [version EXCEPT ![c] = Entry(r).version]
         /\ run' = [run EXCEPT ![c] = "created"]
         /\ newServices' = [newServices EXCEPT ![Entry(r).key] = c]
    /\ pc' = [pc EXCEPT ![r] = "send"]
    /\ UNCHANGED <<config, done, mu, services, snapshot, initial, reals, stopped,
                   poolVars, stopVars, applied, raced>>

(* Pool.Add meets Pool.Run on the channel, or finds it nil.                 *)
Add(r) ==
    LET c == newServices[Entry(r).key]
    IN  /\ pc[r] = "send" /\ (open => poolRun = "receive")
        /\ run' = [run EXCEPT ![c] = IF open THEN "received" ELSE "unused"]
        /\ poolRun' = IF open THEN "count" ELSE poolRun
        /\ pc' = [pc EXCEPT ![r] = "entry"]
        /\ done' = [done EXCEPT ![r] = @ + 1]
        /\ UNCHANGED <<config, mu, services, newServices, keyOf, version,
                       snapshot, initial, reals, stopped, open, stopVars, applied,
                       raced>>

-----------------------------------------------------------------------------
(* Service.Stop.  The initial reload that has added a real and has another  *)
(* one to add sees the shutdown signal and drops what it added: the pool    *)
(* waits for these reals for ever.  It also waits for a real that is stuck, *)
(* and perhaps for one that is starting.  A Run of the service that has not *)
(* reached its loop will find the channel nil.                              *)
Settled(c) == run[c] = "loop" /\ initial[c] = "finished" /\ reals[c] = "settled"

Filling(c) == initial[c] \in {"filling", "hung"}

StopService(c, returns) ==
    /\ IF returns THEN ~Filling(c) /\ reals[c] # "stuck"
                  ELSE Filling(c) \/ reals[c] # "settled"
    /\ stopped' = [stopped EXCEPT ![c] = TRUE]
    /\ reals' = [reals EXCEPT ![c] = IF returns THEN "settled" ELSE "stuck"]
    /\ run' = [run EXCEPT ![c] = IF @ = "loop" /\ returns THEN "ended" ELSE @]
    /\ raced' = (raced \/ ~Settled(c))

(* The services left in the old map are stopped, one after the other.       *)
Sweep(r) ==
    /\ pc[r] = "entry" /\ done[r] = Len(config[r])
    /\ \E k \in Key, returns \in BOOLEAN :
         /\ services[k] # NoChild
         /\ StopService(services[k], returns)
         /\ services' = [services EXCEPT ![k] = NoChild]
         /\ pc' = [pc EXCEPT ![r] = IF returns THEN @ ELSE "hung"]
    /\ UNCHANGED <<config, done, mu, newServices, keyOf, version, snapshot,
                   initial, poolVars, stopVars, applied>>

(* Faulty variant: outdated services are forgotten, not stopped.            *)
ReplaceUnswept(r) ==
    /\ pc[r] = "entry" /\ done[r] = Len(config[r])
    /\ services' = newServices /\ newServices' = NoServices
    /\ applied' = config[r]
    /\ mu' = Free /\ Return(r)
    /\ UNCHANGED <<serviceVars, poolVars, stopVars, raced>>

(* The new map replaces the old one; the request is answered.               *)
Replace(r) ==
    /\ pc[r] = "entry" /\ done[r] = Len(config[r])
    /\ services = NoServices
    /\ services' = newServices /\ newServices' = NoServices
    /\ applied' = config[r]
    /\ mu' = Free /\ Return(r)
    /\ UNCHANGED <<serviceVars, poolVars, stopVars, raced>>

-----------------------------------------------------------------------------
(* Pool.Run reads the channel once, without the mutex.                      *)
PoolStart ==
    /\ poolRun = "none"
    /\ poolRun' = IF open THEN "receive" ELSE "stuck"
    /\ UNCHANGED <<requestVars, mu, services, newServices, serviceVars, open,
                   stopVars, applied, raced>>

(* Faulty variant: the pool takes one worker only.                          *)
PoolCountOnce ==
    /\ poolRun = "count"
    /\ poolRun' = "ended"
    /\ run' = [c \in Child |-> IF run[c] = "received" THEN "spawned" ELSE run[c]]
    /\ UNCHANGED <<requestVars, mu, services, newServices, keyOf, version, snapshot,
                   initial, reals, stopped, open, stopVars, applied, raced>>

(* The received worker is counted and gets its goroutine.                   *)
PoolCount ==
    /\ poolRun = "count"
    /\ poolRun' = "receive"
    /\ run' = [c \in Child |-> IF run[c] = "received" THEN "spawned" ELSE run[c]]
    /\ UNCHANGED <<requestVars, mu, services, newServices, keyOf, version,
                   snapshot, initial, reals, stopped, open, stopVars, applied, raced>>

PoolEnd ==
    /\ poolRun = "receive" /\ ~open
    /\ poolRun' = "ended"
    /\ UNCHANGED <<requestVars, mu, services, newServices, serviceVars, open,
                   stopVars, applied, raced>>

(* Service.Run: the initial reload is started with the config of this       *)
(* moment, then the loop over the pool, whose channel may be nil by now.    *)
ServiceRun(c) ==
    /\ run[c] = "spawned"
    /\ run' = [run EXCEPT ![c] = IF stopped[c] THEN "stuck" ELSE "loop"]
    /\ snapshot' = [snapshot EXCEPT ![c] = version[c]]
    /\ initial' = [initial EXCEPT ![c] = "queued"]
    /\ UNCHANGED <<requestVars, mu, services, newServices, keyOf, version,
                   reals, stopped, poolVars, stopVars, applied, raced>>

(* The initial reload gets realsMu, and aborts at its first real or adds it.*)
InitialStart(c) ==
    /\ initial[c] = "queued"
    /\ initial' = [initial EXCEPT ![c] = IF stopped[c] THEN "aborted" ELSE "filling"]
    /\ UNCHANGED <<requestVars, mu, services, newServices, keyOf, version,
                   snapshot, run, reals, stopped, poolVars, stopVars, applied, raced>>

(* It has added the last real, and saves its config.                        *)
InitialEnd(c) ==
    /\ initial[c] = "filling" /\ ~stopped[c]
    /\ initial' = [initial EXCEPT ![c] = "finished"]
    /\ \E after \in AfterReload(reals[c]) : reals' = [reals EXCEPT ![c] = after]
    /\ version' = [version EXCEPT ![c] = snapshot[c]]
    /\ snapshot' = [snapshot EXCEPT ![c] = AnyVersion]
    /\ UNCHANGED <<requestVars, mu, services, newServices, keyOf, run,
                   stopped, poolVars, stopVars, applied, raced>>

(* It comes after a request's reload and hangs on a real that this one has  *)
(* added.                                                                   *)
InitialHangs(c) ==
    /\ initial[c] = "filling" /\ ~stopped[c]
    /\ reals[c] # "settled"
    /\ initial' = [initial EXCEPT ![c] = "hung"]
    /\ UNCHANGED <<requestVars, mu, services, newServices, keyOf, version, snapshot,
                   run, reals, stopped, poolVars, stopVars, applied, raced>>

(* The activation function of a waiting real returns.                       *)
RealStarts(c) ==
    /\ initial[c] = "finished" /\ ~stopped[c]
    /\ reals[c] = "settled"
    /\ reals' = [reals EXCEPT ![c] = "starting"]
    /\ UNCHANGED <<requestVars, mu, services, newServices, keyOf, version, snapshot,
                   run, initial, stopped, poolVars, stopVars, applied, raced>>

(* Every real that was started has reached its loop, with all its checkers. *)
RealsSettle(c) ==
    /\ initial[c] = "finished" /\ ~stopped[c]
    /\ reals[c] = "starting"
    /\ reals' = [reals EXCEPT ![c] = "settled"]
    /\ UNCHANGED <<requestVars, mu, services, newServices, keyOf, version, snapshot,
                   run, initial, stopped, poolVars, stopVars, applied, raced>>

(* A service object that has ended and that nothing refers to is free.      *)
Collect(c) ==
    /\ run[c] = "ended" /\ initial[c] \in {"finished", "aborted"}
    /\ \A k \in Key : services[k] # c
    /\ run' = [run EXCEPT ![c] = "unused"]
    /\ initial' = [initial EXCEPT ![c] = "none"]
    /\ stopped' = [stopped EXCEPT ![c] = FALSE]
    /\ keyOf' = [keyOf EXCEPT ![c] = AnyKey]
    /\ version' = [version EXCEPT ![c] = AnyVersion]
    /\ snapshot' = [snapshot EXCEPT ![c] = AnyVersion]
    /\ UNCHANGED <<requestVars, mu, services, newServices, reals, poolVars, stopVars,
                   applied, raced>>

-----------------------------------------------------------------------------
(* The application's context is cancelled once the reload at startup has    *)
(* returned: Server.Stop, then Core.Stop sends its signal.                  *)
StopSignal ==
    /\ stopPc = "none" /\ pc[Main] = "done"
    /\ shutdown' = TRUE /\ stopPc' = "lock"
    /\ raced' = (raced \/ mu # Free \/ poolRun = "none")
    /\ UNCHANGED <<requestVars, mu, services, newServices, serviceVars,
                   poolVars, applied>>

StopLock ==
    /\ stopPc = "lock" /\ mu = Free
    /\ mu' = Stopper /\ stopPc' = "services"
    /\ UNCHANGED <<requestVars, services, newServices, serviceVars, poolVars,
                   shutdown, applied, raced>>

Unstopped == {services[k] : k \in Key} \ ({NoChild} \cup {c \in Child : stopped[c]})

StopServices ==
    /\ stopPc = "services"
    /\ \E c \in Unstopped, returns \in BOOLEAN :
         /\ StopService(c, returns)
         /\ stopPc' = IF returns THEN stopPc ELSE "hung"
    /\ UNCHANGED <<requestVars, mu, services, newServices, keyOf, version,
                   snapshot, initial, poolVars, shutdown, applied>>

(* Faulty variant: the pool is closed before its services are stopped.      *)
ClosePoolFirst ==
    /\ stopPc = "services" /\ mu = Stopper
    /\ open' = FALSE /\ stopPc' = "wait"
    /\ UNCHANGED <<requestVars, mu, services, newServices, serviceVars, poolRun,
                   shutdown, applied, raced>>

(* Pool.Close takes the pool's mutex, which Add holds while it sends.       *)
ClosePool ==
    /\ stopPc = "services" /\ Unstopped = {}
    /\ \A r \in Request : pc[r] # "send"
    /\ open' = FALSE /\ stopPc' = "wait"
    /\ UNCHANGED <<requestVars, mu, services, newServices, serviceVars, poolRun,
                   shutdown, applied, raced>>

(* The workers counted so far.                                              *)
Counted == {c \in Child : run[c] \in {"spawned", "loop", "stuck"}}

(* The pool has waited for its workers; Core.Stop returns, and the balancer,*)
(* the announcer and the tunneler are stopped after it.                     *)
StopEnd ==
    /\ stopPc = "wait" /\ Counted = {}
    /\ mu' = Free /\ stopPc' = "ended"
    /\ UNCHANGED <<requestVars, services, newServices, serviceVars, poolVars,
                   shutdown, applied, raced>>

-----------------------------------------------------------------------------
RequestNext(r) ==
    \/ Load(r) \/ Lock(r) \/ Abort(r) \/ ReloadKnown(r) \/ ReloadHangs(r)
    \/ Create(r) \/ Add(r) \/ Sweep(r) \/ Replace(r)

PoolNext == PoolStart \/ PoolCount \/ PoolEnd

ServiceNext(c) ==
    ServiceRun(c) \/ InitialStart(c) \/ InitialEnd(c) \/ InitialHangs(c) \/ RealsSettle(c)

StopNext == StopLock \/ StopServices \/ ClosePool \/ StopEnd

Next ==
    \/ StopSignal \/ PoolNext \/ StopNext
    \/ \E r \in Rpc : Accept(r)
    \/ \E r \in Request : RequestNext(r)
    \/ \E c \in Child : ServiceNext(c) \/ RealStarts(c) \/ Collect(c)

Spec == Init /\ [][Next]_vars

(* Goroutines run, channels meet, and a mutex that becomes free again and   *)
(* again is given to each of its waiters.                                   *)
FairSpec ==
    /\ Spec
    /\ WF_vars(PoolNext) /\ WF_vars(StopNext) /\ SF_vars(StopLock)
    /\ \A r \in Request : WF_vars(RequestNext(r)) /\ SF_vars(Lock(r))
    /\ \A c \in Child : WF_vars(ServiceNext(c)) /\ WF_vars(Collect(c))
-----------------------------------------------------------------------------
(* The variables have their types; a service that waits in Pool.Add has     *)
(* been created.                                                            *)
TypeOK ==
    /\ applied \in Files \cup {<<>>}
    /\ pc \in [Request -> {"idle", "load", "lock", "entry", "send", "hung", "done"}]
    /\ config \in [Request -> Files \cup {<<>>}]
    /\ done \in [Request -> Nat] /\ \A r \in Request : done[r] <= Len(config[r])
    /\ mu \in Request \cup {Free, Stopper}
    /\ services \in [Key -> Child \cup {NoChild}]
    /\ newServices \in [Key -> Child \cup {NoChild}]
    /\ keyOf \in [Child -> Key]
    /\ version \in [Child -> Version] /\ snapshot \in [Child -> Version]
    /\ run \in [Child -> {"unused", "created", "received", "spawned", "loop", "stuck",
                         "ended"}]
    /\ initial \in [Child -> {"none", "queued", "filling", "finished", "aborted", "hung"}]
    /\ reals \in [Child -> {"settled", "starting", "stuck"}]
    /\ stopped \in [Child -> BOOLEAN]
    /\ open \in BOOLEAN
    /\ poolRun \in {"none", "receive", "count", "stuck", "ended"}
    /\ shutdown \in BOOLEAN /\ raced \in BOOLEAN
    /\ stopPc \in {"none", "lock", "services", "hung", "wait", "ended"}

Live(c) == run[c] \notin {"unused", "ended"} /\ ~stopped[c]

(* Whatever the interleaving of reloads and Stop, no two services that      *)
(* nobody has stopped have the same key: two would check the same reals and *)
(* answer each other's weights.                                             *)
OneServicePerKey ==
    \A c, d \in Child : Live(c) /\ Live(d) /\ keyOf[c] = keyOf[d] => c = d

(* The map holds the services of the config that was applied last, each     *)
(* with its settings.                                                       *)
HoldsApplied ==
    /\ \A k \in Key : services[k] # NoChild <=> k \in Keys(applied)
    /\ \A i \in DOMAIN applied :
         version[services[applied[i].key]] = applied[i].version

(* Between reloads the running services are those of the config that was    *)
(* applied last, each with its settings, unless operations met in one of    *)
(* these windows: Stop is signalled during a reload or before the core runs,*)
(* a service is reloaded before its initial reload, it is stopped before    *)
(* Run, the initial reload and every real that has started have settled, or *)
(* its reload removes a real that has started and not settled.  No other    *)
(* interleaving loses a service or a setting.                               *)
ServicesFollowConfig ==
    mu = Free /\ ~raced =>
      /\ \A c \in Child : Live(c) => services[keyOf[c]] = c
      /\ HoldsApplied

(* Nobody sends on the channel of the pool once it is closed, and it is     *)
(* closed only when every worker that was handed over is stopped: otherwise *)
(* the send would panic.                                                    *)
NoSendOnClosed ==
    /\ \A r \in Request : pc[r] = "send" => open
    /\ ~open /\ ~raced => \A c \in Child : ~Live(c)

(* Core.Stop and, after it, Core.Run return, with no service left running;  *)
(* only then are balancer and announcer stopped.  Not so once operations    *)
(* have met in one of the windows above.                                    *)
StopEnds ==
    stopPc = "lock" ~> \/ stopPc = "ended" /\ poolRun = "ended" /\ Counted = {}
                       \/ raced

(* Every reload request is answered, also while Stop runs, except after     *)
(* one of the windows above.                                                *)
RequestEnds ==
    \A r \in Request : pc[r] = "load" ~> pc[r] \in {"idle", "done"} \/ raced

(* What the comment of Core.Stop promises without exceptions.               *)
StopAlwaysEnds == stopPc = "lock" ~> stopPc = "ended"

-----------------------------------------------------------------------------
(* The inductive invariant behind the three.  Core.Reload takes the keys of *)
(* a configuration for unique; it would create the second service of a key  *)
(* without stopping the first.                                              *)
DistinctKeys ==
    \A f \in Files : \A i, j \in DOMAIN f : f[i].key = f[j].key => i = j

Busy(r) == pc[r] \in {"entry", "send", "hung"}

(* Who has servicesMu, and what is over once Stop has begun.                *)
MutexInv ==
    /\ \A r \in Request :
          /\ Busy(r) <=> mu = r
          /\ ~Busy(r) => done[r] = 0
          /\ pc[r] = "send" => open /\ ~(done[r] = Len(config[r]))
    /\ mu = Stopper <=> stopPc \in {"services", "hung", "wait"}
    /\ shutdown <=> stopPc # "none"
    /\ ~open => stopPc \in {"wait", "ended"}

(* The entries of its config that a reload has dealt with.                  *)
Dealt(r) ==
    {i \in DOMAIN config[r] : i <= done[r] \/ (pc[r] = "send" /\ i = done[r] + 1)}

(* A service is in the map of its key, and in one map only; the new map has *)
(* the entries dealt with.                                                  *)
MapsInv ==
    /\ \A k \in Key : services[k] # NoChild =>
          /\ keyOf[services[k]] = k /\ run[services[k]] # "unused"
          /\ ~shutdown => ~stopped[services[k]]
          /\ newServices[k] = NoChild
    /\ \A k \in Key : newServices[k] # NoChild =>
          /\ keyOf[newServices[k]] = k /\ Live(newServices[k])
          /\ \E r \in Request : mu = r /\ \E i \in Dealt(r) : config[r][i].key = k

(* A service that has not begun to run has no initial reload.               *)
BirthInv ==
    /\ \A c \in Child :
          /\ run[c] \in {"unused", "created", "received", "spawned"} => initial[c] = "none"
          /\ run[c] = "unused" => ~stopped[c]
    /\ \A r \in Request : pc[r] = "send" =>
          /\ newServices[Entry(r).key] # NoChild
          /\ run[newServices[Entry(r).key]] = "created"

(* Every live service is in a map; only a reload that Stop aborts loses     *)
(* some.                                                                    *)
LiveInMap ==
    ~shutdown \/ ~raced =>
        \A c \in Child : Live(c) => c \in {services[keyOf[c]], newServices[keyOf[c]]}

(* Without a race: a reload that gets the mutex after the signal changes    *)
(* nothing but to stop all, initial reloads apply the current settings, and *)
(* what a reload has dealt with is as configured.                           *)
UnracedInv ==
    ~raced =>
      /\ shutdown => /\ newServices = NoServices
                     /\ \A r \in Request : Busy(r) => pc[r] = "entry" /\ done[r] = 0
      /\ \A c \in Child : initial[c] \in {"queued", "filling"} => snapshot[c] = version[c]
      /\ \A r \in Request : Busy(r) =>
            \A i \in Dealt(r) :
                /\ newServices[config[r][i].key] # NoChild
                /\ version[newServices[config[r][i].key]] = config[r][i].version
      /\ (\A r \in Request : Busy(r) => pc[r] = "entry" /\ done[r] = 0 /\ Len(config[r]) # 0)
            => HoldsApplied

LifeInv ==
    /\ TypeOK /\ MutexInv /\ MapsInv /\ BirthInv /\ LiveInMap /\ UnracedInv
    /\ OneServicePerKey /\ NoSendOnClosed
=============================================================================
