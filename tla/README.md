# A TLA+ model of monalive

monalive health-checks the real servers behind the virtual services of a YANET
load balancer. It enables and disables reals in the balancer, adjusts their
weights, and has BIRD announce the prefixes of services that have their quorum.
This directory models the way from a configuration file over the checks of the
reals to the changes in the load balancer and in BIRD, and the way of a check
packet through the tunnel. TLC checks the models, TLAPS proves the most important
facts.

## The system

| part (source) | state | operations | meets |
|---|---|---|---|
| checker (`internal/core/checker`) | alive, weight, failed attempts, manual change | a loop of checks; result processing; UpdateWeight; Stop | calls the real's handler with its own mutex held |
| real (`internal/core/real`) | alive, weight, dynamic weight, inhibited; its checkers | HandleEvent; activation; Reload; Stop | called by its checkers concurrently; calls the service |
| service (`internal/core/service`) | alive, weight, number of alive reals | HandleEvent; processAnnounce; Reload; Stop | stores events in the balancer, registers status changes with the announcer |
| balancer (`internal/balancer`) | registry of real events; state polled from YANET | HandleEvent; periodic updateBalancer; subscriptions | takes service events from the announcer, hands them back after the reals |
| announcer (`internal/announcer`) | prefixes with groups, services, counters; registry of prefix events; group registry | ReloadServices; UpdateService; updater; state requests; Stop | called by core and balancer; sends batches to BIRD |
| event registry (`internal/utils/event_registry`) | a map with merging values | Store, Flush, Process | used three times |
| core, manager, app | services; worker pools | Reload; Stop; start order | reloads the announcer first, then the services |
| scheduler, worker pool, shutdown | timers, attempts; workers and their wait group | Run, Add, Close | run everything above |
| configuration, keepalived parser | files, the prepared services, the dump | parsing, decoding, defaults, validation, dump | gives Reload its input; the keys decide what a reload keeps |
| BIRD and YANET clients | sockets, gRPC | batches, requests | external processes |
| check tunneler (`pkg/checktun`) | packets counted since the last verdict; raw sockets | takes check packets from a netfilter queue, removes their option, sends them through the tunnel | the option is added by the dialers of `internal/utils/xnet` |

What is hard here: every event passes four sections under four different locks
(checker, real, service, registry) and an announce decision under none; pending
events cancel each other (Merge) while other goroutines flush; reloads replace
checkers and configurations next to running checks; BIRD restarts and asks for
its state while the updater sends; a service may be reloaded or stopped before it
has started; packets are dropped in batches by workers that overtake each other;
Stop races all of them.

What makes the parts correct:

* announcer: BIRD announces exactly the ready prefixes, up to events recorded
  and about to be sent; counters agree with the services; a restart of BIRD
  heals; nothing stays announced after Stop.
* checker, real, service: the weight of a service is the sum of its enabled
  reals; a real is up iff its checkers say so; the service is alive iff it has
  its quorum; a reload ends; a stop leaves nothing behind.
* balancer: it has, or has pending, the status of every real.
* core, worker pool: between reloads exactly the configured services run, each once
  and with its settings; every request and Stop end.
* checker with its loop: it is alive iff its last round of attempts succeeded, the
  real knows that, and after Stop it is silent.
* configuration: what runs, what is announced where and what is dumped is what the
  file means, however it is spelled and whatever was kept from earlier files; a
  damaged file changes nothing.
* check tunneler: the real server gets the packet the check would have sent
  directly; the queue of the kernel does not fill up.

## Modules

| module | models | remarks |
|---|---|---|
| `EventRegistry` | registry and the Merge methods of the statuses | a registry is a function; `NoEvent` is an absent key |
| `Announcement` | what the announcer promises: BIRD gets what was ready at one moment | abstract specification |
| `Announcer` | announcer with its updater and Stop | one action per critical section; implements `Announcement` |
| `AnnouncerRestart` | BIRD restarts and state requests on top of it | GetPrefixes, StatusFor and the answer are three steps |
| `Weight`, `Checker`, `RealServer`, `VirtualService` | the handlers as operators: state and event in, state and event out | shared by `Health` and by the proofs |
| `Health` | one service, its reals and checkers, reload and stop, the balancer's updater | `pc` is where each goroutine is |
| `Activation` | what a new real is promised: activated only once reported, refused only when stopped | abstract specification |
| `StateSync` | the poller of the load balancer's state, the subscriptions and the reals waiting in them | implements `Activation` |
| `Lifecycle` | core, manager, the worker pool, services on their way up and down | a service is its key, settings, and the progress of Run and of its initial reload |
| `Checks` | what each kind of check makes of an answer | operators |
| `CheckLoop` | one checker: scheduler, watcher goroutine, check, result, reload, Stop | uses `Checks` and `Checker` |
| `ProbePacket` | the option and headers of a check packet, as bytes; its removal, checksum, datagram | operators |
| `Tunnel` | the kernel's queue, the workers and their verdicts | uses `ProbePacket` |
| `Configuration` | defaults, Prepare on three levels, keys, settings, groups | operators |
| `Keepalived` | splitLine, parseConfig, the decoder | operators, on top of `Configuration` |
| `Reconfiguration` | requests that load, apply and dump files | uses `Keepalived` |
| `MC...` | instances for TLC | |
| `AnnouncerProofs`, `HandlerProofs`, `HealthProofs`, `StateSyncProofs`, `LifecycleProofs`, `CheckLoopProofs`, `TunnelProofs`, `ReconfigurationProofs` | theorems | see Proofs |

`Announcer`. The map of prefixes is `group`, `status`, `active` and `quorum`. The
actions are the critical sections: `ReloadServices` (validation and the
prefixes' write lock) and `UpdateGroups` (the group registry's lock) are the two
halves of the Go method; `GetGroup` (the group registry's lock) and `UpdateService`
(the prefixes' lock) are those of UpdateService, with the call in `located` between
them; `Flush` and `Send` are the updater's tick, which sends group after group with no
lock; `Stop`, `RemoveAll` and `ClientShutdown` are the three parts of Stop, next to an
updater that ends only when it looks at the signal. Reloads and updates of services
also come during Stop and after it: Balancer.Stop only signals its updater, and a
request that is under way calls ReloadServices before it looks at the core's
shutdown signal.
BIRD is the set of prefixes it announces per group. `Announcement` sees of it, for
each group, the ready prefixes, the goal (what BIRD will announce after the batch on its
way) and what BIRD announces: a tick takes the ready prefixes as the goal and a write
delivers the goal of a group. After Stop, groups are withdrawn, services still come and
go, and what a last tick takes is ready then, though perhaps only part of it; nothing
is delivered once the client is closed.

`AnnouncerRestart`. The handler of a state request lists the prefixes of its group from
the group registry and asks for their statuses later. `dirty` marks a group whose answer
is not comparable with what is ready: a prefix changed its readiness, an earlier answer
was on its way, or the handler read a registry that lacks a ready prefix (`Unlisted`:
the prefix was removed and added again by reloads between the two locks of an update,
and the update made it ready before the reload put it into the registry).

`Health`. A checker's goroutine goes from "wait" over "check" (the network),
"service" (the real's section is done), "balancer" (the service's section is
done) and "announce" to "apply" and "register", and back. It holds its own mutex
from the result on, which is why `KeepChecker`, which changes a weight, waits for
"wait" or "check". The reloader walks over the reals and, inside, over their
checkers. The scheduler is abstracted to "a check may start at any time"; the
network to "it may end in any way". Real.Stop takes checkersMu only and may meet the
real's initial reload: if that has added no checker it is aborted (`HaltReal`),
otherwise Stop waits in checkersPool.Close for checkers it does not know (`HaltHangs`,
"hung"). A Run that has received no checker may find the channel of its pool nil
(`runStuck`); Real.Stop returns, but the stop of the service waits for that Run.

`StateSync`. The poller asks (`GetState`) and stores the answer later (`Update`); the
error of the first request stores an empty state, later ones skip the update. A
real's Run and the watcher that `LookupSubscription` starts are two goroutines.
State.notify is a new channel after every update, so of the channel a watcher
holds only one bit matters: "select" (still open) or "notified" (closed). Receiving
from it and the Lookup that follows are one step, since nothing the watcher looks
at in between can change the outcome. `Health` takes the activation for one
step (`Activate`); `StateSync` is what is behind it.

`Lifecycle`. A request goes over "load", "lock", "entry" (once per service of the
file) and "send" (waiting in Pool.Add) back to "idle"; `mu` is servicesMu. Pool.Run
receives a worker and counts it in two steps, as the code does. A service is
"created", "received", "spawned" and then in its "loop"; next to it runs the initial
reload that Run starts, from "queued" over "filling" to "finished" or "aborted".
Its real servers are one value, `reals`: all that run are "settled", one is "starting" (its
Run or its initial reload is still on the way; a reload or an activation starts one), or
one that was stopped too early is "stuck". "stuck" and "hung" are goroutines that wait on
a nil channel or for such a one (`ReloadHangs`, `InitialHangs`, a `StopService` that does
not return). `raced` remembers that two operations met in a window the code leaves open:

* Stop is signalled during a reload or before the core runs;
* a service is reloaded before its initial reload;
* a service is stopped before its Run, its initial reload and every real that has
  started have settled;
* a reload removes a real that has started and has not settled.

Such a window has consequences (see `StopAlwaysEnds` below); the properties of the
`lifecycle` run say that nothing goes wrong outside them. A service object that is
unreachable may be used again (`Collect`).

`CheckLoop`. `pc` is where Run is, with the scheduler's loop inside: "delay", "job",
"retry". A select between a timer and the context takes either. The check takes
its metadata from the state, sees an answer, a timeout or a cancellation, and its
result is processed with `Checker`'s operators. The real is what it was told last.

`Tunnel`. Of a packet's identifier only the place in the queue matters, so the queue
is two numbers. A worker reads a packet, counts it, gives a verdict for every
`Batch`-th, and encapsulates. Addresses and options are sequences of bytes, since
lengths and offsets are where the sender (`internal/utils/xnet`) and the tunneler
must agree; the checksum is computed word by word.

`Reconfiguration`. `Edit` replaces the file; `Load` is loadConfig and Prepare on what
the file holds then, `Apply` Core.Reload under its lock, `Dump` the file for the
load balancer, written after the lock is released. How services follow a reload is
`Lifecycle` and `Health`; here it is one step, and what counts is which checkers are
kept, replaced and created. Services, reals and checkers are found by their keys in three
maps, one inside the other. When a file repeats a key on any of these levels, each of the
entries is started and the map keeps the last one (`Known`); the checkers of the others are
`orphans`, which no later reload finds. A file is lines of characters that
mean something to the parser, comments of both kinds (`#`, `!`) and runs of other
characters; words and addresses have spellings (upper case, IPv4-mapped). `Meant` is what the operator means by a file, and the
properties compare with that and not with what the parser made of it.

Faulty variants of some definitions stand before the definition they vary; each
is a plausible slip, and each makes the property it is paired with in
`PROJECT.json` fail. No specification uses them.

## Runs

Passing runs:

* `announcer_stable`: three services, two prefixes, two groups; all of reload,
  update, flush, send and stop. Two services of one prefix are what a quorum needs,
  two prefixes and two groups what a batch needs. Prefixes keep their group: no
  announce is lost, no stale one survives, counters are exact, ready prefixes get
  announced and others withdrawn, and all of it implements `Announcement`, Stop
  included. (For prefixes that move, the theorems say what holds.) Fairness: the ticker fires and a write returns (weak fairness of `Flush`
  and `Send`).
* `restart`: BIRD may stop and start at any time; one prefix with two services, which
  reloads remove and add again, in one group (120,294 states). Prefixes of a group are
  independent of each other here: what is listed, read and announced is decided per
  prefix. Fairness: in addition the handler goroutine of the group runs.
* `health_reload`: one real, one checker; weight, quorum and hysteresis change by
  reload; stop.
* `health_two`: two reals with a checker each; one leaves and returns; stop. States in
  which a Run is stuck are not followed further (`NoneStuck`): all that follows from
  it is that the stop of the service does not return, which `health_live` is about.
* `health_inhibit`: no reload, but an inhibited real with a retry, a dynamic
  weight, and failing requests.
* `health_live`: a reload or stop ends, but for the two ways in which Real.Stop meets a
  real on its way up (`ReloadEnds` names them); a real that is down gets disabled. All
  goroutines are weakly fair; the steps of a reload are strongly fair, since one
  waits for a mutex that checks take again and again, and Go's mutexes hand over
  to a waiter after a millisecond. Requests do not fail in this run.
* `state_sync`: a real comes and goes in the load balancer, requests fail, the real
  and then the balancer are stopped. The real is activated or refused for the right
  reason (`ImplementsActivation`, with the invariant of the proof), is activated in
  the end if it stays in the load balancer, and does not wait for ever once it is
  stopped. One real is enough: reals share nothing but the updates, and the theorems
  are about any number. Fairness: goroutines run; not all polls fail from some point
  on (strong fairness of the successful `GetState`); a select with a cancelled
  context takes that case in the end, because Go picks among ready cases at random.
* `lifecycle`: two keys and two service objects, the reload at startup and one
  request at a time, three files (one service; both, the first with other settings;
  none); reals that start and settle; Stop at any time (278,949 states). No service is lost, doubled or left with former settings,
  nobody sends on a closed channel, and every request and Stop end. Two objects of
  the two keys are what moving from map to map needs; a second request would only
  wait for the same lock. Fairness: goroutines run, channels meet, and a mutex is
  handed to its waiters (strong fairness of `Lock` and `StopLock`). Everything may
  end, so deadlock is not checked.
* `check_loop`: five settings (TCP, HTTP three times, gRPC; dynamic weight or not,
  from header or body; no, one or two retries; timeouts or not) and answers that
  fail in each way; a reload sets the weight to 1 or 2; Stop, or the parent context,
  at any time. The checker is alive iff its last round succeeded, the real knows its
  state, a new weight arrives, Stop ends and silences it. Fairness: goroutines run;
  a select with a cancelled context takes that case in the end. The loop ends, so
  deadlock is not checked.
* `tunnel`: two workers, batches of 3 instead of 100, a queue of 8, one verdict that
  fails for good; probes of both families for reals of both families, both methods,
  extension headers, and header words whose sum carries twice. Every probe is
  restored, the queue has room whenever the workers are idle, and a packet that
  was counted is also handled. The room needed is `QueueAssumption`; with a queue of
  7 `RoomWhenIdle` fails, so the bound is exact. Fairness: workers run.
* `reload_config`: twelve files (spelling, comments of both kinds, inheritance on three
  levels, groups by name and by script, includes, forwarding methods, four damaged ones,
  of which one has a mark of a merge conflict where a name is expected) and two
  requests at a time, in any order. Every file is understood as it is meant or refused
  (`FileUnderstood`); the running checkers, the groups and the dump are those the applied
  file means. The files meet what the theorems assume of files, which an ASSUME of the
  MC module has TLC evaluate.

Weights up to 2, two configurations and at most one retry reach every branch of
the handlers; a third real or checker adds no new pair of goroutines. The
announcer may stop for good, so its runs do not check for deadlock; in `Health`
the balancer's updater always ticks.

`health_quorum` shows a disagreement between code and comments, with a finding in
`PROJECT.json`: an outdated quorum decision is applied last, since it is computed and
applied without the service's lock.

More properties fail, and are kept as definitions without a run of their own until
the code decides about them. In parentheses: the module, and the instance or the
configurations of the MC module with which TLC finds the violation.

* `StopWithdrawsAll` (`Announcer`, `announcer_stable`): the updater sends a batch it
  flushed before Stop after `removeAll` withdrew the prefixes.
* `NoLostAnnounce` (`Announcer`, `MovingConfigs`): after a change of its group a
  prefix may never be announced.
* `SettledNotStale` (`AnnouncerRestart`, `restart`): an answer read as Ready is sent
  after the change to Unready cancelled the pending event.
* `WeightFollowsConfig` (`Health`, two checkers, `WeightConfigs`): a check reports
  between UpdateWeight and the assignment of the new config and resets the flag.
* `BalancerInSync` (`Health`, two checkers of one real, `TwoCheckers`): their
  events are stored in the opposite order.
* `RealFollowsCheckers` (`Health`, `CheckerConfigs`): removing one of two checkers
  takes the real down.
* `WeightConserved` (`Health`, `InhibitTwo`): a shutdown is subtracted twice under
  inhibit_on_failure.
* `RestartHeals` (`AnnouncerRestart`, both groups, `MovingConfigs`): a state request that
  is answered between the two halves of a reload does not list a prefix that moved to
  the group, since the group registry still has it in the former one; its event was
  cancelled, as under `NoLostAnnounce`, so nothing announces it.
* `RestartHeals` without the exception `Unlisted` (`AnnouncerRestart`, `restart`): two
  reloads remove and add the prefix between the two locks of an update; the update makes
  it ready before the second reload has reached the group registry. If the batch with its
  event is lost because BIRD is away and the request of the restarted BIRD is answered
  then, the prefix is not listed and nothing announces it.
* `ReloadAlwaysEnds` (`Health`, `health_live`): Real.Stop meets the initial reload of the
  real after it added a checker and waits for it until the context of the application
  is cancelled; or it comes before Real.Run has reached its loop.
* `OneServicePerKey` (`Lifecycle`, `RepeatedFiles`): Core.Reload
  creates the second service without stopping the first.
* `StopDisablesReals` (`Health`, one checker, `InhibitOff`): a reload turned
  inhibit_on_failure off while the real was inhibited, disableReal drops the
  shutdown event, and the real stays enabled with weight 0.
* `AnnouncerInSync` (`Health`, `health_reload` and `GroupConfigs`): a checker and a
  reload change the state one after the other before either records it, and both
  record the later state; and a group given to a service that is alive already is
  not recorded, since processAnnounce acts on changes of the state only.
* `StopAlwaysEnds` (`Lifecycle`, `lifecycle`): a reload aborted by Stop has moved
  services out of the map that Stop looks at, or a service or one of its reals is
  stopped before it runs or during its initial reload.
* `DownAfterFailedRound` (`CheckLoop`, `check_loop`): a checker goes down in the middle
  of a round: a success of an alive checker does not reset its failed attempts, so
  those of earlier rounds count.
* `MessageIsSent` (`Tunnel`, `tunnel`): New fills a local map of sockets
  (check_tun.go:117-133) and the field stays empty; getSocket fails for every message.
* `TimeoutsFollow`, `NoOrphans`, `RunsAsConfigured` (`Reconfiguration`, `OddFiles` with
  `OddText` and `OddMeant`): the connect timeout is missing in the checker's key, so a
  reload that changes it keeps the old one; of two services, two reals of a service or
  two checkers of a real with one key the first is started, replaced in the map and never
  stopped (files `serviceTwice`, `realTwice`, `checkerTwice`; each breaks `NoOrphans`);
  lvs_method of a real in lower case is taken for another method.
* `DumpFollows` without `raced` (`Reconfiguration`, `reload_config`): the dump of an
  earlier request is written after that of a later one, or fails.

Remarks on the same code, not stated as properties: an IPv6 FRAGMENT header is
skipped as 16 bytes instead of 8 (check_tun.go:469); splitLine loses a brace that
follows a word without a space and rejects a comment with an unmatched quote, and
either way the file is refused; an include that matches nothing adds nothing, silently; a delay
below one second becomes zero.

So the border of what the code keeps is visible, and the theorems draw it: what they
assume of the configurations is what the counterexamples above need. `BalancerInSync`
and `StopDisablesReals` hold with one checker per real and an unchanged
inhibit_on_failure, `RealFollowsCheckers` with one checker per real, `WeightConserved` and
`StopDrains` without inhibit_on_failure and, with it, as long as there is no reload and
no stop; `NoLostAnnounce` and, with its exceptions, `RestartHeals` as long as prefixes
keep their group;
`OneServicePerKey` for files without repeated keys; the other properties of `Lifecycle`
outside the windows named there, and those of `Reconfiguration` for files that repeat no
service, real or checker and have methods in upper case.

`TypeOK` is part of the inductive invariant in every module that theorems are about.

## Proofs

The theorems hold for every value of the constants that the ASSUMEs of the modules
allow: any sets of services, prefixes, groups, reals, checkers, requests and workers
(finite where something is counted or summed), any configurations of the right
shape, any number of retries, any batch. What a theorem needs beyond that stands in
its statement, as a condition on the configurations:

| condition | says | without it |
|---|---|---|
| `StableGroups` (`Announcer`) | no two configurations give a prefix two groups | `NoLostAnnounce`, `RestartHeals`, `ImplementsAnnouncement` fail |
| `DistinctKeys` (`Lifecycle`) | no file names a service twice | `OneServicePerKey` fails |
| `OneChecker` (`Health`) | a real has one checker at most | `RealFollowsCheckers`, `BalancerInSync` fail |
| `SteadyInhibit` (`Health`) | a reload does not change inhibit_on_failure of a real | `StopDisablesReals` fails |
| `NoInhibit` (`Health`) | inhibit_on_failure is off | `WeightConserved` fails |
| `Understood` (`Reconfiguration`) | parser and decoder make of a file what it says, or refuse it | a recursion over lines; `FileUnderstood` checks it on the files of the instance |
| `ProperMethods` (`Reconfiguration`) | methods are TUN or GRE, those of reals in upper case | `RunsAsConfigured` fails |
| `DistinctEntries` (`Reconfiguration`) | no file has a service, a real of a service or a checker of a real twice | `NoOrphans`, `RunsAsConfigured` fail |
| `KnownReplacement` (`Reconfiguration`) | replace_mh_with is neither mh nor wlc | the replacement is not converted again, so `DumpFollows` fails |

The inductive invariants are written in the module of the component, next to the
property, so that TLC can check them on the instances as well.

`AnnouncerProofs`:

* `TypeCorrect`;
* `NoStaleAnnounceTheorem`. The property alone is not inductive: the cancelling
  Merge could turn a pending Ready and a new Unready into nothing while BIRD
  announces the prefix. `AnnounceInv` rules that out: a pending Ready belongs to a
  ready prefix that BIRD does not announce yet, a pending Unready to one that is not
  ready, and with nothing pending BIRD announces only ready ones (`KeyInv`, per
  prefix and group); services of unknown prefixes have no status (`UnknownIsClean`).
  Each action either leaves a key alone or moves it between these three cases;
* `NoLostAnnounceTheorem`, with `StableGroups`. `StableInv` adds the other direction
  (`KeyKept`): a pending Unready belongs to a prefix that BIRD announces, so that no
  Ready is cancelled by one that had nothing to withdraw. That needs that a prefix
  comes back to the group it left (`GroupsConfigured`);
* `CountersTheorem`: adding and subtracting one keeps `active` the number of
  enabled services, with the cardinality theorems for finite sets;
* `AnnouncementTheorem`, with `StableGroups`: every step of `Announcer` is a step of
  `Announcement` or none. With `StableInv`, what is pending for a key is the difference
  between what BIRD announces and what is ready, in both directions, so a flush takes
  exactly the ready prefixes; a batch that is half sent leaves the other groups as they
  are. After Stop prefixes still get ready, and `removeAll` may have withdrawn some that
  nothing has recorded; so a flush takes what BIRD still announces or what is recorded,
  by `KeyInv` ready prefixes only, and not always all of them;
* `RestartHealsTheorem`, with `StableGroups`. `HealInv` says of a group whose BIRD came
  back and whose prefixes have not changed since (`CleanInv`): a ready prefix is
  announced, or recorded, or in the batch, or still on its way in the answer (the
  request is open, or the handler has yet to read its status, or has read it as
  Ready); and nothing else is announced. The handler finds the ready prefixes because
  the registry has all known ones but during a reload (`Registered`), and then `Unlisted`
  is the only way to miss one.

`HandlerProofs` is about the operators `Health` is built from, for every state,
configuration and event:

* `RecalculateApproaches`: the damped weight never overshoots and never stalls;
* `DeltaIsTheChange`: what the service adds is exactly the change of the real's
  contribution, except for the shutdown of an `inhibit_on_failure` real that is not
  enabled; `WeightConserved` with `InhibitTwo` fails exactly there;
* lemmas about sums over finite sets (`SumFunctionType`, `SumFunctionUpdate`): changing
  one value changes the sum by the difference. They go by a minimal counterexample
  among the subsets of the set, since the library's induction theorems take an
  operator and are out of reach.

`HealthProofs`, about the goroutines of checkers, reals, a service and the balancer:

* `StructureTheorem`: `StructureInv` says how the parts fit together (which goroutine
  carries an event, which checkers a real has and stops in each phase of its reload, also
  when Stop meets the initial one (`RealFits`), what the reloader of the service has
  still to do), `AliveInv` that a real lives only
  by a checker of it that has not been through its shutdown. No condition is needed,
  and `RealDiesWithCheckersTheorem` follows;
* `RealFollowsCheckersTheorem`, with `OneChecker`, from `OnlyCheckerInv`: the only checker
  of a real and the real change together;
* `BalancerInSyncTheorem` and `StopDisablesRealsTheorem`, with `OneChecker` and
  `SteadyInhibit`. In `SyncInv` an event goes from what the load balancer will have to
  what the real is, and a pending event starts at what the load balancer has; so a
  Merge that drops an event that restores the initial status drops nothing the load
  balancer needs, although requests fail and are repeated. `InhibitInv` says that an
  inhibited real has the option on, and a checker that will take it down;
* `WeightConservedTheorem` and `StopDrainsTheorem`, with `NoInhibit`, for any number of
  reals and checkers: every section of a handler adds to one sum what it takes from
  another (`DeltaIsTheChange` with the lemmas about sums, and the coherence of every
  real's state, `RealsCoherent`); in a stopped service all sums are zero;
* `RunningWeightTheorem`: with inhibit_on_failure, the same for a service that is
  neither reloaded nor stopped (`SpecRunning`, `RunningInv`).

`StateSyncProofs`, for any set of reals:

* `SyncTheorem`: the inductive invariant `SyncInv`. A value in a subscription means
  that the real was reported; a closed subscription or a cancelled context means
  that the real is stopped, or active already, since waitActivation cancels the
  context of every activation that ends;
* `Implementation`: hence every step of `StateSync` is a step of `Activation` or
  none. `reported` is a history variable for it.

`LifecycleProofs`, with `DistinctKeys`, any number of concurrent requests and files:

* `LifeInvariant`: `LifeInv` says who has servicesMu and what is over once Stop has begun
  (`MutexInv`), that a service is in one map, the one of its key, and the new map has
  exactly what the reload has dealt with (`MapsInv`), that a live service is in a map
  (`LiveInMap`), and what holds without a race (`UnracedInv`);
* `OneServicePerKeyTheorem`, `ServicesFollowConfigTheorem` and `NoSendOnClosedTheorem` follow.

`CheckLoopProofs`, for any kind of check, settings, answers and schedule:

* `AliveIsLastRoundTheorem`, `RealKnowsTheorem` and `QuietAfterStopTheorem`, from `LoopInv`.
  `AttemptsCounted` is the step that matters: attempts left over from earlier rounds
  are never fewer than those of this round, so the last attempt of a failed round
  finds the counter at the retries at least. `StopWaits` says that Stop returns before
  the end of Run only if Run had not counted itself.

`TunnelProofs`, for any number of workers, any batch, any bound on failed verdicts and
any queue that `QueueAssumption` allows:

* `TunnelTypeCorrect`;
* `RoomWhenIdleTheorem`, from `QueueInv`. For every place from which a verdict may still
  come (and for the head of the queue), the packets counted after it, together with
  `Batch - 1` for each worker that has not counted a packet up to that place, are at
  most what the counter holds, `Batch` for each verdict after it that is pending or has
  failed, and `Batch - 1` for each worker but one. A bound for the head alone is not
  inductive: a late verdict on an early packet drops less than a batch.

`ReconfigurationProofs`, for any files that are `Understood`, any number of requests and any
texts, that is about everything after the parser (defaults and inheritance on three
levels, canonical spellings, groups, keys, reloads and dumps):

* `ReconfigurationInvariant`: the inductive invariant. `RunsEntries` says that the checkers
  a reload can find are those of the entries of the applied configuration that are the last
  ones with their keys (`Known`), and that each has all settings its key stands for,
  whatever the reload was that created it; the key settles all of them but the timeouts,
  and the forwarding method, which the reload compares itself. That needs no condition on
  the files: what else was started is in `orphans`.
  `DumpInv` says that without a race at most one dump is due, that of what is applied;
* `RunsAsConfiguredTheorem`, with `ProperMethods` and `DistinctEntries`: every entry is the
  last one with its key (`AllKnown`), and there are no orphans. The lists of
  checkers of a real, one per type, are concatenated (Real.reload); every place in the
  result has an origin in the file and every place of the file is an origin, and the
  settings there are those of the innermost level that gives them;
* `OneGroupPerPrefixTheorem`: the group of a prefix is that of the least service of the
  prefix that names one, in whatever spelling;
* `NoOrphansTheorem`, with `DistinctEntries`: what the key holds tells two services, reals
  or checkers apart whenever the file does, and different places have different origins;
* `DumpFollowsTheorem`, with `KnownReplacement`.

Only model-checked:

* all liveness properties, since fairness and ENABLED are out of the prover's reach:
  `ReadyIsAnnounced`, `StaleIsWithdrawn`, `RestartLeadsToSync`, `ReloadEnds`, `DownIsDisabled`,
  `PresentIsActivated`, `StopEndsWait`, `StopEnds`, `RequestEnds`, `ManualWeightArrives`,
  `PacketIsHandled`;
* `ProbeRestored`, which is about bytes, words and carries, on the packets of the
  instance;
* `FileUnderstood`, the parser and the decoder: they go over lines, characters and
  nested blocks by recursion, and what a recursive definition computes for every input
  is out of reach. The theorems of `ReconfigurationProofs` have it as a hypothesis.

## Bounds and abstractions

* The counter of failed attempts stops one above the retries; only the comparison
  with them is ever used. Weights stay far below 2^32.
* Timestamps, metrics, logs and transition counters are left out.
* A checker whose Stop has returned is reset to the state of a new one: its object
  is unreachable.
* `Health` starts a Stop or a reload of the service only when no other is under way;
  those that meet are the subject of `Lifecycle`. A stop of a real meets its initial reload
  in both. The context of the application, which main cancels in the end and which frees
  what hangs on checkers that nobody stops, is in `CheckLoop` only. A change of the forwarding method, which replaces every checker, is in
  `Reconfiguration`.
* Times are tenths of a second in `Configuration`; values of a file are converted
  already when the parser sees them; a timer may fire at any time.
* In `Tunnel` verdicts fail at most `MaxFailures` times for good; without a bound
  nothing keeps the queue from filling up.
* `Announcer` takes one reload at a time (Core.Reload has its lock) and one UpdateService
  at a time (the balancer's updater is the only caller).
* `Reconfiguration` starts without a dump; one left by an earlier process stays as it is
  until the first request has dumped. It does not model the wait of a reload that
  stops a real or service with orphans: their pool is never empty.

## Plan

What is left:

1. `Health` with a failing Flush and the announce after it, composed with
   `Announcer`.
2. `WeightConserved` and `BalancerInSync` with a weaker condition than `NoInhibit` and
   `OneChecker`, once the code decides what it promises there.

## Not modelled

* The encoding of the messages to BIRD and YANET, TLS, HTTP and gRPC transport, and
  the opening and binding of sockets: pure I/O; the models see success, failure and
  delay.
* The chunks in which SendBatch cuts a batch.
* A failing client.Flush: what an unflushed request means is decided by the load
  balancer.
* The conversion of single values and the reflection in the keepalived decoder, and
  file patterns in include.
* Metrics, logging and the throttler of log lines: they observe only.
