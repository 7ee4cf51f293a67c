----------------------------- MODULE Announcer -----------------------------
(***************************************************************************)
(* internal/announcer: which prefixes are ready to be announced, and the   *)
(* path of every change of readiness to BIRD.                              *)
(*                                                                         *)
(* Three goroutines meet here.  The caller of ReloadServices (Core.Reload) *)
(* and the caller of UpdateService (the balancer's updater) change the     *)
(* prefixes and record status changes in a registry keyed by (prefix,      *)
(* group); the announcer's updater flushes that registry on a ticker and   *)
(* sends what it flushed to BIRD, one announce group after the other, with *)
(* no lock held; Stop withdraws everything while the updater may still be  *)
(* sending.  Nobody waits for the two callers at shutdown: Core.Stop and   *)
(* Balancer.Stop only signal, so a reload and an update may still come in  *)
(* during Stop and after it.                                               *)
(***************************************************************************)
EXTENDS EventRegistry, FiniteSets

CONSTANTS
    Service,     \* key.Service: the virtual services
    Prefix,      \* netip.Prefix: their host prefixes
    PrefixOf,    \* Service.Prefix()
    Group,       \* config.AnnounceGroup: the announce groups BIRD serves
    NoGroup,     \* "": the service is not announced, the prefix is not known
    Configs      \* the configurations Reload may be given

ASSUME ConstantsAssumption ==
    /\ IsFiniteSet(Service)
    /\ PrefixOf \in [Service -> Prefix]
    /\ NoGroup \notin Group

(* A configuration names an announce group for each service it announces.  *)
(* It may also name groups that are not in Group: those are refused.       *)
ASSUME ConfigsAssumption ==
    \A cfg \in Configs : DOMAIN cfg = Service

VARIABLES
    group,          \* Prefixes.prefixes[p].group; NoGroup: p is not in the map
    status,         \* Prefixes.prefixes[p].services[s]; NoStatus: not there
    active,         \* Prefixes.prefixes[p].active
    quorum,         \* Prefixes.prefixes[p].quorum
    events,         \* Prefixes.events: registry keyed by PrefixKey
    groupByPrefix,  \* AnnounceGroupRegistry.groupByPrefix
    reloading,      \* ReloadServices has yet to store its local groupByPrefix
    located,        \* the UpdateService between its two locks, if there is one
    batch,          \* updater's local eventsByGroup, less the groups it sent
    announced,      \* external: the prefixes BIRD announces in each group
    birdUp,         \* external: BIRD reads the socket of the group
    updater,        \* the updater goroutine: "running" or "exited"
    stop,           \* progress of Stop
    unstopped       \* the groups removeAll has yet to handle

prefixVars == <<group, status, active, quorum>>
stopVars == <<updater, stop, unstopped>>
birdVars == <<announced, birdUp>>
vars == <<group, status, active, quorum, events, groupByPrefix, reloading, located,
          batch, announced, birdUp, updater, stop, unstopped>>

NoStatus == "NoStatus"

(* PrefixKey *)
Key == Prefix \X Group

ServicesOf(p) == {s \in Service : PrefixOf[s] = p}

-----------------------------------------------------------------------------
(* prefixState.status: ready when every one of its services is active.     *)
StatusOf(actives, required) ==
    IF required = actives /\ actives # 0 THEN Ready ELSE Unready

PrefixIsReady(p) == StatusOf(active[p], quorum[p]) = Ready

(* The announce BIRD ought to carry: p is in group g and is ready.         *)
Effective(p, g) == group[p] = g /\ PrefixIsReady(p)

-----------------------------------------------------------------------------
Init ==
    /\ group = [p \in Prefix |-> NoGroup]
    /\ status = [s \in Service |-> NoStatus]
    /\ active = [p \in Prefix |-> 0]
    /\ quorum = [p \in Prefix |-> 0]
    /\ events = EmptyRegistry(Key)
    /\ groupByPrefix = [p \in Prefix |-> NoGroup]
    /\ reloading = FALSE
    /\ located = {}
    /\ batch = EmptyRegistry(Key)
    /\ announced = [g \in Group |-> {}]
    /\ birdUp = [g \in Group |-> TRUE]
    /\ updater = "running"
    /\ stop = "no"
    /\ unstopped = {}

-----------------------------------------------------------------------------
(* Announcer.ReloadServices, first part: validation, then                  *)
(* Prefixes.ReloadServices under the write lock.                           *)

(* An unknown group, or one prefix in two groups, is refused: ReloadServices *)
(* returns the error before it changes anything.                            *)
Valid(cfg) ==
    /\ \A s \in Service : cfg[s] \in Group \cup {NoGroup}
    /\ \A s, t \in Service :
          PrefixOf[s] = PrefixOf[t] /\ cfg[s] # NoGroup /\ cfg[t] # NoGroup
              => cfg[s] = cfg[t]

ServicesIn(cfg, p) == {s \in ServicesOf(p) : cfg[s] # NoGroup}

GroupByPrefix(cfg) ==
    [p \in Prefix |->
        IF ServicesIn(cfg, p) = {} THEN NoGroup
        ELSE cfg[CHOOSE s \in ServicesIn(cfg, p) : TRUE]]

(* Faulty variant: active is not recounted for the services that stay.      *)
AppliedActiveKept(cfg) ==
    [p \in Prefix |->
        Cardinality({s \in ServicesOf(p) : status[s] = ServiceEnabled})]

(* ApplyServices for a prefix that stays, newState for one that is added    *)
(* (none of its services is known yet), removal for one that goes away: a   *)
(* service keeps its Enabled status only if it was known before.            *)
AppliedStatus(cfg) ==
    [s \in Service |->
        CASE cfg[s] = NoGroup -> NoStatus
          [] cfg[s] # NoGroup /\ status[s] = ServiceEnabled -> ServiceEnabled
          [] OTHER -> ServiceDisabled]

AppliedActive(cfg) ==
    [p \in Prefix |->
        Cardinality({s \in ServicesIn(cfg, p) : status[s] = ServiceEnabled})]

AppliedQuorum(cfg) ==
    [p \in Prefix |-> Cardinality(ServicesIn(cfg, p))]

(* Faulty variant: a prefix that leaves its group is forgotten.             *)
ReloadEventForgets(p, g, newGroup, newStatus) ==
    CASE group[p] = g /\ newGroup = g /\ newStatus # StatusOf(active[p], quorum[p]) ->
             newStatus
      [] group[p] \notin {g, NoGroup} /\ newGroup = g -> newStatus
      [] OTHER -> NoEvent

(* Faulty variant: the status of a prefix that stays is not compared.       *)
ReloadEventMoves(p, g, newGroup, newStatus) ==
    CASE group[p] = g /\ newGroup = NoGroup /\ PrefixIsReady(p) -> Unready
      [] group[p] = g /\ newGroup \notin {g, NoGroup} -> Unready
      [] group[p] \notin {g, NoGroup} /\ newGroup = g -> newStatus
      [] OTHER -> NoEvent

(* The event the reload of prefix p stores under the key (p, g).            *)
ReloadEvent(p, g, newGroup, newStatus) ==
    CASE group[p] = g /\ newGroup = NoGroup ->
             IF PrefixIsReady(p) THEN Unready ELSE NoEvent
      [] group[p] = g /\ newGroup = g ->
             IF newStatus # StatusOf(active[p], quorum[p])
             THEN newStatus ELSE NoEvent
      [] group[p] = g /\ newGroup \notin {g, NoGroup} -> Unready
      [] group[p] \notin {g, NoGroup} /\ newGroup = g -> newStatus
      [] OTHER -> NoEvent

(* Core.Reload calls it under servicesMu: one at a time, Stop or not.        *)
ReloadServices(cfg) ==
    /\ ~reloading
    /\ Valid(cfg)
    /\ group' = GroupByPrefix(cfg)
    /\ status' = AppliedStatus(cfg)
    /\ active' = AppliedActive(cfg)
    /\ quorum' = AppliedQuorum(cfg)
    /\ events' = [k \in Key |->
                    LET e == ReloadEvent(k[1], k[2], group'[k[1]],
                                         StatusOf(active'[k[1]], quorum'[k[1]]))
                    IN  IF e = NoEvent THEN events[k] ELSE StoredPrefix(events[k], e)]
    /\ reloading' = TRUE
    /\ UNCHANGED <<groupByPrefix, located, batch, birdVars, stopVars>>

(* Second part: AnnounceGroupRegistry.Update, a lock of its own.  The local *)
(* groupByPrefix it stores is what the first part gave the prefixes.        *)
UpdateGroups ==
    /\ reloading
    /\ groupByPrefix' = group
    /\ reloading' = FALSE
    /\ UNCHANGED <<prefixVars, events, located, batch, birdVars, stopVars>>

-----------------------------------------------------------------------------
(* Announcer.UpdateService, called by the balancer's updater, one call at a *)
(* time.  First the lock of the group registry: a prefix with no announce   *)
(* group is refused.  Whole reloads fit in between this and the second      *)
(* lock.                                                                    *)
GetGroup(s, st) ==
    /\ located = {}
    /\ groupByPrefix[PrefixOf[s]] # NoGroup
    /\ located' = {<<s, st>>}
    /\ UNCHANGED <<prefixVars, events, groupByPrefix, reloading, batch,
                   birdVars, stopVars>>

(* The prefix has the service, with another status.                         *)
Differs(s, st) == group[PrefixOf[s]] # NoGroup /\ status[s] \notin {NoStatus, st}

(* prefixState.UpdateService and the event of its prefix.                   *)
SetStatus(s, st) ==
    LET p == PrefixOf[s]
        newActive == IF st = ServiceEnabled THEN active[p] + 1 ELSE active[p] - 1
        old == StatusOf(active[p], quorum[p])
        new == StatusOf(newActive, quorum[p])
    IN  /\ Differs(s, st)
        /\ status' = [status EXCEPT ![s] = st]
        /\ active' = [active EXCEPT ![p] = newActive]
        /\ events' = IF new # old
                     THEN [events EXCEPT ![<<p, group[p]>>] = StoredPrefix(@, new)]
                     ELSE events
        /\ UNCHANGED <<group, quorum>>

(* Then Prefixes.UpdateService under the lock of the prefixes.  A prefix    *)
(* that is gone, a service its prefix does not have and a status it already *)
(* has all leave everything as it is.                                       *)
UpdateService(s, st) ==
    /\ <<s, st>> \in located
    /\ located' = {}
    /\ \/ SetStatus(s, st)
       \/ ~Differs(s, st) /\ UNCHANGED <<prefixVars, events>>
    /\ UNCHANGED <<groupByPrefix, reloading, batch, birdVars, stopVars>>

-----------------------------------------------------------------------------
(* The updater goroutine. *)

(* A tick: the pending events move into the updater's local map.  The tick  *)
(* may still be selected once shutdown is signalled.                        *)
Flush ==
    /\ updater = "running"
    /\ Pending(batch) = {}
    /\ Pending(events) # {}
    /\ batch' = events
    /\ events' = EmptyRegistry(Key)
    /\ UNCHANGED <<prefixVars, groupByPrefix, reloading, located, birdVars, stopVars>>

BatchOf(g) == {k \in Pending(batch) : k[2] = g}

(* Client.ProcessBatch: BIRD applies the statuses of one group.  After       *)
(* Client.Shutdown, and while nobody reads BIRD's end of the socket, the     *)
(* write fails, which is logged and forgotten.                               *)
ProcessBatch(g, raised, removed) ==
    /\ announced' = IF stop = "closed" \/ ~birdUp[g] THEN announced
                    ELSE [announced EXCEPT ![g] = (@ \cup raised) \ removed]
    /\ UNCHANGED birdUp

(* Faulty variant: the updater gives up its batch after the first group.    *)
SendFirst(g) ==
    /\ updater = "running"
    /\ BatchOf(g) # {}
    /\ ProcessBatch(g, {k[1] : k \in {b \in BatchOf(g) : batch[b] = Ready}},
                       {k[1] : k \in {b \in BatchOf(g) : batch[b] = Unready}})
    /\ batch' = EmptyRegistry(Key)
    /\ UNCHANGED <<prefixVars, events, groupByPrefix, reloading, located, stopVars>>

Send(g) ==
    /\ updater = "running"
    /\ BatchOf(g) # {}
    /\ ProcessBatch(g, {k[1] : k \in {b \in BatchOf(g) : batch[b] = Ready}},
                       {k[1] : k \in {b \in BatchOf(g) : batch[b] = Unready}})
    /\ batch' = Processed(batch, BatchOf(g))
    /\ UNCHANGED <<prefixVars, events, groupByPrefix, reloading, located, stopVars>>

UpdaterExit ==
    /\ updater = "running"
    /\ stop # "no"
    /\ Pending(batch) = {}
    /\ updater' = "exited"
    /\ UNCHANGED <<prefixVars, events, groupByPrefix, reloading, located, batch,
                   birdVars, stop, unstopped>>

-----------------------------------------------------------------------------
(* Announcer.Stop: signal shutdown, removeAll group by group, close the     *)
(* client.                                                                  *)
Stop ==
    /\ stop = "no"
    /\ stop' = "removing"
    /\ unstopped' = Group
    /\ UNCHANGED <<prefixVars, events, groupByPrefix, reloading, located, batch,
                   birdVars, updater>>

RemoveAll(g) ==
    /\ stop = "removing"
    /\ g \in unstopped
    /\ ProcessBatch(g, {}, {p \in Prefix : groupByPrefix[p] = g})
    /\ unstopped' = unstopped \ {g}
    /\ UNCHANGED <<prefixVars, events, groupByPrefix, reloading, located, batch,
                   updater, stop>>

ClientShutdown ==
    /\ stop = "removing"
    /\ unstopped = {}
    /\ stop' = "closed"
    /\ UNCHANGED <<prefixVars, events, groupByPrefix, reloading, located, batch,
                   birdVars, updater, unstopped>>

-----------------------------------------------------------------------------
Next ==
    \/ \E cfg \in Configs : ReloadServices(cfg)
    \/ UpdateGroups
    \/ \E s \in Service, st \in ServiceStatus : GetGroup(s, st) \/ UpdateService(s, st)
    \/ Flush
    \/ \E g \in Group : Send(g)
    \/ UpdaterExit
    \/ Stop
    \/ \E g \in Group : RemoveAll(g)
    \/ ClientShutdown

Spec == Init /\ [][Next]_vars

(* The updater's ticker keeps firing, and a ProcessBatch returns.           *)
UpdaterFairness ==
    /\ WF_vars(Flush)
    /\ \A g \in Group : WF_vars(Send(g))

FairSpec == Spec /\ UpdaterFairness

-----------------------------------------------------------------------------
TypeOK ==
    /\ group \in [Prefix -> Group \cup {NoGroup}]
    /\ status \in [Service -> ServiceStatus \cup {NoStatus}]
    /\ active \in [Prefix -> Int]
    /\ quorum \in [Prefix -> Int]
    /\ events \in [Key -> PrefixStatus \cup {NoEvent}]
    /\ groupByPrefix \in [Prefix -> Group \cup {NoGroup}]
    /\ reloading \in BOOLEAN
    /\ located \in SUBSET (Service \X ServiceStatus)
    /\ batch \in [Key -> PrefixStatus \cup {NoEvent}]
    /\ announced \in [Group -> SUBSET Prefix]
    /\ birdUp \in [Group -> BOOLEAN]
    /\ updater \in {"running", "exited"}
    /\ stop \in {"no", "removing", "closed"}
    /\ unstopped \in SUBSET Group

-----------------------------------------------------------------------------
(* What BIRD will announce once the updater has sent its current batch.     *)
AfterBatch(p, g) ==
    IF batch[<<p, g>>] = NoEvent THEN p \in announced[g]
    ELSE batch[<<p, g>>] = Ready

(* The incrementally kept counters of a prefix are the counts they stand    *)
(* for: prefixState.active and quorum agree with the services map whatever  *)
(* the order of reloads and (possibly repeated) service updates.            *)
CountersExact ==
    \A p \in Prefix :
        /\ active[p] = Cardinality({s \in ServicesOf(p) : status[s] = ServiceEnabled})
        /\ quorum[p] = Cardinality({s \in ServicesOf(p) : status[s] # NoStatus})

(* No stale announce: as long as the client is open, a prefix that BIRD     *)
(* announces (or will, after the batch in flight) in a group where it is    *)
(* not ready has its withdrawal recorded, so that the next tick removes it. *)
(* The cancelling Merge must never swallow that withdrawal.                 *)
NoStaleAnnounce ==
    stop # "closed" =>
        \A p \in Prefix, g \in Group :
            AfterBatch(p, g) /\ ~Effective(p, g) => events[<<p, g>>] = Unready

(* No lost announce: a ready prefix that BIRD does not announce has its     *)
(* announce recorded ("Update the service status and record any status      *)
(* change as an event", Prefixes.UpdateService).                            *)
NoLostAnnounce ==
    stop = "no" =>
        \A p \in Prefix, g \in Group :
            Effective(p, g) /\ ~AfterBatch(p, g) => events[<<p, g>>] = Ready

(* "to ensure no announces remain active" (Announcer.removeAll): when Stop  *)
(* has returned BIRD announces nothing.                                     *)
StopWithdrawsAll ==
    stop = "closed" => \A g \in Group : announced[g] = {}

(* A prefix that stays ready is announced within the updater's ticks.       *)
ReadyIsAnnounced ==
    \A p \in Prefix, g \in Group :
        Effective(p, g) ~> (p \in announced[g] \/ ~Effective(p, g) \/ stop # "no")

(* A prefix announced in a group where it is no longer ready is withdrawn   *)
(* from it: it moved to another group, it left the configuration or one of  *)
(* its services went down.                                                  *)
StaleIsWithdrawn ==
    \A p \in Prefix, g \in Group :
        (p \in announced[g] /\ ~Effective(p, g))
            ~> (p \notin announced[g] \/ Effective(p, g) \/ stop # "no")

-----------------------------------------------------------------------------
(* As Announcement sees it.  Once the client is closed nothing is delivered.  *)
ReadyIn == [g \in Group |-> {p \in Prefix : Effective(p, g)}]

GoalIn ==
    [g \in Group |-> IF stop = "closed" THEN announced[g] ELSE {p \in Prefix : AfterBatch(p, g)}]

Phase ==
    CASE stop = "no" -> "running" [] stop = "removing" -> "stopping" [] OTHER -> "closed"

N == INSTANCE Announcement WITH ready <- ReadyIn, goal <- GoalIn, phase <- Phase

(* Whatever reloads, health checks, ticks and Stop do between each other,     *)
(* BIRD gets what was ready at the last tick, no change lost and none made up, *)
(* although the updater sends changes only, merged, one group after the other, *)
(* with no lock held (Announcer.updater, PrefixStatus.Merge).  Holds for stable *)
(* groups.                                                                     *)
ImplementsAnnouncement == N!Spec

-----------------------------------------------------------------------------
(* The inductive invariant behind NoStaleAnnounce.                          *)

(* Nothing is left of the services of a prefix that is not in the map.      *)
UnknownIsClean ==
    \A s \in Service : group[PrefixOf[s]] = NoGroup => status[s] = NoStatus

(* A pending Ready belongs to a ready prefix that BIRD does not announce    *)
(* yet, a pending Unready to a prefix that is not ready; with no event      *)
(* pending, BIRD announces only what is ready.                              *)
KeyInv(p, g) ==
    LET pending == events[<<p, g>>]
    IN  /\ pending = Ready => ~AfterBatch(p, g) /\ Effective(p, g)
        /\ pending = Unready => ~Effective(p, g)
        /\ pending = NoEvent => (AfterBatch(p, g) => Effective(p, g))

AnnounceInv ==
    /\ TypeOK
    /\ birdUp = [g \in Group |-> TRUE]
    /\ UnknownIsClean
    /\ stop # "closed" => \A p \in Prefix, g \in Group : KeyInv(p, g)

-----------------------------------------------------------------------------
(* NoLostAnnounce needs more: a prefix that moves away from a group where   *)
(* it was not ready leaves an Unready there, which cancels the Ready of its *)
(* return.  It holds if no two configurations give a prefix two groups.     *)
StableGroups ==
    \A old, new \in Configs : Valid(old) /\ Valid(new) =>
        \A s, t \in Service :
            PrefixOf[s] = PrefixOf[t] /\ old[s] # NoGroup /\ new[t] # NoGroup
                => old[s] = new[t]

(* The group of a known prefix comes from a configuration.                  *)
Configured(p, g) ==
    \E cfg \in Configs, s \in ServicesOf(p) : Valid(cfg) /\ cfg[s] = g

GroupsConfigured ==
    \A p \in Prefix : group[p] # NoGroup => Configured(p, group[p])

(* A pending Unready belongs to a prefix that BIRD announces; with no event *)
(* pending, BIRD announces all that is ready.                               *)
KeyKept(p, g) ==
    /\ events[<<p, g>>] = Unready => AfterBatch(p, g)
    /\ events[<<p, g>>] = NoEvent => (Effective(p, g) => AfterBatch(p, g))

StableInv ==
    /\ AnnounceInv
    /\ GroupsConfigured
    /\ stop = "no" => \A p \in Prefix, g \in Group : KeyKept(p, g)
=============================================================================
