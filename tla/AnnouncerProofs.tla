-------------------------- MODULE AnnouncerProofs --------------------------
(* Theorems about Announcer and AnnouncerRestart, for every set of           *)
(* services, prefixes, groups and configurations.                           *)
EXTENDS AnnouncerRestart, FiniteSetTheorems, TLAPS

-----------------------------------------------------------------------------
(* The three values a prefix may have recorded differ.                      *)
LEMMA Distinct == Ready # Unready /\ Ready # NoEvent /\ Unready # NoEvent
  BY NoEventAssumption DEF PrefixStatus, Ready, Unready

(* What ReloadServices computes has the type of what it replaces.           *)
LEMMA GroupByPrefixType ==
    ASSUME NEW cfg \in Configs, Valid(cfg)
    PROVE  GroupByPrefix(cfg) \in [Prefix -> Group \cup {NoGroup}]
  <1> SUFFICES ASSUME NEW p \in Prefix, ServicesIn(cfg, p) # {}
               PROVE  cfg[CHOOSE s \in ServicesIn(cfg, p) : TRUE] \in Group \cup {NoGroup}
    BY DEF GroupByPrefix
  <1>1. (CHOOSE s \in ServicesIn(cfg, p) : TRUE) \in ServicesIn(cfg, p)
    OBVIOUS
  <1> QED
    BY <1>1 DEF ServicesIn, ServicesOf, Valid

(* Any set of services can be counted.                                      *)
LEMMA CountType ==
    ASSUME NEW S, S \subseteq Service
    PROVE  IsFiniteSet(S) /\ Cardinality(S) \in Nat
  BY ConstantsAssumption, FS_Subset, FS_CardinalityType

(* What a reload makes of the statuses and the counters.                    *)
LEMMA AppliedType ==
    ASSUME NEW cfg \in Configs
    PROVE  /\ AppliedStatus(cfg) \in [Service -> ServiceStatus \cup {NoStatus}]
           /\ AppliedActive(cfg) \in [Prefix -> Int]
           /\ AppliedQuorum(cfg) \in [Prefix -> Int]
  <1>1. AppliedStatus(cfg) \in [Service -> ServiceStatus \cup {NoStatus}]
    BY DEF AppliedStatus, ServiceStatus
  <1>2. ASSUME NEW p \in Prefix
        PROVE  /\ Cardinality({s \in ServicesIn(cfg, p) : status[s] = ServiceEnabled}) \in Int
               /\ Cardinality(ServicesIn(cfg, p)) \in Int
    BY CountType DEF ServicesIn, ServicesOf
  <1> QED
    BY <1>1, <1>2 DEF AppliedActive, AppliedQuorum

(* Store leaves the registry a registry.                                    *)
LEMMA StoredType ==
    ASSUME NEW old \in PrefixStatus \cup {NoEvent}, NEW value \in PrefixStatus
    PROVE  StoredPrefix(old, value) \in PrefixStatus \cup {NoEvent}
  BY DEF StoredPrefix, Stored, PrefixStatusMerge

(* The status a prefix has is one of the two.                               *)
LEMMA StatusOfType ==
    ASSUME NEW m, NEW n
    PROVE  StatusOf(m, n) \in PrefixStatus
  BY DEF StatusOf, PrefixStatus

(* What a reload records for a prefix is an event or none.                  *)
LEMMA ReloadEventType ==
    ASSUME NEW p, NEW g, NEW newGroup, NEW newStatus \in PrefixStatus
    PROVE  ReloadEvent(p, g, newGroup, newStatus) \in PrefixStatus \cup {NoEvent}
  BY DEF ReloadEvent, PrefixStatus

(* The event registry after a reload, key by key.                           *)
LEMMA ReloadEvents ==
    ASSUME TypeOK, NEW cfg \in Configs, ReloadServices(cfg)
    PROVE  /\ events' \in [Key -> PrefixStatus \cup {NoEvent}]
           /\ \A p \in Prefix, g \in Group :
                LET e == ReloadEvent(p, g, group'[p], StatusOf(active'[p], quorum'[p]))
                IN  events'[<<p, g>>] = IF e = NoEvent THEN events[<<p, g>>]
                                        ELSE StoredPrefix(events[<<p, g>>], e)
  <1> DEFINE E(k) == ReloadEvent(k[1], k[2], group'[k[1]],
                                 StatusOf(active'[k[1]], quorum'[k[1]]))
  <1>1. DOMAIN events = Key
    BY DEF TypeOK
  <1>2. events' = [k \in Key |-> IF E(k) = NoEvent THEN events[k]
                                 ELSE StoredPrefix(events[k], E(k))]
    BY <1>1 DEF ReloadServices
  <1>3. ASSUME NEW k \in Key
        PROVE  (IF E(k) = NoEvent THEN events[k]
                ELSE StoredPrefix(events[k], E(k))) \in PrefixStatus \cup {NoEvent}
    <2>1. E(k) \in PrefixStatus \cup {NoEvent}
      BY StatusOfType, ReloadEventType
    <2>2. events[k] \in PrefixStatus \cup {NoEvent}
      BY DEF TypeOK
    <2> QED
      BY <2>1, <2>2, StoredType
  <1>4. ASSUME NEW p \in Prefix, NEW g \in Group
        PROVE  <<p, g>> \in Key /\ <<p, g>>[1] = p /\ <<p, g>>[2] = g
    BY DEF Key
  <1> QED
    BY <1>2, <1>3, <1>4

(* A service update sets the status or leaves the prefixes alone.           *)
LEMMA UpdateEffect ==
    ASSUME NEW s, NEW st, UpdateService(s, st)
    PROVE  /\ SetStatus(s, st) \/ UNCHANGED <<prefixVars, events>>
           /\ UNCHANGED <<groupByPrefix, reloading, batch, birdVars, stopVars>>
  BY DEF UpdateService

-----------------------------------------------------------------------------
(* Type correctness of the announcer.                                       *)
LEMMA TypeStep == TypeOK /\ [Next]_vars => TypeOK'
  <1> SUFFICES ASSUME TypeOK, [Next]_vars PROVE TypeOK'
    OBVIOUS
  <1> USE DEF TypeOK
  <1>1. ASSUME NEW cfg \in Configs, ReloadServices(cfg) PROVE TypeOK'
    <2>1. group' \in [Prefix -> Group \cup {NoGroup}]
      BY <1>1, GroupByPrefixType DEF ReloadServices
    <2>2. /\ status' \in [Service -> ServiceStatus \cup {NoStatus}]
          /\ active' \in [Prefix -> Int]
          /\ quorum' \in [Prefix -> Int]
      BY <1>1, AppliedType DEF ReloadServices
    <2>3. events' \in [Key -> PrefixStatus \cup {NoEvent}]
      BY <1>1, ReloadEvents
    <2> QED
      BY <1>1, <2>1, <2>2, <2>3 DEF ReloadServices, stopVars, birdVars
  <1>2. CASE UpdateGroups
    BY <1>2 DEF UpdateGroups, prefixVars, stopVars, birdVars
  <1>3. ASSUME NEW s \in Service, NEW st \in ServiceStatus, UpdateService(s, st), SetStatus(s, st)
        PROVE  TypeOK'
    <2>1. PrefixOf[s] \in Prefix
      BY ConstantsAssumption
    <2>2. status' \in [Service -> ServiceStatus \cup {NoStatus}]
      BY <1>3 DEF SetStatus
    <2>3. active' \in [Prefix -> Int]
      BY <1>3, <2>1 DEF SetStatus
    <2>4. events' \in [Key -> PrefixStatus \cup {NoEvent}]
      <3> DEFINE k == <<PrefixOf[s], group[PrefixOf[s]]>>
      <3>1. k \in Key
        BY <1>3, <2>1 DEF SetStatus, Differs, Key
      <3>2. ASSUME NEW v \in PrefixStatus
            PROVE  [events EXCEPT ![k] = StoredPrefix(@, v)] \in [Key -> PrefixStatus \cup {NoEvent}]
        BY <3>1, StoredType
      <3> QED
        BY <1>3, <3>2, StatusOfType DEF SetStatus
    <2> QED
      BY <1>3, <2>2, <2>3, <2>4 DEF UpdateService, SetStatus, stopVars, birdVars
  <1>11. ASSUME NEW s \in Service, NEW st \in ServiceStatus,
                UpdateService(s, st), UNCHANGED <<prefixVars, events>>
         PROVE  TypeOK'
    BY <1>11 DEF UpdateService, prefixVars, stopVars, birdVars
  <1>12. ASSUME NEW s \in Service, NEW st \in ServiceStatus, GetGroup(s, st)
         PROVE  TypeOK'
    BY <1>12 DEF GetGroup, prefixVars, stopVars, birdVars
  <1>4. CASE Flush
    BY <1>4 DEF Flush, EmptyRegistry, prefixVars, stopVars, birdVars
  <1>5. ASSUME NEW g \in Group, Send(g) PROVE TypeOK'
    <2>1. batch' \in [Key -> PrefixStatus \cup {NoEvent}]
      BY <1>5 DEF Send, Processed
    <2>2. {k[1] : k \in {b \in BatchOf(g) : batch[b] = Ready}} \subseteq Prefix
      BY DEF BatchOf, Pending, Key
    <2>3. announced' \in [Group -> SUBSET Prefix] /\ birdUp' = birdUp
      BY <1>5, <2>2 DEF Send, ProcessBatch
    <2> QED
      BY <1>5, <2>1, <2>3 DEF Send, prefixVars, stopVars
  <1>6. CASE UpdaterExit
    BY <1>6 DEF UpdaterExit, prefixVars, birdVars
  <1>7. CASE Stop
    BY <1>7 DEF Stop, prefixVars, birdVars
  <1>8. ASSUME NEW g \in Group, RemoveAll(g) PROVE TypeOK'
    BY <1>8 DEF RemoveAll, ProcessBatch, prefixVars
  <1>9. CASE ClientShutdown
    BY <1>9 DEF ClientShutdown, prefixVars, birdVars
  <1>10. CASE UNCHANGED vars
    BY <1>10 DEF vars
  <1> QED
    BY <1>1, <1>2, <1>3, <1>4, <1>5, <1>6, <1>7, <1>8, <1>9, <1>10, <1>11, <1>12, UpdateEffect
       DEF Next

(* The types hold at the start.                                             *)
LEMMA TypeInit == Init => TypeOK
  <1> SUFFICES ASSUME Init PROVE TypeOK
    OBVIOUS
  <1>1. birdUp \in [Group -> BOOLEAN]
    BY Zenon DEF Init
  <1>2. /\ active \in [Prefix -> Int]
        /\ quorum \in [Prefix -> Int]
    BY DEF Init
  <1> QED
    BY <1>1, <1>2 DEF Init, TypeOK, EmptyRegistry

(* Every variable of the announcer keeps its type.                          *)
THEOREM TypeCorrect == Spec => []TypeOK
  BY TypeInit, TypeStep, PTL DEF Spec

-----------------------------------------------------------------------------
(* A prefix that a reload adds starts with none of its services active.     *)
LEMMA AddedIsUnready ==
    ASSUME TypeOK, UnknownIsClean, NEW cfg \in Configs, ReloadServices(cfg),
           NEW p \in Prefix, group[p] = NoGroup
    PROVE  StatusOf(active'[p], quorum'[p]) = Unready
  <1>1. {s \in ServicesIn(cfg, p) : status[s] = ServiceEnabled} = {}
    BY DEF UnknownIsClean, ServicesIn, ServicesOf, NoStatus, ServiceEnabled
  <1>2. active'[p] = 0
    BY <1>1, FS_EmptySet DEF ReloadServices, AppliedActive
  <1> QED
    BY <1>2 DEF StatusOf

(* A reload keeps the invariant of a prefix.                                *)
LEMMA KeyReload ==
    ASSUME AnnounceInv, stop # "closed", NEW cfg \in Configs, ReloadServices(cfg),
           NEW p \in Prefix, NEW g \in Group
    PROVE  KeyInv(p, g)'
  <1> DEFINE new == StatusOf(active'[p], quorum'[p])
             e == ReloadEvent(p, g, group'[p], new)
  <1>1. events'[<<p, g>>] = IF e = NoEvent THEN events[<<p, g>>]
                            ELSE StoredPrefix(events[<<p, g>>], e)
    BY ReloadEvents DEF AnnounceInv
  <1>2. AfterBatch(p, g)' <=> AfterBatch(p, g)
    BY DEF ReloadServices, AfterBatch, birdVars
  <1>3. Effective(p, g)' <=> group'[p] = g /\ new = Ready
    BY DEF Effective, PrefixIsReady
  <1>4. Effective(p, g) <=> group[p] = g /\ StatusOf(active[p], quorum[p]) = Ready
    BY DEF Effective, PrefixIsReady
  <1>5. new \in {Ready, Unready} /\ StatusOf(active[p], quorum[p]) \in {Ready, Unready}
    BY DEF StatusOf
  <1>6. group[p] = NoGroup => new = Unready
    BY AddedIsUnready DEF AnnounceInv
  <1>7. KeyInv(p, g)
    BY DEF AnnounceInv
  <1>8. g # NoGroup
    BY ConstantsAssumption
  <1>9. events[<<p, g>>] \in {Ready, Unready, NoEvent}
    BY DEF AnnounceInv, TypeOK, Key, PrefixStatus
  <1> HIDE DEF new
  <1> QED
    BY <1>1, <1>2, <1>3, <1>4, <1>5, <1>6, <1>7, <1>8, <1>9, Distinct
       DEF KeyInv, ReloadEvent, PrefixIsReady, StoredPrefix, Stored, PrefixStatusMerge

(* A service update keeps the invariant of a prefix.                        *)
LEMMA KeyUpdate ==
    ASSUME AnnounceInv, stop # "closed",
           NEW s \in Service, NEW st \in ServiceStatus, SetStatus(s, st),
           UNCHANGED <<batch, birdVars>>,
           NEW p \in Prefix, NEW g \in Group
    PROVE  KeyInv(p, g)'
  <1> DEFINE q == PrefixOf[s]
             old == StatusOf(active[q], quorum[q])
             new == StatusOf(active'[q], quorum[q])
  <1>1. q \in Prefix /\ <<q, group[q]>> \in Key /\ <<p, g>> \in Key
    BY ConstantsAssumption DEF SetStatus, Differs, AnnounceInv, TypeOK, Key
  <1>2. events' = IF new # old
                  THEN [events EXCEPT ![<<q, group[q]>>] = StoredPrefix(@, new)]
                  ELSE events
    BY <1>1 DEF SetStatus, AnnounceInv, TypeOK
  <1>3. AfterBatch(p, g)' <=> AfterBatch(p, g)
    BY DEF AfterBatch, birdVars
  <1>4. KeyInv(p, g)
    BY DEF AnnounceInv
  <1>5. CASE p = q /\ g = group[q]
    <2>1. Effective(p, g) <=> old = Ready
      BY <1>5 DEF Effective, PrefixIsReady
    <2>2. Effective(p, g)' <=> new = Ready
      BY <1>5 DEF Effective, PrefixIsReady, SetStatus
    <2>3. events'[<<p, g>>] = IF new # old
                              THEN StoredPrefix(events[<<p, g>>], new)
                              ELSE events[<<p, g>>]
      BY <1>1, <1>2, <1>5 DEF AnnounceInv, TypeOK
    <2>4. new \in {Ready, Unready} /\ old \in {Ready, Unready}
      BY DEF StatusOf
    <2>5. events[<<p, g>>] \in {Ready, Unready, NoEvent}
      BY <1>1 DEF AnnounceInv, TypeOK, PrefixStatus
    <2> HIDE DEF new, old
    <2> QED
      BY <1>3, <1>4, <2>1, <2>2, <2>3, <2>4, <2>5, Distinct
         DEF KeyInv, StoredPrefix, Stored, PrefixStatusMerge
  <1>6. CASE ~(p = q /\ g = group[q])
    <2>1. <<p, g>> # <<q, group[q]>>
      BY <1>6
    <2>2. events'[<<p, g>>] = events[<<p, g>>]
      BY <1>1, <1>2, <2>1 DEF AnnounceInv, TypeOK
    <2>3. Effective(p, g)' <=> Effective(p, g)
      <3>1. CASE p = q
        BY <1>6, <3>1 DEF Effective, SetStatus
      <3>2. CASE p # q
        BY <3>2, <1>1 DEF Effective, PrefixIsReady, SetStatus, AnnounceInv, TypeOK
      <3> QED
        BY <3>1, <3>2
    <2> QED
      BY <1>3, <1>4, <2>2, <2>3 DEF KeyInv
  <1> QED
    BY <1>5, <1>6

(* Sending a group takes its keys out of the batch, and no other.           *)
LEMMA SendClears ==
    ASSUME TypeOK, NEW h \in Group, Send(h), NEW p \in Prefix, NEW g \in Group
    PROVE  /\ batch'[<<p, g>>] = IF g = h THEN NoEvent ELSE batch[<<p, g>>]
           /\ Effective(p, g)' <=> Effective(p, g)
           /\ events' = events
  <1>1. <<p, g>> \in Key /\ <<p, g>>[2] = g /\ DOMAIN batch = Key
    BY DEF Key, TypeOK
  <1>2. batch'[<<p, g>>] = IF g = h THEN NoEvent ELSE batch[<<p, g>>]
    BY <1>1 DEF Send, Processed, BatchOf, Pending
  <1> QED
    BY <1>2 DEF Send, Effective, PrefixIsReady, prefixVars

(* Sending a group applies the batch: what BIRD is going to announce stays. *)
LEMMA SendSettles ==
    ASSUME TypeOK, NEW h \in Group, stop # "closed", birdUp[h], Send(h),
           NEW p \in Prefix, NEW g \in Group
    PROVE  AfterBatch(p, g)' <=> AfterBatch(p, g)
  <1>1. <<p, g>> \in Key /\ <<p, g>>[1] = p /\ <<p, g>>[2] = g
    BY DEF Key
  <1> DEFINE raised == {k[1] : k \in {b \in BatchOf(h) : batch[b] = Ready}}
             removed == {k[1] : k \in {b \in BatchOf(h) : batch[b] = Unready}}
  <1>2. DOMAIN batch = Key /\ batch[<<p, g>>] \in {Ready, Unready, NoEvent}
    BY <1>1 DEF TypeOK, PrefixStatus
  <1>3. CASE g = h
    <2>1. p \in raised <=> batch[<<p, g>>] = Ready
      BY <1>1, <1>2, <1>3, Distinct DEF BatchOf, Pending, Key
    <2>2. p \in removed <=> batch[<<p, g>>] = Unready
      BY <1>1, <1>2, <1>3, Distinct DEF BatchOf, Pending, Key
    <2>3. announced'[g] = (announced[g] \cup raised) \ removed
      BY <1>3 DEF Send, ProcessBatch, TypeOK
    <2>4. batch'[<<p, g>>] = NoEvent
      BY <1>3, SendClears
    <2> QED
      BY <1>2, <2>1, <2>2, <2>3, <2>4, Distinct DEF AfterBatch
  <1>4. CASE g # h
    <2>1. announced'[g] = announced[g]
      BY <1>4 DEF Send, ProcessBatch, TypeOK
    <2>2. batch'[<<p, g>>] = batch[<<p, g>>]
      BY <1>4, SendClears
    <2> QED
      BY <2>1, <2>2 DEF AfterBatch
  <1> QED
    BY <1>3, <1>4

(* A batch that is sent keeps the invariant of a prefix.                    *)
LEMMA KeySend ==
    ASSUME AnnounceInv, stop # "closed", NEW h \in Group, Send(h),
           NEW p \in Prefix, NEW g \in Group
    PROVE  KeyInv(p, g)'
  BY SendClears, SendSettles DEF KeyInv, AnnounceInv

(* Reloads and updates keep nothing of a prefix that is not in the map.     *)
LEMMA UnknownIsCleanStep == TypeOK /\ UnknownIsClean /\ [Next]_vars => UnknownIsClean'
  <1> SUFFICES ASSUME TypeOK, UnknownIsClean, [Next]_vars PROVE UnknownIsClean'
    OBVIOUS
  <1>1. ASSUME NEW cfg \in Configs, ReloadServices(cfg) PROVE UnknownIsClean'
    <2> SUFFICES ASSUME NEW s \in Service, cfg[s] # NoGroup
                 PROVE  group'[PrefixOf[s]] # NoGroup
      BY <1>1 DEF UnknownIsClean, ReloadServices, AppliedStatus
    <2>1. PrefixOf[s] \in Prefix /\ s \in ServicesIn(cfg, PrefixOf[s])
      BY ConstantsAssumption DEF ServicesIn, ServicesOf
    <2>2. (CHOOSE t \in ServicesIn(cfg, PrefixOf[s]) : TRUE) \in ServicesIn(cfg, PrefixOf[s])
      BY <2>1
    <2> QED
      BY <1>1, <2>1, <2>2 DEF ReloadServices, GroupByPrefix, ServicesIn
  <1>2. ASSUME NEW s \in Service, NEW st \in ServiceStatus, SetStatus(s, st)
        PROVE  UnknownIsClean'
    BY <1>2 DEF SetStatus, Differs, UnknownIsClean, TypeOK
  <1>3. CASE UNCHANGED prefixVars
    BY <1>3 DEF prefixVars, UnknownIsClean
  <1> QED
    BY <1>1, <1>2, <1>3, UpdateEffect DEF Next, vars, UpdateGroups, GetGroup, Flush, Send,
       UpdaterExit, Stop, RemoveAll, ClientShutdown, prefixVars

(* Every step keeps the announce invariant.                                 *)
LEMMA AnnounceInvStep == AnnounceInv /\ [Next]_vars => AnnounceInv'
  <1> SUFFICES ASSUME AnnounceInv, [Next]_vars PROVE AnnounceInv'
    OBVIOUS
  <1>1. TypeOK'
    BY TypeStep DEF AnnounceInv
  <1>2. birdUp' = [g \in Group |-> TRUE]
    BY DEF AnnounceInv, Next, vars, ReloadServices, UpdateGroups, UpdateService, GetGroup,
           Flush, Send, ProcessBatch, UpdaterExit, Stop, RemoveAll,
           ClientShutdown, birdVars
  <1>3. UnknownIsClean'
    BY UnknownIsCleanStep DEF AnnounceInv
  <1>4. ASSUME stop' # "closed", NEW p \in Prefix, NEW g \in Group
        PROVE  KeyInv(p, g)'
    <2>0. stop # "closed" /\ KeyInv(p, g)
      BY <1>4 DEF AnnounceInv, Next, vars, ReloadServices, UpdateGroups,
         UpdateService, GetGroup, Flush, Send, UpdaterExit, Stop, RemoveAll,
         ClientShutdown, stopVars
    <2>1. ASSUME NEW cfg \in Configs, ReloadServices(cfg) PROVE KeyInv(p, g)'
      BY <2>0, <2>1, KeyReload
    <2>2. ASSUME NEW s \in Service, NEW st \in ServiceStatus, UpdateService(s, st)
          PROVE  KeyInv(p, g)'
      <3>1. CASE SetStatus(s, st)
        BY <2>0, <2>2, <3>1, KeyUpdate, UpdateEffect
      <3>2. CASE UNCHANGED <<prefixVars, events>>
        BY <2>0, <2>2, <3>2, UpdateEffect
           DEF KeyInv, AfterBatch, Effective, PrefixIsReady, prefixVars, birdVars
      <3> QED
        BY <2>2, <3>1, <3>2, UpdateEffect
    <2>3. CASE Flush
      <3>1. <<p, g>> \in Key
        BY DEF Key
      <3>2. batch[<<p, g>>] = NoEvent
        BY <2>3, <3>1 DEF Flush, Pending, AnnounceInv, TypeOK
      <3>3. /\ batch'[<<p, g>>] = events[<<p, g>>]
            /\ events'[<<p, g>>] = NoEvent
            /\ announced' = announced
            /\ Effective(p, g)' <=> Effective(p, g)
        BY <2>3, <3>1 DEF Flush, EmptyRegistry, birdVars, Effective, PrefixIsReady, prefixVars
      <3>4. events[<<p, g>>] \in {Ready, Unready, NoEvent}
        BY <3>1 DEF AnnounceInv, TypeOK, PrefixStatus
      <3> QED
        BY <2>0, <3>2, <3>3, <3>4, Distinct DEF KeyInv, AfterBatch
    <2>4. ASSUME NEW h \in Group, Send(h) PROVE KeyInv(p, g)'
      BY <2>0, <2>4, KeySend
    <2>5. ASSUME NEW h \in Group, RemoveAll(h) PROVE KeyInv(p, g)'
      <3>1. announced'[g] \subseteq announced[g]
        BY <2>5 DEF RemoveAll, ProcessBatch, AnnounceInv, TypeOK
      <3>2. /\ batch' = batch
            /\ events' = events
            /\ Effective(p, g)' <=> Effective(p, g)
        BY <2>5 DEF RemoveAll, Effective, PrefixIsReady, prefixVars
      <3> QED
        BY <2>0, <3>1, <3>2 DEF KeyInv, AfterBatch
    <2>7. ASSUME NEW s \in Service, NEW st \in ServiceStatus, GetGroup(s, st)
          PROVE  KeyInv(p, g)'
      BY <2>0, <2>7 DEF GetGroup, KeyInv, AfterBatch, Effective, PrefixIsReady, prefixVars, birdVars
    <2>6. CASE UpdateGroups \/ UpdaterExit \/ Stop \/ ClientShutdown \/ UNCHANGED vars
      BY <2>0, <2>6 DEF UpdateGroups, UpdaterExit, Stop, ClientShutdown, vars,
         KeyInv, AfterBatch, Effective, PrefixIsReady, prefixVars, birdVars
    <2> QED
      BY <2>1, <2>2, <2>3, <2>4, <2>5, <2>6, <2>7 DEF Next
  <1> QED
    BY <1>1, <1>2, <1>3, <1>4 DEF AnnounceInv

(* The announce invariant holds at the start.                               *)
LEMMA AnnounceInvInit == Init => AnnounceInv
  <1> SUFFICES ASSUME Init PROVE AnnounceInv
    OBVIOUS
  <1>1. TypeOK
    BY TypeInit
  <1>2. ASSUME NEW p \in Prefix, NEW g \in Group PROVE KeyInv(p, g)
    <2>1. <<p, g>> \in Key
      BY DEF Key
    <2>2. events[<<p, g>>] = NoEvent /\ batch[<<p, g>>] = NoEvent /\ announced[g] = {}
      BY <2>1 DEF Init, EmptyRegistry
    <2> QED
      BY <2>2, Distinct DEF KeyInv, AfterBatch
  <1> QED
    BY <1>1, <1>2 DEF AnnounceInv, Init, UnknownIsClean

(* As long as BIRD keeps running, the withdrawal of a prefix that is no     *)
(* longer ready in a group is never swallowed by the cancelling Merge: it   *)
(* is in the registry or in the batch on its way, whatever the order of     *)
(* reloads, service updates, ticks and sends.                               *)
THEOREM NoStaleAnnounceTheorem == Spec => []NoStaleAnnounce
  <1>1. AnnounceInv => NoStaleAnnounce
    <2> SUFFICES ASSUME AnnounceInv, stop # "closed", NEW p \in Prefix, NEW g \in Group,
                        AfterBatch(p, g), ~Effective(p, g)
                 PROVE  events[<<p, g>>] = Unready
      BY DEF NoStaleAnnounce
    <2>1. events[<<p, g>>] \in {Ready, Unready, NoEvent}
      BY DEF AnnounceInv, TypeOK, Key, PrefixStatus
    <2> QED
      BY <2>1 DEF AnnounceInv, KeyInv
  <1> QED
    BY <1>1, AnnounceInvInit, AnnounceInvStep, PTL DEF Spec

-----------------------------------------------------------------------------
(* A reload gives a prefix the group of one of its services.                *)
LEMMA GroupFromConfig ==
    ASSUME NEW cfg \in Configs, NEW p \in Prefix, GroupByPrefix(cfg)[p] # NoGroup
    PROVE  \E s \in ServicesOf(p) : cfg[s] = GroupByPrefix(cfg)[p]
  <1>1. ServicesIn(cfg, p) # {}
    BY DEF GroupByPrefix
  <1>2. (CHOOSE s \in ServicesIn(cfg, p) : TRUE) \in ServicesIn(cfg, p)
    BY <1>1
  <1> QED
    BY <1>1, <1>2 DEF GroupByPrefix, ServicesIn

(* With stable groups a reload keeps, adds or removes a prefix, and never   *)
(* moves it.                                                                *)
LEMMA NeverMoves ==
    ASSUME StableGroups, GroupsConfigured, NEW cfg \in Configs, ReloadServices(cfg),
           NEW p \in Prefix, group[p] # NoGroup, group'[p] # NoGroup
    PROVE  group'[p] = group[p]
  <1>1. Valid(cfg) /\ group' = GroupByPrefix(cfg)
    BY DEF ReloadServices
  <1>2. PICK t \in ServicesOf(p) : cfg[t] = group'[p]
    BY <1>1, GroupFromConfig
  <1>3. PICK old \in Configs, s \in ServicesOf(p) : Valid(old) /\ old[s] = group[p]
    BY DEF GroupsConfigured, Configured
  <1> QED
    BY <1>1, <1>2, <1>3 DEF StableGroups, ServicesOf

(* With stable groups, a reload and an update of a service record exactly   *)
(* the changes of readiness, one event for each.                            *)
Recorded(p, g) ==
    events'[<<p, g>>] =
        IF Effective(p, g)' <=> Effective(p, g) THEN events[<<p, g>>]
        ELSE StoredPrefix(events[<<p, g>>], IF Effective(p, g)' THEN Ready ELSE Unready)

(* A reload records, or has recorded, what a prefix needs.                  *)
LEMMA RecordedReload ==
    ASSUME StableGroups, TypeOK, UnknownIsClean, GroupsConfigured,
           NEW cfg \in Configs, ReloadServices(cfg), NEW p \in Prefix, NEW g \in Group
    PROVE  Recorded(p, g)
  <1> DEFINE new == StatusOf(active'[p], quorum'[p])
             e == ReloadEvent(p, g, group'[p], new)
  <1>1. events'[<<p, g>>] = IF e = NoEvent THEN events[<<p, g>>]
                            ELSE StoredPrefix(events[<<p, g>>], e)
    BY ReloadEvents
  <1>2. Effective(p, g)' <=> group'[p] = g /\ new = Ready
    BY DEF Effective, PrefixIsReady
  <1>3. Effective(p, g) <=> group[p] = g /\ StatusOf(active[p], quorum[p]) = Ready
    BY DEF Effective, PrefixIsReady
  <1>4. new \in {Ready, Unready} /\ StatusOf(active[p], quorum[p]) \in {Ready, Unready}
    BY DEF StatusOf
  <1>5. group[p] = NoGroup => new = Unready
    BY AddedIsUnready
  <1>6. g # NoGroup
    BY ConstantsAssumption
  <1>7. group[p] # NoGroup /\ group'[p] # NoGroup => group'[p] = group[p]
    BY NeverMoves
  <1> HIDE DEF new
  <1> QED
    BY <1>1, <1>2, <1>3, <1>4, <1>5, <1>6, <1>7, Distinct
       DEF Recorded, ReloadEvent, PrefixIsReady

(* A service update records, or has recorded, what a prefix needs.          *)
LEMMA RecordedUpdate ==
    ASSUME TypeOK, NEW s \in Service, NEW st \in ServiceStatus, SetStatus(s, st),
           NEW p \in Prefix, NEW g \in Group
    PROVE  Recorded(p, g)
  <1> DEFINE q == PrefixOf[s]
             old == StatusOf(active[q], quorum[q])
             new == StatusOf(active'[q], quorum[q])
  <1>1. q \in Prefix /\ <<q, group[q]>> \in Key /\ <<p, g>> \in Key
    BY ConstantsAssumption DEF SetStatus, Differs, TypeOK, Key
  <1>2. events' = IF new # old
                  THEN [events EXCEPT ![<<q, group[q]>>] = StoredPrefix(@, new)]
                  ELSE events
    BY <1>1 DEF SetStatus, TypeOK
  <1>3. CASE p = q /\ g = group[q]
    <2>1. Effective(p, g) <=> old = Ready
      BY <1>3 DEF Effective, PrefixIsReady
    <2>2. Effective(p, g)' <=> new = Ready
      BY <1>3 DEF Effective, PrefixIsReady, SetStatus
    <2>3. events'[<<p, g>>] = IF new # old
                              THEN StoredPrefix(events[<<p, g>>], new)
                              ELSE events[<<p, g>>]
      BY <1>1, <1>2, <1>3 DEF TypeOK
    <2>4. new \in {Ready, Unready} /\ old \in {Ready, Unready}
      BY DEF StatusOf
    <2> HIDE DEF new, old
    <2> QED
      BY <2>1, <2>2, <2>3, <2>4, Distinct DEF Recorded
  <1>4. CASE ~(p = q /\ g = group[q])
    <2>1. <<p, g>> # <<q, group[q]>>
      BY <1>4
    <2>2. events'[<<p, g>>] = events[<<p, g>>]
      BY <1>1, <1>2, <2>1 DEF TypeOK
    <2>3. Effective(p, g)' <=> Effective(p, g)
      <3>1. CASE p = q
        BY <1>4, <3>1 DEF Effective, SetStatus
      <3>2. CASE p # q
        BY <3>2, <1>1 DEF Effective, PrefixIsReady, SetStatus, TypeOK
      <3> QED
        BY <3>1, <3>2
    <2> QED
      BY <2>2, <2>3 DEF Recorded
  <1> QED
    BY <1>3, <1>4

(* So does the whole of UpdateService, which may also do nothing.           *)
LEMMA UpdateRecorded ==
    ASSUME TypeOK, NEW s \in Service, NEW st \in ServiceStatus, UpdateService(s, st),
           NEW p \in Prefix, NEW g \in Group
    PROVE  Recorded(p, g)
  <1>1. CASE UNCHANGED <<prefixVars, events>>
    BY <1>1 DEF Recorded, Effective, PrefixIsReady, prefixVars
  <1> QED
    BY <1>1, RecordedUpdate, UpdateEffect

(* With stable groups every step keeps the invariant.                       *)
LEMMA StableInvStep == StableGroups /\ StableInv /\ [Next]_vars => StableInv'
  <1> SUFFICES ASSUME StableGroups, StableInv, [Next]_vars PROVE StableInv'
    OBVIOUS
  <1>1. AnnounceInv /\ AnnounceInv'
    BY AnnounceInvStep DEF StableInv
  <1>2. GroupsConfigured'
    <2>1. ASSUME NEW cfg \in Configs, ReloadServices(cfg) PROVE GroupsConfigured'
      BY <2>1, GroupFromConfig DEF ReloadServices, GroupsConfigured, Configured
    <2>2. CASE group' = group
      BY <2>2 DEF StableInv, GroupsConfigured
    <2> QED
      BY <2>1, <2>2 DEF Next, vars, UpdateGroups, UpdateService, SetStatus,
         GetGroup, Flush, Send, UpdaterExit, Stop, RemoveAll, ClientShutdown, prefixVars
  <1>3. ASSUME stop' = "no", NEW p \in Prefix, NEW g \in Group PROVE KeyKept(p, g)'
    <2>0. stop = "no" /\ KeyInv(p, g) /\ KeyKept(p, g)
      BY <1>3 DEF StableInv, AnnounceInv, Next, vars, ReloadServices, UpdateGroups,
         UpdateService, GetGroup, Flush, Send, UpdaterExit, Stop, RemoveAll, ClientShutdown, stopVars
    <2>a. events[<<p, g>>] \in {Ready, Unready, NoEvent}
      BY <1>1 DEF AnnounceInv, TypeOK, PrefixStatus, Key
    <2>b. ASSUME Recorded(p, g), AfterBatch(p, g)' <=> AfterBatch(p, g) PROVE KeyKept(p, g)'
      BY <2>0, <2>a, <2>b, Distinct
         DEF KeyInv, KeyKept, Recorded, StoredPrefix, Stored, PrefixStatusMerge
    <2>1. ASSUME NEW cfg \in Configs, ReloadServices(cfg) PROVE KeyKept(p, g)'
      <3>1. Recorded(p, g)
        BY <1>1, <2>1, RecordedReload DEF StableInv, AnnounceInv
      <3>2. AfterBatch(p, g)' <=> AfterBatch(p, g)
        BY <2>1 DEF ReloadServices, AfterBatch, birdVars
      <3> QED
        BY <2>b, <3>1, <3>2
    <2>2. ASSUME NEW s \in Service, NEW st \in ServiceStatus, UpdateService(s, st)
          PROVE  KeyKept(p, g)'
      <3>1. Recorded(p, g)
        BY <1>1, <2>2, UpdateRecorded DEF AnnounceInv
      <3>2. AfterBatch(p, g)' <=> AfterBatch(p, g)
        BY <2>2 DEF UpdateService, AfterBatch, birdVars
      <3> QED
        BY <2>b, <3>1, <3>2
    <2>3. CASE Flush
      <3>1. /\ AfterBatch(p, g)' <=> (IF events[<<p, g>>] = NoEvent THEN p \in announced[g]
                                      ELSE events[<<p, g>>] = Ready)
            /\ AfterBatch(p, g) <=> p \in announced[g]
            /\ events'[<<p, g>>] = NoEvent
            /\ Effective(p, g)' <=> Effective(p, g)
        <4>1. <<p, g>> \in Key
          BY DEF Key
        <4>2. batch[<<p, g>>] = NoEvent
          BY <1>1, <2>3, <4>1 DEF Flush, Pending, AnnounceInv, TypeOK
        <4> QED
          BY <2>3, <4>1, <4>2
             DEF Flush, AfterBatch, EmptyRegistry, birdVars, Effective, PrefixIsReady, prefixVars
      <3> QED
        BY <2>0, <2>a, <3>1, Distinct DEF KeyInv, KeyKept
    <2>4. ASSUME NEW h \in Group, Send(h) PROVE KeyKept(p, g)'
      BY <1>1, <2>0, <2>4, SendClears, SendSettles DEF KeyKept, AnnounceInv
    <2>6. ASSUME NEW s \in Service, NEW st \in ServiceStatus, GetGroup(s, st)
          PROVE  KeyKept(p, g)'
      BY <2>0, <2>6 DEF GetGroup, KeyKept, AfterBatch, Effective, PrefixIsReady, prefixVars, birdVars
    <2>5. CASE UpdateGroups \/ UpdaterExit \/ UNCHANGED vars
      BY <2>0, <2>5 DEF UpdateGroups, UpdaterExit, vars, KeyKept, AfterBatch, Effective,
         PrefixIsReady, prefixVars, birdVars
    <2> QED
      BY <1>3, <2>0, <2>1, <2>2, <2>3, <2>4, <2>5, <2>6 DEF Next, Stop, RemoveAll, ClientShutdown
  <1> QED
    BY <1>1, <1>2, <1>3 DEF StableInv

(* The invariant of stable groups holds at the start.                       *)
LEMMA StableInvInit == Init => StableInv
  <1> SUFFICES ASSUME Init PROVE StableInv
    OBVIOUS
  <1>1. AnnounceInv
    BY AnnounceInvInit
  <1>2. GroupsConfigured
    BY DEF Init, GroupsConfigured
  <1>3. ASSUME NEW p \in Prefix, NEW g \in Group PROVE KeyKept(p, g)
    <2>1. events[<<p, g>>] = NoEvent /\ ~Effective(p, g)
      BY DEF Init, EmptyRegistry, Key, Effective, PrefixIsReady, StatusOf, Ready, Unready
    <2> QED
      BY <2>1, Distinct DEF KeyKept
  <1> QED
    BY <1>1, <1>2, <1>3 DEF StableInv

(* If no two configurations give a prefix two groups, the announce of a     *)
(* ready prefix is never swallowed either: it is in the registry, in the    *)
(* batch on its way or applied, as long as the announcer is not stopped.    *)
THEOREM NoLostAnnounceTheorem == StableGroups => (Spec => []NoLostAnnounce)
  <1> SUFFICES ASSUME StableGroups PROVE Spec => []NoLostAnnounce
    OBVIOUS
  <1>1. StableInv => NoLostAnnounce
    <2> SUFFICES ASSUME StableInv, stop = "no", NEW p \in Prefix, NEW g \in Group,
                        Effective(p, g), ~AfterBatch(p, g)
                 PROVE  events[<<p, g>>] = Ready
      BY DEF NoLostAnnounce
    <2>1. events[<<p, g>>] \in {Ready, Unready, NoEvent}
      BY DEF StableInv, AnnounceInv, TypeOK, Key, PrefixStatus
    <2> QED
      BY <2>1 DEF StableInv, KeyKept
  <1>2. StableInv /\ [Next]_vars => StableInv'
    BY StableInvStep
  <1> QED
    BY <1>1, <1>2, StableInvInit, PTL DEF Spec

-----------------------------------------------------------------------------
(* The counters.                                                            *)
LEMMA CountersReload ==
    ASSUME TypeOK, NEW cfg \in Configs, ReloadServices(cfg)
    PROVE  CountersExact'
  <1> SUFFICES ASSUME NEW p \in Prefix
               PROVE  /\ active'[p] = Cardinality({s \in ServicesOf(p) : status'[s] = ServiceEnabled})
                      /\ quorum'[p] = Cardinality({s \in ServicesOf(p) : status'[s] # NoStatus})
    BY DEF CountersExact
  <1>1. ASSUME NEW s \in Service
        PROVE  /\ status'[s] = ServiceEnabled <=> cfg[s] # NoGroup /\ status[s] = ServiceEnabled
               /\ status'[s] # NoStatus <=> cfg[s] # NoGroup
    BY DEF ReloadServices, AppliedStatus, ServiceEnabled, ServiceDisabled, NoStatus
  <1>2. {s \in ServicesOf(p) : status'[s] = ServiceEnabled}
           = {s \in ServicesIn(cfg, p) : status[s] = ServiceEnabled}
    BY <1>1 DEF ServicesIn, ServicesOf
  <1>3. {s \in ServicesOf(p) : status'[s] # NoStatus} = ServicesIn(cfg, p)
    BY <1>1 DEF ServicesIn, ServicesOf
  <1> QED
    BY <1>2, <1>3 DEF ReloadServices, AppliedActive, AppliedQuorum

(* A service update moves the counters with the statuses.                   *)
LEMMA CountersUpdate ==
    ASSUME TypeOK, CountersExact,
           NEW s \in Service, NEW st \in ServiceStatus, SetStatus(s, st)
    PROVE  CountersExact'
  <1> DEFINE q == PrefixOf[s]
             Up(p) == {t \in ServicesOf(p) : status[t] = ServiceEnabled}
  <1> SUFFICES ASSUME NEW p \in Prefix
               PROVE  /\ active'[p] = Cardinality({t \in ServicesOf(p) : status'[t] = ServiceEnabled})
                      /\ quorum'[p] = Cardinality({t \in ServicesOf(p) : status'[t] # NoStatus})
    BY DEF CountersExact
  <1>1. q \in Prefix /\ s \in ServicesOf(q)
    BY ConstantsAssumption DEF ServicesOf
  <1>2. {t \in ServicesOf(p) : status'[t] # NoStatus} = {t \in ServicesOf(p) : status[t] # NoStatus}
    BY DEF SetStatus, Differs, TypeOK, ServicesOf, ServiceStatus, NoStatus, ServiceEnabled, ServiceDisabled
  <1>3. quorum'[p] = quorum[p]
    BY DEF SetStatus, Differs
  <1>4. active[p] = Cardinality(Up(p)) /\ quorum[p] = Cardinality({t \in ServicesOf(p) : status[t] # NoStatus})
    BY DEF CountersExact
  <1>5. CASE p # q
    <2>1. {t \in ServicesOf(p) : status'[t] = ServiceEnabled} = Up(p)
      BY <1>5 DEF SetStatus, Differs, TypeOK, ServicesOf
    <2>2. active'[p] = active[p]
      BY <1>5, <1>1 DEF SetStatus, Differs, TypeOK
    <2> QED
      BY <2>1, <2>2, <1>2, <1>3, <1>4
  <1>6. CASE p = q /\ st = ServiceEnabled
    <2>1. {t \in ServicesOf(p) : status'[t] = ServiceEnabled} = Up(p) \cup {s}
      BY <1>6, <1>1 DEF SetStatus, Differs, TypeOK, ServicesOf
    <2>2. s \notin Up(p) /\ IsFiniteSet(Up(p))
      BY <1>6, CountType DEF SetStatus, Differs, ServicesOf
    <2>3. Cardinality(Up(p) \cup {s}) = Cardinality(Up(p)) + 1
      BY <2>2, FS_AddElement
    <2>4. active'[p] = active[p] + 1
      BY <1>6, <1>1 DEF SetStatus, Differs, TypeOK
    <2> QED
      BY <2>1, <2>3, <2>4, <1>2, <1>3, <1>4
  <1>7. CASE p = q /\ st = ServiceDisabled
    <2>1. {t \in ServicesOf(p) : status'[t] = ServiceEnabled} = Up(p) \ {s}
      BY <1>7, <1>1 DEF SetStatus, Differs, TypeOK, ServicesOf, ServiceEnabled, ServiceDisabled
    <2>2. s \in Up(p) /\ IsFiniteSet(Up(p))
      BY <1>1, <1>7, CountType DEF SetStatus, Differs, ServicesOf, TypeOK, ServiceStatus
    <2>3. Cardinality(Up(p) \ {s}) = Cardinality(Up(p)) - 1
      BY <2>2, FS_RemoveElement
    <2>4. active'[p] = active[p] - 1
      BY <1>7, <1>1 DEF SetStatus, Differs, TypeOK, ServiceEnabled, ServiceDisabled
    <2> QED
      BY <2>1, <2>3, <2>4, <1>2, <1>3, <1>4
  <1> QED
    BY <1>5, <1>6, <1>7 DEF ServiceStatus

(* Every step keeps the counters exact.                                     *)
LEMMA CountersStep == TypeOK /\ CountersExact /\ [Next]_vars => CountersExact'
  <1> SUFFICES ASSUME TypeOK, CountersExact, [Next]_vars PROVE CountersExact'
    OBVIOUS
  <1>1. CASE UNCHANGED prefixVars
    BY <1>1 DEF prefixVars, CountersExact
  <1> QED
    BY <1>1, CountersReload, CountersUpdate, UpdateEffect
       DEF Next, vars, UpdateGroups, GetGroup, Flush, Send, UpdaterExit, Stop, RemoveAll,
           ClientShutdown, prefixVars

(* The counters are exact at the start.                                     *)
LEMMA CountersInit == Init => CountersExact
  <1> SUFFICES ASSUME Init, NEW p \in Prefix
               PROVE  /\ active[p] = Cardinality({s \in ServicesOf(p) : status[s] = ServiceEnabled})
                      /\ quorum[p] = Cardinality({s \in ServicesOf(p) : status[s] # NoStatus})
    BY DEF CountersExact
  <1>1. {s \in ServicesOf(p) : status[s] = ServiceEnabled} = {}
    BY DEF Init, ServicesOf, NoStatus, ServiceEnabled
  <1>2. {s \in ServicesOf(p) : status[s] # NoStatus} = {}
    BY DEF Init, ServicesOf
  <1> QED
    BY <1>1, <1>2, FS_EmptySet DEF Init

(* prefixState.active and quorum are exact in every reachable state, so a   *)
(* prefix is ready exactly when it has services and all of them are         *)
(* enabled.                                                                 *)
THEOREM CountersTheorem == Spec => []CountersExact
  BY TypeInit, TypeStep, CountersInit, CountersStep, PTL DEF Spec

-----------------------------------------------------------------------------
(* The announcer implements Announcement.                                   *)

(* Readiness and goal are sets of prefixes.                                 *)
LEMMA MappedType ==
    ASSUME TypeOK
    PROVE  /\ ReadyIn \in [Group -> SUBSET Prefix] /\ GoalIn \in [Group -> SUBSET Prefix]
           /\ \A g \in Group :
                 /\ ReadyIn[g] = {p \in Prefix : Effective(p, g)}
                 /\ stop # "closed" => GoalIn[g] = {p \in Prefix : AfterBatch(p, g)}
                 /\ stop = "closed" => GoalIn[g] = announced[g]
  <1>1. announced \in [Group -> SUBSET Prefix]
    BY DEF TypeOK
  <1> QED
    BY <1>1 DEF ReadyIn, GoalIn

(* With nothing in the batch, the goal is reached.                          *)
LEMMA GoalReached ==
    ASSUME TypeOK, Pending(batch) = {}
    PROVE  GoalIn = announced
  <1>1. announced \in [Group -> SUBSET Prefix] /\ batch \in [Key -> PrefixStatus \cup {NoEvent}]
    BY DEF TypeOK
  <1>2. \A p \in Prefix, g \in Group : batch[<<p, g>>] = NoEvent
    BY <1>1 DEF Pending, Key
  <1>3. \A g \in Group : {p \in Prefix : AfterBatch(p, g)} = announced[g]
    BY <1>1, <1>2 DEF AfterBatch
  <1> QED
    BY <1>1, <1>3 DEF GoalIn

(* What stays the same as long as readiness, batch, announces and Stop do.   *)
LEMMA GoalSame ==
    ASSUME UNCHANGED <<batch, announced, stop>>
    PROVE  GoalIn' = GoalIn /\ Phase' = Phase
  BY DEF GoalIn, AfterBatch, Phase

(* And readiness.                                                           *)
LEMMA ReadySame ==
    ASSUME UNCHANGED prefixVars
    PROVE  ReadyIn' = ReadyIn
  BY DEF ReadyIn, Effective, PrefixIsReady, prefixVars

(* Reloads and service updates change readiness only.                       *)
LEMMA ChangeStep ==
    ASSUME \/ \E cfg \in Configs : ReloadServices(cfg)
           \/ \E s \in Service, st \in ServiceStatus : UpdateService(s, st)
    PROVE  N!Change
  <1>1. UNCHANGED <<batch, announced, stop>>
    BY DEF ReloadServices, UpdateService, birdVars, stopVars
  <1>2. GoalIn' = GoalIn /\ Phase' = Phase /\ announced' = announced
    BY <1>1, GoalSame
  <1>3. ReadyIn' \in [Group -> SUBSET Prefix]
    BY DEF ReadyIn
  <1> QED
    BY <1>2, <1>3 DEF N!Change

(* A tick takes what is ready.                                              *)
LEMMA TakeStep ==
    ASSUME StableInv, Flush, stop # "closed"
    PROVE  N!Take
  <1>0. TypeOK
    BY DEF StableInv, AnnounceInv
  <1>1. /\ Pending(batch) = {} /\ batch' = events
        /\ UNCHANGED <<group, status, active, quorum, announced, stop>>
    BY DEF Flush, prefixVars, birdVars, stopVars
  <1>2. ReadyIn' = ReadyIn /\ announced' = announced /\ Phase' = Phase
    BY <1>1, ReadySame DEF prefixVars, Phase
  <1>3. GoalIn = announced
    BY <1>0, <1>1, GoalReached
  <1>4. \A p \in Prefix, g \in Group :
           events[<<p, g>>] \in {Ready, Unready, NoEvent} /\ batch[<<p, g>>] = NoEvent
    BY <1>0, <1>1 DEF TypeOK, Key, PrefixStatus, Pending
  <1>5. \A p \in Prefix, g \in Group : AfterBatch(p, g)' => Effective(p, g)
    <2> SUFFICES ASSUME NEW p \in Prefix, NEW g \in Group, AfterBatch(p, g)'
                 PROVE  Effective(p, g)
      OBVIOUS
    <2>1. KeyInv(p, g)
      BY DEF StableInv, AnnounceInv
    <2>2. events[<<p, g>>] = NoEvent => AfterBatch(p, g)
      BY <1>1, <1>4 DEF AfterBatch
    <2>3. events[<<p, g>>] # Unready
      BY <1>1, Distinct DEF AfterBatch
    <2> QED
      BY <1>4, <2>1, <2>2, <2>3 DEF KeyInv
  <1>6. ASSUME stop = "no"
        PROVE  \A p \in Prefix, g \in Group : Effective(p, g) => AfterBatch(p, g)'
    <2> SUFFICES ASSUME NEW p \in Prefix, NEW g \in Group, Effective(p, g)
                 PROVE  AfterBatch(p, g)'
      OBVIOUS
    <2>1. KeyInv(p, g) /\ KeyKept(p, g)
      BY <1>6 DEF StableInv, AnnounceInv
    <2>2. events[<<p, g>>] \in {Ready, NoEvent}
      BY <1>4, <2>1 DEF KeyInv
    <2>3. CASE events[<<p, g>>] = Ready
      BY <1>1, <2>3, Distinct DEF AfterBatch
    <2>4. CASE events[<<p, g>>] = NoEvent
      <3>1. AfterBatch(p, g)
        BY <2>1, <2>4 DEF KeyKept
      <3> QED
        BY <1>1, <1>4, <2>4, <3>1 DEF AfterBatch
    <2> QED
      BY <2>2, <2>3, <2>4
  <1>7. GoalIn' = [g \in Group |-> {p \in Prefix : AfterBatch(p, g)'}]
    BY <1>1 DEF GoalIn
  <1>8. /\ GoalIn' \in [Group -> SUBSET Prefix]
        /\ \A g \in Group : GoalIn'[g] \subseteq ReadyIn[g]
    BY <1>5, <1>7 DEF ReadyIn
  <1>9. Phase = "running" => GoalIn' = ReadyIn
    <2>1. Phase = "running" => stop = "no"
      BY <1>0 DEF Phase, TypeOK
    <2> QED
      BY <1>5, <1>6, <1>7, <2>1 DEF ReadyIn
  <1>10. Phase # "closed"
    BY <1>0 DEF Phase, TypeOK
  <1> QED
    BY <1>2, <1>3, <1>8, <1>9, <1>10 DEF N!Take

(* A group that is sent gets what was taken for it.                         *)
LEMMA DeliverStep ==
    ASSUME AnnounceInv, NEW h \in Group, Send(h), stop # "closed"
    PROVE  N!Deliver(h)
  <1>0. TypeOK /\ birdUp[h]
    BY DEF AnnounceInv
  <1>1. /\ UNCHANGED <<group, status, active, quorum, stop>>
        /\ \A g \in Group \ {h} : announced'[g] = announced[g]
        /\ announced' \in [Group -> SUBSET Prefix]
    BY <1>0, TypeStep DEF Send, prefixVars, stopVars, ProcessBatch, TypeOK, Next
  <1>2. ReadyIn' = ReadyIn /\ Phase' = Phase
    BY <1>1, ReadySame DEF prefixVars, Phase
  <1>3. \A p \in Prefix, g \in Group : AfterBatch(p, g)' <=> AfterBatch(p, g)
    BY <1>0, SendSettles
  <1>4. GoalIn' = GoalIn
    BY <1>1, <1>3 DEF GoalIn
  <1>5. announced'[h] = GoalIn[h]
    <2>1. \A p \in Prefix : batch'[<<p, h>>] = NoEvent
      BY <1>0, SendClears
    <2>2. \A p \in Prefix : AfterBatch(p, h)' <=> p \in announced'[h]
      BY <2>1 DEF AfterBatch
    <2>3. GoalIn[h] = {p \in Prefix : AfterBatch(p, h)}
      BY <1>0, MappedType
    <2> QED
      BY <1>1, <1>3, <2>2, <2>3
  <1>6. announced' = [announced EXCEPT ![h] = GoalIn[h]]
    BY <1>0, <1>1, <1>5 DEF TypeOK
  <1>7. Phase # "closed"
    BY <1>0 DEF Phase, TypeOK
  <1> QED
    BY <1>2, <1>4, <1>6, <1>7 DEF N!Deliver

(* removeAll withdraws; what is still in the batch it leaves.               *)
LEMMA WithdrawStep ==
    ASSUME AnnounceInv, NEW h \in Group, RemoveAll(h)
    PROVE  N!Withdraw(h)
  <1>0. TypeOK /\ birdUp[h] /\ stop = "removing"
    BY DEF AnnounceInv, RemoveAll
  <1> DEFINE gone == {p \in Prefix : groupByPrefix[p] = h}
  <1>1. /\ UNCHANGED <<group, status, active, quorum, stop, batch>>
        /\ announced' = [announced EXCEPT ![h] = (@ \cup {}) \ gone]
    BY <1>0 DEF RemoveAll, prefixVars, ProcessBatch
  <1>2. announced \in [Group -> SUBSET Prefix]
    BY <1>0 DEF TypeOK
  <1>3. /\ announced' \in [Group -> SUBSET Prefix] /\ announced'[h] \subseteq announced[h]
        /\ \A g \in Group \ {h} : announced'[g] = announced[g]
    BY <1>1, <1>2
  <1>4. ReadyIn' = ReadyIn /\ Phase' = Phase /\ Phase = "stopping"
    BY <1>0, <1>1, ReadySame DEF prefixVars, Phase
  <1>5. \A p \in Prefix, g \in Group :
           (AfterBatch(p, g)' => AfterBatch(p, g)) /\ (g # h => (AfterBatch(p, g) => AfterBatch(p, g)'))
    BY <1>1, <1>3 DEF AfterBatch
  <1>6. /\ GoalIn = [g \in Group |-> {p \in Prefix : AfterBatch(p, g)}]
        /\ GoalIn' = [g \in Group |-> {p \in Prefix : AfterBatch(p, g)'}]
    BY <1>0, <1>1 DEF GoalIn
  <1>7. GoalIn'[h] \subseteq GoalIn[h] /\ \A g \in Group \ {h} : GoalIn'[g] = GoalIn[g]
    BY <1>5, <1>6
  <1>8. announced' = [announced EXCEPT ![h] = announced'[h]]
    BY <1>2, <1>3
  <1>9. GoalIn' = [GoalIn EXCEPT ![h] = GoalIn'[h]]
    BY <1>6, <1>7
  <1> QED
    BY <1>3, <1>4, <1>7, <1>8, <1>9 DEF N!Withdraw

(* Every step of the announcer is one of Announcement, or changes nothing   *)
(* that Announcement sees.                                                  *)
LEMMA AnnouncementStep ==
    ASSUME StableInv, [Next]_vars
    PROVE  [N!Next]_(N!vars)
  <1>0. AnnounceInv /\ TypeOK /\ TypeOK'
    BY TypeStep DEF StableInv, AnnounceInv
  <1> DEFINE Same == UNCHANGED <<ReadyIn, GoalIn, announced, Phase>>
  <1>1. Same => UNCHANGED N!vars
    BY DEF N!vars
  <1> HIDE DEF Same
  <1>2. ASSUME UNCHANGED <<group, status, active, quorum, batch, announced, stop>> PROVE Same
    BY <1>2, GoalSame, ReadySame DEF prefixVars, Same
  <1>3. ASSUME stop = "closed",
               UNCHANGED <<group, status, active, quorum, announced, stop>>
        PROVE  Same
    <2>1. ReadyIn' = ReadyIn /\ Phase' = Phase
      BY <1>3, ReadySame DEF prefixVars, Phase
    <2>2. GoalIn' = GoalIn
      BY <1>3 DEF GoalIn
    <2> QED
      BY <1>3, <2>1, <2>2 DEF Same
  <1>4. CASE \/ \E cfg \in Configs : ReloadServices(cfg)
             \/ \E s \in Service, st \in ServiceStatus : UpdateService(s, st)
    BY <1>4, ChangeStep DEF N!Next
  <1>5. CASE \/ UpdateGroups \/ UpdaterExit
             \/ \E s \in Service, st \in ServiceStatus : GetGroup(s, st)
    BY <1>1, <1>2, <1>5 DEF UpdateGroups, UpdaterExit, GetGroup, prefixVars, birdVars, stopVars
  <1>6. CASE Flush
    <2>1. CASE stop = "closed"
      BY <1>1, <1>3, <1>6, <2>1 DEF Flush, prefixVars, birdVars, stopVars
    <2> QED
      BY <1>6, <2>1, TakeStep DEF N!Next
  <1>7. ASSUME NEW g \in Group, Send(g) PROVE [N!Next]_(N!vars)
    <2>1. CASE stop = "closed"
      BY <1>1, <1>3, <1>7, <2>1 DEF Send, ProcessBatch, prefixVars, stopVars
    <2> QED
      BY <1>0, <1>7, <2>1, DeliverStep DEF N!Next
  <1>8. CASE Stop
    <2>1. /\ stop = "no" /\ stop' = "removing"
          /\ UNCHANGED <<group, status, active, quorum, batch, announced>>
      BY <1>8 DEF Stop, prefixVars, birdVars
    <2>2. ReadyIn' = ReadyIn /\ Phase = "running" /\ Phase' = "stopping"
      BY <2>1, ReadySame DEF prefixVars, Phase
    <2>3. GoalIn' = GoalIn
      BY <2>1 DEF GoalIn, AfterBatch
    <2> QED
      BY <2>1, <2>2, <2>3 DEF N!Next, N!Stop
  <1>9. ASSUME NEW g \in Group, RemoveAll(g) PROVE [N!Next]_(N!vars)
    BY <1>0, <1>9, WithdrawStep DEF N!Next
  <1>10. CASE ClientShutdown
    <2>1. /\ stop = "removing" /\ stop' = "closed"
          /\ UNCHANGED <<group, status, active, quorum, batch, announced>>
      BY <1>10 DEF ClientShutdown, prefixVars, birdVars
    <2>2. ReadyIn' = ReadyIn /\ Phase = "stopping" /\ Phase' = "closed"
      BY <2>1, ReadySame DEF prefixVars, Phase
    <2>3. GoalIn' = announced
      <3>1. announced = [g \in Group |-> announced[g]]
        BY <1>0 DEF TypeOK
      <3> QED
        BY <2>1, <3>1 DEF GoalIn
    <2> QED
      BY <2>1, <2>2, <2>3 DEF N!Next, N!Close
  <1>11. CASE UNCHANGED vars
    BY <1>1, <1>2, <1>11 DEF vars
  <1> QED
    BY <1>4, <1>5, <1>6, <1>7, <1>8, <1>9, <1>10, <1>11 DEF Next

(* If no two configurations give a prefix two groups, the announcer keeps    *)
(* its promise: what BIRD announces in a group is what was ready there at    *)
(* the last tick whose batch is sent, whatever happens in between (updater,  *)
(* UpdateService, ReloadServices, removeAll), during Stop too but for what   *)
(* removeAll has withdrawn.                                                  *)
THEOREM AnnouncementTheorem == StableGroups => (Spec => ImplementsAnnouncement)
  <1> SUFFICES ASSUME StableGroups PROVE Spec => ImplementsAnnouncement
    OBVIOUS
  <1>1. Init => N!Init
    <2> SUFFICES ASSUME Init PROVE N!Init
      OBVIOUS
    <2>1. ReadyIn = [g \in Group |-> {}]
      <3>1. \A p \in Prefix, g \in Group : ~Effective(p, g)
        BY DEF Init, Effective, PrefixIsReady, StatusOf, Ready, Unready
      <3> QED
        BY <3>1 DEF ReadyIn
    <2>2. TypeOK /\ Pending(batch) = {}
      BY TypeInit DEF Init, Pending, EmptyRegistry
    <2>3. GoalIn = announced /\ announced = [g \in Group |-> {}]
      BY <2>2, GoalReached DEF Init
    <2>4. Phase = "running"
      BY DEF Init, Phase
    <2> QED
      BY <2>1, <2>3, <2>4 DEF N!Init, N!Nothing
  <1>2. StableInv /\ [Next]_vars => StableInv'
    BY StableInvStep
  <1>3. StableInv /\ [Next]_vars => [N!Next]_(N!vars)
    BY AnnouncementStep
  <1> QED
    BY <1>1, <1>2, <1>3, StableInvInit, PTL
       DEF Spec, ImplementsAnnouncement, N!Spec

-----------------------------------------------------------------------------
(* A restart of BIRD heals its group.                                       *)

(* A prefix has one group in all configurations.                            *)
LEMMA OneGroup ==
    ASSUME StableGroups, NEW p \in Prefix, NEW g, NEW h, g # NoGroup, h # NoGroup,
           Configured(p, g), Configured(p, h)
    PROVE  g = h
BY DEF StableGroups, Configured, ServicesOf

-----------------------------------------------------------------------------
(* Types.                                                                   *)
LEMMA RestartTypeStep == TypeOKRestart /\ [NextRestart]_restartVars => TypeOKRestart'
<1> SUFFICES ASSUME TypeOKRestart, [NextRestart]_restartVars PROVE TypeOKRestart'
    OBVIOUS
<1> USE DEF TypeOKRestart
<1>1. CASE AnnouncerStep
  <2>1. TypeOK'
    BY <1>1, TypeStep DEF AnnouncerStep
  <2>2. dirty' \in [Group -> BOOLEAN]
    BY <1>1 DEF AnnouncerStep
  <2> QED
    BY <1>1, <2>1, <2>2 DEF AnnouncerStep
<1>2. ASSUME NEW g \in Group, BirdStop(g) PROVE TypeOKRestart'
    BY <1>2 DEF BirdStop, TypeOK, prefixVars, stopVars, handlerVars
<1>3. ASSUME NEW g \in Group, BirdStart(g) PROVE TypeOKRestart'
    BY <1>3 DEF BirdStart, TypeOK, prefixVars, stopVars
<1>4. ASSUME NEW g \in Group, ListPrefixes(g) PROVE TypeOKRestart'
    BY <1>4 DEF ListPrefixes, TypeOK, vars
<1>5. ASSUME NEW g \in Group, StatusFor(g) PROVE TypeOKRestart'
    BY <1>5 DEF StatusFor, TypeOK, vars
<1>6. ASSUME NEW g \in Group, Answer(g) PROVE TypeOKRestart'
    BY <1>6 DEF Answer, ProcessBatch, TypeOK, prefixVars, stopVars
<1>7. CASE UNCHANGED restartVars
    BY <1>7 DEF restartVars, vars, handlerVars, TypeOK
<1> QED
    BY <1>1, <1>2, <1>3, <1>4, <1>5, <1>6, <1>7 DEF NextRestart

-----------------------------------------------------------------------------
(* The parts of the invariant that the announcer alone can disturb.         *)

(* A reload under way is the only time the registry lags.                   *)
LEMMA RegisteredStep ==
    ASSUME Registered, [Next]_vars
    PROVE  Registered'
  BY DEF Registered, Next, vars, ReloadServices, UpdateGroups, GetGroup, UpdateService, SetStatus,
         Flush, Send, UpdaterExit, Stop, RemoveAll, ClientShutdown, prefixVars

(* Groups come from configurations.                                         *)
LEMMA ConfiguredStep ==
    ASSUME AllConfigured, [Next]_vars, listed' = listed
    PROVE  AllConfigured'
<1>1. GroupsConfigured'
  <2>1. ASSUME NEW cfg \in Configs, ReloadServices(cfg) PROVE GroupsConfigured'
    BY <2>1, GroupFromConfig DEF ReloadServices, GroupsConfigured, Configured
  <2>2. CASE group' = group
    BY <2>2 DEF AllConfigured, GroupsConfigured
  <2> QED
    BY <2>1, <2>2 DEF Next, vars, UpdateGroups, GetGroup, UpdateService, SetStatus, Flush,
       Send, UpdaterExit, Stop, RemoveAll, ClientShutdown, prefixVars
<1>2. groupByPrefix' = groupByPrefix \/ groupByPrefix' = group
    BY DEF Next, vars, ReloadServices, UpdateGroups, GetGroup, UpdateService, SetStatus, Flush,
       Send, UpdaterExit, Stop, RemoveAll, ClientShutdown
<1> QED
    BY <1>1, <1>2 DEF AllConfigured, GroupsConfigured

(* Where the readiness of a prefix changes, the registry records it; where  *)
(* it does not, the registry keeps what it has.                             *)
LEMMA AgreeRecorded ==
    ASSUME TypeOK, NEW p \in Prefix, NEW g \in Group, EventsAgree(p, g),
           Recorded(p, g), batch' = batch
    PROVE  EventsAgree(p, g)'
<1>1. /\ events[<<p, g>>] \in {Ready, Unready, NoEvent}
      /\ batch[<<p, g>>] \in {Ready, Unready, NoEvent}
    BY DEF TypeOK, PrefixStatus, Key
<1> QED
    BY <1>1, Distinct
       DEF EventsAgree, Recorded, StoredPrefix, Stored, PrefixStatusMerge

(* The steps of the announcer before Stop, seen from one group: what they   *)
(* do to its events, its batch and its announces.                           *)
LEMMA AgreeStep ==
    ASSUME StableGroups, HealInv, Next, stop' = "no", NEW p \in Prefix, NEW g \in Group
    PROVE  /\ stop = "no"
           /\ EventsAgree(p, g)'
           /\ ~birdUp'[g] => announced'[g] = {}
           /\ birdUp' = birdUp
<1> DEFINE Down == ~birdUp'[g] => announced'[g] = {}
<1>1. stop = "no"
    BY DEF Next, ReloadServices, UpdateGroups, GetGroup, UpdateService, Flush, Send,
       UpdaterExit, Stop, RemoveAll, ClientShutdown, stopVars
<1>2. TypeOK /\ UnknownIsClean /\ GroupsConfigured
    BY DEF HealInv, TypeOKRestart, AllConfigured
<1>3. EventsAgree(p, g) /\ (~birdUp[g] => announced[g] = {})
    BY <1>1 DEF HealInv
<1>4. /\ <<p, g>> \in Key /\ events[<<p, g>>] \in {Ready, Unready, NoEvent}
      /\ batch[<<p, g>>] \in {Ready, Unready, NoEvent}
    BY <1>2 DEF TypeOK, PrefixStatus, Key
<1>5. ASSUME NEW cfg \in Configs, ReloadServices(cfg)
      PROVE  EventsAgree(p, g)' /\ Down /\ birdUp' = birdUp
  <2>1. batch' = batch /\ UNCHANGED birdVars
    BY <1>5 DEF ReloadServices
  <2> QED
    BY <1>2, <1>3, <1>5, <2>1, RecordedReload, AgreeRecorded DEF birdVars
<1>6. ASSUME NEW s \in Service, NEW st \in ServiceStatus, UpdateService(s, st)
      PROVE  EventsAgree(p, g)' /\ Down /\ birdUp' = birdUp
  <2>1. batch' = batch /\ UNCHANGED birdVars
    BY <1>6 DEF UpdateService
  <2> QED
    BY <1>2, <1>3, <1>6, <2>1, UpdateRecorded, AgreeRecorded DEF birdVars
<1>7. CASE Flush
  <2>1. /\ batch'[<<p, g>>] = events[<<p, g>>] /\ events'[<<p, g>>] = NoEvent
        /\ UNCHANGED birdVars
        /\ Effective(p, g)' <=> Effective(p, g)
    BY <1>4, <1>7 DEF Flush, EmptyRegistry, Effective, PrefixIsReady, prefixVars
  <2> QED
    BY <1>1, <1>3, <1>4, <2>1, Distinct DEF EventsAgree, birdVars
<1>8. ASSUME NEW h \in Group, Send(h)
      PROVE  EventsAgree(p, g)' /\ Down /\ birdUp' = birdUp
  <2>1. EventsAgree(p, g)'
    BY <1>2, <1>3, <1>8, SendClears, Distinct DEF EventsAgree
  <2>2. birdUp' = birdUp
    BY <1>8 DEF Send, ProcessBatch
  <2>3. ~birdUp[g] => announced'[g] = announced[g]
    BY <1>2, <1>8 DEF Send, ProcessBatch, TypeOK
  <2> QED
    BY <1>3, <2>1, <2>2, <2>3
<1>9. CASE \/ UpdateGroups \/ UpdaterExit
           \/ \E s \in Service, st \in ServiceStatus : GetGroup(s, st)
    BY <1>1, <1>3, <1>9 DEF UpdateGroups, UpdaterExit, GetGroup, EventsAgree, Effective, PrefixIsReady,
       prefixVars, birdVars
<1> QED
    BY <1>1, <1>5, <1>6, <1>7, <1>8, <1>9 DEF Next, Stop, RemoveAll, ClientShutdown

(* If the readiness of no prefix of the group changes, what is not on its   *)
(* way with the updater stays as it was, and what it was sending is what    *)
(* BIRD ought to announce.                                                  *)
LEMMA SettledStep ==
    ASSUME StableGroups, HealInv, Next, stop' = "no", NEW p \in Prefix, NEW g \in Group,
           birdUp[g], Effective(p, g)' <=> Effective(p, g),
           events'[<<p, g>>] = NoEvent, batch'[<<p, g>>] = NoEvent
    PROVE  \/ p \in announced'[g] <=> Effective(p, g)
           \/ /\ events[<<p, g>>] = NoEvent /\ batch[<<p, g>>] = NoEvent
              /\ p \in announced'[g] <=> p \in announced[g]
<1>1. stop = "no"
    BY AgreeStep
<1>2. TypeOK /\ UnknownIsClean /\ GroupsConfigured /\ EventsAgree(p, g)
    BY <1>1 DEF HealInv, TypeOKRestart, AllConfigured
<1>3. /\ <<p, g>> \in Key /\ events[<<p, g>>] \in {Ready, Unready, NoEvent}
      /\ batch[<<p, g>>] \in {Ready, Unready, NoEvent}
    BY <1>2 DEF TypeOK, PrefixStatus, Key
<1>4. ASSUME NEW cfg \in Configs, ReloadServices(cfg)
      PROVE  events' [<<p, g>>] = events[<<p, g>>] /\ UNCHANGED <<batch, birdVars>>
  <2>1. Recorded(p, g)
    BY <1>2, <1>4, RecordedReload
  <2> QED
    BY <1>4, <2>1 DEF Recorded, ReloadServices
<1>5. ASSUME NEW s \in Service, NEW st \in ServiceStatus, UpdateService(s, st)
      PROVE  events' [<<p, g>>] = events[<<p, g>>] /\ UNCHANGED <<batch, birdVars>>
  <2>1. Recorded(p, g)
    BY <1>2, <1>5, UpdateRecorded
  <2> QED
    BY <1>5, <2>1 DEF Recorded, UpdateService
<1>6. CASE Flush
  <2>1. batch[<<p, g>>] = NoEvent
    BY <1>2, <1>3, <1>6 DEF Flush, Pending, TypeOK
  <2>2. batch'[<<p, g>>] = events[<<p, g>>] /\ announced' = announced
    BY <1>3, <1>6 DEF Flush, birdVars
  <2> QED
    BY <2>1, <2>2
<1>7. ASSUME NEW h \in Group, Send(h)
      PROVE  \/ p \in announced'[g] <=> Effective(p, g)
             \/ /\ events[<<p, g>>] = NoEvent /\ batch[<<p, g>>] = NoEvent
                /\ p \in announced'[g] <=> p \in announced[g]
  <2>1. events[<<p, g>>] = NoEvent
    BY <1>2, <1>7, SendClears
  <2>2. CASE g = h
    <3>1. AfterBatch(p, g)' <=> AfterBatch(p, g)
      BY <1>1, <1>2, <1>7, <2>2, SendSettles
    <3> QED
      BY <1>2, <1>3, <2>1, <3>1, Distinct DEF AfterBatch, EventsAgree
  <2>3. CASE g # h
    <3>1. batch[<<p, g>>] = NoEvent
      BY <1>2, <1>7, <2>3, SendClears
    <3>2. announced'[g] = announced[g]
      BY <1>2, <1>7, <2>3 DEF Send, ProcessBatch, TypeOK
    <3> QED
      BY <2>1, <3>1, <3>2
  <2> QED
    BY <2>2, <2>3
<1>8. CASE \/ UpdateGroups \/ UpdaterExit
           \/ \E s \in Service, st \in ServiceStatus : GetGroup(s, st)
    BY <1>8 DEF UpdateGroups, UpdaterExit, GetGroup, birdVars
<1> QED
    BY <1>1, <1>4, <1>5, <1>6, <1>7, <1>8
       DEF Next, Stop, RemoveAll, ClientShutdown, birdVars

(* The announcer goes on, next to a restart.                                *)
LEMMA HealAnnouncer ==
    ASSUME StableGroups, HealInv, AnnouncerStep
    PROVE  HealInv'
<1>1. TypeOKRestart'
    BY RestartTypeStep DEF HealInv, NextRestart
<1>2. UnknownIsClean'
    BY UnknownIsCleanStep DEF HealInv, TypeOKRestart, AnnouncerStep
<1>3. Registered'
    BY RegisteredStep DEF HealInv, AnnouncerStep
<1>4. AllConfigured'
    BY ConfiguredStep DEF HealInv, AnnouncerStep
<1>5. ASSUME stop' = "no", NEW g \in Group, ~dirty'[g] PROVE CleanInv(g)'
  <2>1. ~dirty[g] /\ \A p \in Prefix : Effective(p, g)' <=> Effective(p, g)
    BY <1>5 DEF AnnouncerStep
  <2>2. UNCHANGED <<request, handler, listed, answer>> /\ Next
    BY DEF AnnouncerStep
  <2>3. stop = "no" /\ birdUp' = birdUp
    BY <1>5, <2>2, AgreeStep DEF Next, ReloadServices, UpdateGroups, GetGroup, UpdateService, Flush,
       Send, UpdaterExit, Stop, RemoveAll, ClientShutdown, stopVars, birdVars, ProcessBatch
  <2>4. CleanInv(g)
    BY <2>1, <2>3 DEF HealInv
  <2>5. listed[g] \subseteq Prefix
    BY DEF HealInv, TypeOKRestart
  <2>6. (handler[g] = "answering" => answer[g] = {p \in listed[g] : Effective(p, g)})'
    BY <2>1, <2>2, <2>4, <2>5 DEF CleanInv
  <2>7. ASSUME birdUp'[g], NEW p \in Prefix,
               events'[<<p, g>>] = NoEvent, batch'[<<p, g>>] = NoEvent
        PROVE  /\ p \in announced'[g] => Effective(p, g)'
               /\ Effective(p, g)' => p \in announced'[g] \/ Underway(p, g)'
    <3>1. \/ p \in announced'[g] <=> Effective(p, g)
          \/ /\ events[<<p, g>>] = NoEvent /\ batch[<<p, g>>] = NoEvent
             /\ p \in announced'[g] <=> p \in announced[g]
      BY <1>5, <2>1, <2>2, <2>3, <2>7, SettledStep
    <3>2. Underway(p, g)' <=> Underway(p, g)
      BY <2>2 DEF Underway
    <3> QED
      BY <2>1, <2>3, <2>4, <2>7, <3>1, <3>2 DEF CleanInv
  <2> QED
    BY <2>6, <2>7 DEF CleanInv
<1>6. ASSUME stop' = "no", NEW g \in Group
      PROVE  /\ ~birdUp'[g] => announced'[g] = {}
             /\ \A p \in Prefix : EventsAgree(p, g)'
  <2>1. \A p \in Prefix : EventsAgree(p, g)' /\ (~birdUp'[g] => announced'[g] = {})
    BY <1>6, AgreeStep DEF AnnouncerStep
  <2>2. CASE Prefix = {}
    BY <1>1, <2>2 DEF TypeOKRestart, TypeOK
  <2> QED
    BY <2>1, <2>2
<1> QED
    BY <1>1, <1>2, <1>3, <1>4, <1>5, <1>6 DEF HealInv

-----------------------------------------------------------------------------
(* BIRD and the handler change nothing of the announcer but its announces.  *)
LEMMA HealQuiet ==
    ASSUME HealInv, TypeOKRestart',
           UNCHANGED <<prefixVars, events, groupByPrefix, reloading, batch, stopVars>>,
           \A g \in Group : \A p \in listed'[g] : Configured(p, g),
           stop = "no" =>
               \A g \in Group : /\ ~birdUp'[g] => announced'[g] = {}
                                /\ ~dirty'[g] => CleanInv(g)'
    PROVE  HealInv'
<1> USE DEF prefixVars, stopVars
<1>1. UnknownIsClean' /\ Registered' /\ AllConfigured'
    BY DEF HealInv, UnknownIsClean, Registered, AllConfigured, GroupsConfigured
<1>2. ASSUME NEW p, NEW g, EventsAgree(p, g) PROVE EventsAgree(p, g)'
    BY <1>2 DEF EventsAgree, Effective, PrefixIsReady
<1> QED
    BY <1>1, <1>2 DEF HealInv

(* Whether an announce is due depends on the prefixes alone.                *)
LEMMA EffectiveQuiet ==
    ASSUME UNCHANGED prefixVars, NEW p, NEW g
    PROVE  Effective(p, g)' <=> Effective(p, g)
BY DEF prefixVars, Effective, PrefixIsReady

(* A group whose announces and whose handler do not change stays clean.     *)
LEMMA CleanOther ==
    ASSUME NEW g \in Group, CleanInv(g), UNCHANGED <<prefixVars, events, batch>>,
           birdUp'[g] = birdUp[g], announced'[g] = announced[g], request'[g] = request[g],
           handler'[g] = handler[g], listed'[g] = listed[g], answer'[g] = answer[g]
    PROVE  CleanInv(g)'
BY EffectiveQuiet DEF CleanInv, Underway

(* BIRD stops or starts.                                                    *)
LEMMA HealBird ==
    ASSUME HealInv, NEW g \in Group, BirdStop(g) \/ BirdStart(g)
    PROVE  HealInv'
<1>1. TypeOKRestart /\ TypeOKRestart'
    BY RestartTypeStep DEF HealInv, NextRestart
<1>2. UNCHANGED <<prefixVars, events, groupByPrefix, reloading, batch, stopVars, listed>>
    BY DEF BirdStop, BirdStart, handlerVars
<1>3. \A h \in Group : \A p \in listed'[h] : Configured(p, h)
    BY <1>2 DEF HealInv, AllConfigured
<1>4. ASSUME stop = "no", NEW h \in Group
      PROVE  (~birdUp'[h] => announced'[h] = {}) /\ (~dirty'[h] => CleanInv(h)')
  <2>0. (~birdUp[h] => announced[h] = {}) /\ (~dirty[h] => CleanInv(h))
    BY <1>4 DEF HealInv
  <2>1. CASE h # g
    <3>1. /\ birdUp'[h] = birdUp[h] /\ announced'[h] = announced[h]
          /\ request'[h] = request[h] /\ handler' = handler
          /\ dirty'[h] = dirty[h] /\ answer' = answer
      BY <1>1, <2>1 DEF BirdStop, BirdStart, TypeOKRestart, TypeOK, handlerVars
    <3> QED
      BY <1>2, <2>0, <3>1, CleanOther
  <2>2. CASE h = g /\ BirdStop(g)
    <3>1. /\ birdUp'[h] = FALSE /\ announced'[h] = {}
          /\ UNCHANGED <<handler, answer, dirty>>
      BY <1>1, <2>2 DEF BirdStop, TypeOKRestart, TypeOK, handlerVars
    <3>2. ~dirty[h] => CleanInv(h)'
      BY <1>2, <2>0, <3>1, EffectiveQuiet DEF CleanInv
    <3> QED
      BY <3>1, <3>2
  <2>3. CASE h = g /\ BirdStart(g)
    <3>1. /\ birdUp'[h] /\ announced[h] = {} /\ announced' = announced
          /\ request'[h] /\ handler' = handler
          /\ ~dirty'[h] => handler[h] = "listening"
      BY <1>1, <2>0, <2>3 DEF BirdStart, TypeOKRestart, TypeOK
    <3>2. ~dirty'[h] => CleanInv(h)'
      BY <3>1 DEF CleanInv, Underway
    <3> QED
      BY <3>1, <3>2
  <2> QED
    BY <2>1, <2>2, <2>3
<1> QED
    BY <1>1, <1>2, <1>3, <1>4, HealQuiet

(* The handler of a restart lists the prefixes of the group.                *)
LEMMA HealList ==
    ASSUME HealInv, NEW g \in Group, ListPrefixes(g)
    PROVE  HealInv'
<1>1. TypeOKRestart /\ TypeOKRestart'
    BY RestartTypeStep DEF HealInv, NextRestart
<1>2. UNCHANGED <<prefixVars, events, groupByPrefix, reloading, batch, stopVars, announced,
                  birdUp, answer>>
    BY DEF ListPrefixes, vars, prefixVars, stopVars
<1>3. /\ listed'[g] = {p \in Prefix : groupByPrefix[p] = g}
      /\ handler'[g] = "listed"
      /\ \A h \in Group \ {g} : /\ listed'[h] = listed[h] /\ handler'[h] = handler[h]
                               /\ request'[h] = request[h] /\ dirty'[h] = dirty[h]
      /\ ~dirty'[g] => ~dirty[g] /\ ~Unlisted(g)
    BY <1>1 DEF ListPrefixes, TypeOKRestart
<1>4. ASSUME NEW h \in Group, NEW p \in listed'[h] PROVE Configured(p, h)
  <2>1. CASE h = g
    BY <1>3, <1>4, <2>1, ConstantsAssumption DEF HealInv, AllConfigured
  <2>2. CASE h # g
    BY <1>3, <1>4, <2>2 DEF HealInv, AllConfigured
  <2> QED
    BY <2>1, <2>2
<1>5. ASSUME stop = "no", NEW h \in Group
      PROVE  (~birdUp'[h] => announced'[h] = {}) /\ (~dirty'[h] => CleanInv(h)')
  <2>0. (~birdUp[h] => announced[h] = {}) /\ (~dirty[h] => CleanInv(h))
    BY <1>5 DEF HealInv
  <2>1. CASE h # g
    BY <1>2, <1>3, <2>0, <2>1, CleanOther
  <2>2. CASE h = g
    <3>1. ASSUME ~Unlisted(g), NEW p \in Prefix, Effective(p, g) PROVE groupByPrefix[p] = g
      BY <3>1 DEF HealInv, Registered, Unlisted, Effective
    <3>2. ~Unlisted(g) => \A p \in Prefix : Effective(p, g) => Underway(p, g)'
      BY <1>3, <3>1 DEF Underway
    <3>3. ~dirty'[h] => CleanInv(h)'
      BY <1>2, <1>3, <2>0, <2>2, <3>2, EffectiveQuiet DEF CleanInv
    <3> QED
      BY <1>2, <2>0, <3>3
  <2> QED
    BY <2>1, <2>2
<1> QED
    BY <1>1, <1>2, <1>4, <1>5, HealQuiet

(* It looks up which of them are ready.                                     *)
LEMMA HealStatusFor ==
    ASSUME StableGroups, HealInv, NEW g \in Group, StatusFor(g)
    PROVE  HealInv'
<1>1. TypeOKRestart /\ TypeOKRestart'
    BY RestartTypeStep DEF HealInv, NextRestart
<1>2. UNCHANGED <<prefixVars, events, groupByPrefix, reloading, batch, stopVars, announced,
                  birdUp, request, listed, dirty>>
    BY DEF StatusFor, vars, prefixVars, stopVars
<1>3. /\ answer'[g] = {p \in listed[g] : group[p] # NoGroup /\ PrefixIsReady(p)}
      /\ handler[g] = "listed" /\ handler'[g] = "answering"
      /\ \A h \in Group \ {g} : answer'[h] = answer[h] /\ handler'[h] = handler[h]
    BY <1>1 DEF StatusFor, TypeOKRestart
<1>4. \A h \in Group : \A p \in listed'[h] : Configured(p, h)
    BY <1>2 DEF HealInv, AllConfigured
<1>5. answer'[g] = {p \in listed[g] : Effective(p, g)}
  <2> SUFFICES ASSUME NEW p \in listed[g]
               PROVE  group[p] # NoGroup /\ PrefixIsReady(p) <=> Effective(p, g)
    BY <1>3
  <2>1. p \in Prefix /\ Configured(p, g) /\ g # NoGroup
    BY <1>1, ConstantsAssumption DEF HealInv, AllConfigured, TypeOKRestart
  <2>2. group[p] # NoGroup => group[p] = g
    BY <2>1, OneGroup DEF HealInv, AllConfigured, GroupsConfigured
  <2> QED
    BY <2>1, <2>2 DEF Effective
<1>6. ASSUME stop = "no", NEW h \in Group
      PROVE  (~birdUp'[h] => announced'[h] = {}) /\ (~dirty'[h] => CleanInv(h)')
  <2>0. (~birdUp[h] => announced[h] = {}) /\ (~dirty[h] => CleanInv(h))
    BY <1>6 DEF HealInv
  <2>1. CASE h # g
    BY <1>2, <1>3, <2>0, <2>1, CleanOther
  <2>2. CASE h = g
    <3>1. \A p \in Prefix : Effective(p, g) /\ Underway(p, g) => Underway(p, g)'
      BY <1>2, <1>3, <1>5 DEF Underway
    <3>2. ~dirty[h] => CleanInv(h)'
      BY <1>2, <1>5, <2>0, <2>2, <3>1, EffectiveQuiet DEF CleanInv
    <3> QED
      BY <1>2, <2>0, <3>2
  <2> QED
    BY <2>1, <2>2
<1> QED
    BY <1>1, <1>2, <1>4, <1>6, HealQuiet

(* It sends them to BIRD.                                                   *)
LEMMA HealAnswer ==
    ASSUME HealInv, NEW g \in Group, Answer(g)
    PROVE  HealInv'
<1>1. TypeOKRestart /\ TypeOKRestart'
    BY RestartTypeStep DEF HealInv, NextRestart
<1>2. UNCHANGED <<prefixVars, events, groupByPrefix, reloading, batch, stopVars, birdUp,
                  request, dirty>>
    BY DEF Answer, ProcessBatch, prefixVars, stopVars
<1>3. /\ handler[g] = "answering" /\ handler'[g] = "listening" /\ listed'[g] = {}
      /\ \A h \in Group \ {g} : /\ listed'[h] = listed[h] /\ handler'[h] = handler[h]
                               /\ answer'[h] = answer[h] /\ announced'[h] = announced[h]
    BY <1>1 DEF Answer, ProcessBatch, TypeOKRestart, TypeOK
<1>4. \A h \in Group : \A p \in listed'[h] : Configured(p, h)
    BY <1>3 DEF HealInv, AllConfigured
<1>5. ASSUME stop = "no", NEW h \in Group
      PROVE  (~birdUp'[h] => announced'[h] = {}) /\ (~dirty'[h] => CleanInv(h)')
  <2>0. (~birdUp[h] => announced[h] = {}) /\ (~dirty[h] => CleanInv(h))
    BY <1>5 DEF HealInv
  <2>1. CASE h # g
    BY <1>2, <1>3, <2>0, <2>1, CleanOther
  <2>2. CASE h = g
    <3>1. announced'[g] = IF birdUp[g] THEN (announced[g] \cup answer[g]) \ (listed[g] \ answer[g])
                          ELSE announced[g]
      BY <1>1, <1>5 DEF Answer, ProcessBatch, TypeOKRestart, TypeOK
    <3>2. ASSUME ~dirty[g], birdUp[g], NEW p \in Prefix,
                 events[<<p, g>>] = NoEvent, batch[<<p, g>>] = NoEvent
          PROVE  /\ p \in announced'[g] => Effective(p, g)
                 /\ Effective(p, g) => p \in announced'[g] \/ request[g]
      <4>1. /\ answer[g] = {q \in listed[g] : Effective(q, g)}
            /\ p \in announced[g] => Effective(p, g)
            /\ Effective(p, g) => p \in announced[g] \/ Underway(p, g)
        BY <1>3, <2>0, <2>2, <3>2 DEF CleanInv
      <4>2. Underway(p, g) => request[g] \/ p \in answer[g]
        BY <1>3 DEF Underway
      <4> QED
        BY <3>1, <3>2, <4>1, <4>2
    <3>3. ~dirty[h] => CleanInv(h)'
      BY <1>2, <1>3, <2>2, <3>2, EffectiveQuiet DEF CleanInv, Underway
    <3> QED
      BY <1>2, <2>0, <2>2, <3>1, <3>3
  <2> QED
    BY <2>1, <2>2
<1> QED
    BY <1>1, <1>2, <1>4, <1>5, HealQuiet

-----------------------------------------------------------------------------
(* Every step keeps HealInv.                                                *)
LEMMA HealStep == StableGroups /\ HealInv /\ [NextRestart]_restartVars => HealInv'
<1> SUFFICES ASSUME StableGroups, HealInv, [NextRestart]_restartVars PROVE HealInv'
    OBVIOUS
<1>1. CASE UNCHANGED restartVars
  <2>1. TypeOKRestart'
    BY RestartTypeStep DEF HealInv
  <2>2. /\ UNCHANGED <<prefixVars, events, groupByPrefix, reloading, batch, stopVars>>
        /\ UNCHANGED <<announced, birdUp, request, handler, listed, answer, dirty>>
    BY <1>1 DEF restartVars, vars, handlerVars, prefixVars, stopVars
  <2>3. \A g \in Group : CleanInv(g) => CleanInv(g)'
    BY <2>2, CleanOther
  <2> QED
    BY <2>1, <2>2, <2>3, HealQuiet DEF HealInv, AllConfigured
<1> QED
    BY <1>1, HealAnnouncer, HealBird, HealList, HealStatusFor, HealAnswer DEF NextRestart

(* HealInv holds at the start.                                              *)
LEMMA HealInit == InitRestart => HealInv
<1> SUFFICES ASSUME InitRestart PROVE HealInv
    OBVIOUS
<1>1. Init
    BY DEF InitRestart
<1>2. TypeOK
    BY <1>1, TypeInit
<1>3. ASSUME NEW p \in Prefix, NEW g \in Group
      PROVE  /\ ~Effective(p, g) /\ events[<<p, g>>] = NoEvent /\ batch[<<p, g>>] = NoEvent
    BY <1>1 DEF Init, EmptyRegistry, Key, Effective, PrefixIsReady, StatusOf, Ready, Unready
<1>4. TypeOKRestart
  <2>1. request \in [Group -> BOOLEAN] /\ dirty \in [Group -> BOOLEAN]
    BY Zenon DEF InitRestart
  <2> QED
    BY <1>2, <2>1 DEF InitRestart, TypeOKRestart
<1>5. UnknownIsClean /\ Registered /\ AllConfigured
    BY <1>1, <1>3 DEF InitRestart, Init, UnknownIsClean, Registered, AllConfigured,
       GroupsConfigured
<1>6. ASSUME NEW g \in Group
      PROVE  /\ announced[g] = {} /\ CleanInv(g)
             /\ \A p \in Prefix : EventsAgree(p, g)
    BY <1>1, <1>3, Distinct DEF InitRestart, Init, CleanInv, EventsAgree
<1> QED
    BY <1>4, <1>5, <1>6 DEF HealInv

(* If no two configurations give a prefix two groups, a restart of BIRD     *)
(* heals its group (stateRequestHandler): once its state request is         *)
(* answered and nothing is on its way, BIRD announces exactly the ready     *)
(* prefixes, whatever was lost before it came back, unless a readiness      *)
(* changed since, an older answer was on its way or the handler read the    *)
(* group registry before a reload had put a ready prefix into it.           *)
THEOREM RestartHealsTheorem == StableGroups => (SpecRestart => []RestartHeals)
<1> SUFFICES ASSUME StableGroups PROVE SpecRestart => []RestartHeals
    OBVIOUS
<1>1. HealInv => RestartHeals
  <2> SUFFICES ASSUME HealInv, NEW g \in Group, stop = "no", Settled(g), ~dirty[g]
               PROVE  announced[g] = {p \in Prefix : Effective(p, g)}
    BY DEF RestartHeals, InSync
  <2>1. CleanInv(g) /\ announced[g] \subseteq Prefix
    BY DEF HealInv, TypeOKRestart, TypeOK
  <2>2. ASSUME NEW p \in Prefix
        PROVE  events[<<p, g>>] = NoEvent /\ batch[<<p, g>>] = NoEvent
    <3>1. <<p, g>> \in Key /\ <<p, g>>[2] = g
      BY DEF Key
    <3> QED
      BY <3>1 DEF Settled, Pending, HealInv, TypeOKRestart, TypeOK
  <2>3. \A p \in Prefix : ~Underway(p, g)
    BY DEF Settled, Underway
  <2>4. birdUp[g]
    BY DEF Settled
  <2> QED
    BY <2>1, <2>2, <2>3, <2>4 DEF CleanInv
<1>2. HealInv /\ [NextRestart]_restartVars => HealInv'
    BY HealStep
<1> QED
    BY <1>1, <1>2, HealInit, PTL DEF SpecRestart
=============================================================================
